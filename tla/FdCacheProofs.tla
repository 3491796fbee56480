---------------------------- MODULE FdCacheProofs ----------------------------
(***************************************************************************)
(* Proofs about FdCache, for every set of threads, descriptors, slots and  *)
(* names and every bound.                                                  *)
(***************************************************************************)
EXTENDS FdCache, FiniteSetTheorems, WellFoundedInduction, TLAPS

Claiming  == {"put fd", "put tag", "put head", "put tail", "publish"}
Reading   == {"compare", "tag", "head", "tail", "validate"}
Found     == {"map", "load", "claim"} \cup Claiming
Resolving == {"sequence", "sample", "readlink", "current", "answer"} \cup Reading \cup Found
Tagged    == {"head", "tail", "validate", "current", "readlink"} \cup Found

Even(n) == n % 2 = 0

(***************************************************************************)
(* The inductive invariant.                                                *)
(***************************************************************************)
\* The descriptor a thread resolves; the slots of a call that invalidates.
ShapeOf(t) ==
  /\ pc[t] \in Resolving => at[t] \in Fds
  /\ pc[t] # "invalidate" => todo[t] = {}
  /\ pc[t] = "invalidate" /\ at[t] # NoFd => todo[t] = {Slot(at[t])}

\* A claimed slot is odd, has one claimer, and holds what this one has put.
ClaimOf(t) ==
  /\ pc[t] \in {"claim"} \cup Claiming => Even(mem[t].seq)
  /\ pc[t] \in Claiming => Entry(t).seq = mem[t].seq + 1
  /\ pc[t] \in Claiming \ {"put fd"} => Entry(t).fd = at[t]
  /\ pc[t] \in {"put head", "put tail", "publish"} => Entry(t).gen = mem[t].gen
  /\ pc[t] \in {"put tail", "publish"} => Entry(t).head = mem[t].head
  /\ pc[t] = "publish" => Entry(t).tail = mem[t].tail
OneClaimer ==
  \A t, u \in Threads :
    pc[t] \in Claiming /\ pc[u] \in Claiming /\ Slot(at[t]) = Slot(at[u]) => t = u

\* While the sequence a reader has sampled stands, its copies are the entry's.
ReadOf(t) ==
  pc[t] \in Reading =>
    /\ Even(mem[t].seq) /\ mem[t].seq <= Entry(t).seq
    /\ mem[t].seq = Entry(t).seq =>
         /\ pc[t] \in Reading \ {"compare"} => Entry(t).fd = at[t]
         /\ pc[t] \in {"head", "tail", "validate"} => Entry(t).gen = mem[t].gen
         /\ pc[t] \in {"tail", "validate"} => Entry(t).head = mem[t].head
         /\ pc[t] = "validate" => Entry(t).tail = mem[t].tail

\* No tag is of a generation to come.
TagsInv ==
  /\ \A s \in Slots : entry[s].gen <= generation[s]
  /\ \A t \in Threads : pc[t] \in Tagged => mem[t].gen <= generation[Slot(at[t])]

\* A name under the current tag: it is the descriptor's, or it has ended and
\* the generation is still to be moved on, or nobody will.
Pending(fd, l) ==
  \/ <<fd, l>> \in lost
  \/ \E u \in Threads : <<fd, l>> \in leaving[u] /\ Slot(fd) \in todo[u]
Sound(fd, l, tag) == tag = generation[Slot(fd)] => l = link[fd] \/ Pending(fd, l)
EntryOf(s) ==
  Even(entry[s].seq) /\ entry[s].fd # NoFd =>
    /\ Slot(entry[s].fd) = s
    /\ entry[s].head = entry[s].tail /\ entry[s].head \in Links
    /\ Sound(entry[s].fd, entry[s].head, entry[s].gen)
HeldOf(t) ==
  pc[t] \in Found \cup {"current"} =>
    /\ mem[t].head = mem[t].tail /\ mem[t].head \in Links
    /\ Sound(at[t], mem[t].head, mem[t].gen)

\* What a resolution has found, or could find now, it may answer.
AllowedOf(t) ==
  /\ pc[t] \in Resolving => Nameable(at[t]) \subseteq allowed[t]
  /\ pc[t] \in Found => mem[t].head \in allowed[t]
  /\ pc[t] = "answer" => \/ mem[t].head = NoLink
                         \/ (mem[t].head = mem[t].tail /\ mem[t].head \in allowed[t])

\* The application closes a descriptor once.
OwnedAreOpen == \A fd \in owned : link[fd] # NoLink

ShapeInv == \A t \in Threads : ShapeOf(t)
ClaimInv == OneClaimer /\ \A t \in Threads : ClaimOf(t)
ReadInv  == \A t \in Threads : ReadOf(t)
SoundInv == (\A s \in Slots : EntryOf(s)) /\ (\A t \in Threads : HeldOf(t))
AllowedInv == \A t \in Threads : AllowedOf(t)

-----------------------------------------------------------------------------
(* The operators of the model.                                             *)

\* Bumping goes from the lowest slot up: a set of slots has a lowest.
LEMMA LowestSlot ==
  ASSUME NEW S, S \subseteq Nat, S # {}
  PROVE  Min(S) \in S
<1> DEFINE Less == OpToRel(<, Nat)
<1>1. \A y, x \in Nat : <<y, x>> \in Less <=> y < x
  BY Zenon DEF OpToRel
<1>2. IsWellFoundedOn(Less, Nat)
  BY NatLessThanWellFounded
<1> HIDE DEF Less
<1>3. PICK x \in S : \A y \in S : ~ (<<y, x>> \in Less)
  BY <1>2, WFMin
<1>4. \A y \in S : ~ (y < x)
  BY <1>1, <1>3
<1>5. \A y \in S : x =< y
  BY <1>4
<1> QED
  BY <1>5 DEF Min

\* Descriptors, and the number that stands for none, map to slots.
LEMMA SlotsAreNat ==
  /\ Slots \subseteq Nat /\ Fds \subseteq Nat /\ NoFd \notin Fds
  /\ \A fd \in Fds \cup {NoFd} : Slot(fd) \in Slots
<1>1. SlotCount \in Nat \ {0} /\ Slots = 0..(SlotCount - 1)
  BY ConstantsAssumption, Zenon DEF Slots
<1>2. Fds \subseteq Nat \ (0..2)
  BY ConstantsAssumption
<1>3. ASSUME NEW fd \in Fds \cup {NoFd} PROVE Slot(fd) \in Slots
  BY <1>1, <1>2 DEF Slot, NoFd
<1> QED
  BY <1>1, <1>2, <1>3 DEF NoFd

\* A call of at most one slot left to bump leaves none after it.
LEMMA LastSlot ==
  ASSUME NEW S, S \subseteq Slots, ~ Cardinality(S) > 1, S # {}
  PROVE  S = {Min(S)}
<1>1. IsFiniteSet(Slots)
  <2>1. SlotCount \in Nat
    BY ConstantsAssumption
  <2>2. SlotCount - 1 \in Int /\ 0 \in Int
    BY <2>1
  <2> QED
    BY <2>2, FS_Interval DEF Slots
<1>2. IsFiniteSet(S)
  BY <1>1, FS_Subset
<1>3. Cardinality(S) \in Nat /\ Cardinality(S) # 0
  BY <1>2, FS_CardinalityType, FS_EmptySet
<1>4. PICK x : S = {x}
  BY <1>2, <1>3, FS_Singleton
<1> QED
  BY <1>4, LowestSlot, SlotsAreNat

-----------------------------------------------------------------------------
(* What a step changes, field by field.                                    *)

\* One word of a thread's copies is kept, the others stay.
LEMMA KeepFields ==
  ASSUME NEW t \in Threads, NEW v, NEW f \in {"seq", "gen", "head", "tail"},
         mem \in [Threads -> Copies], Keep(t, f, v)
  PROVE  /\ mem'[t].seq = IF f = "seq" THEN v ELSE mem[t].seq
         /\ mem'[t].gen = IF f = "gen" THEN v ELSE mem[t].gen
         /\ mem'[t].head = IF f = "head" THEN v ELSE mem[t].head
         /\ mem'[t].tail = IF f = "tail" THEN v ELSE mem[t].tail
         /\ \A u \in Threads \ {t} : mem'[u] = mem[u]
         /\ mem'[t] = [mem[t] EXCEPT ![f] = v]
         /\ mem' = [mem EXCEPT ![t] = mem'[t]]
<1>1. mem' = [mem EXCEPT ![t] = [mem[t] EXCEPT ![f] = v]]
  BY DEF Keep
<1>2. mem'[t] = [mem[t] EXCEPT ![f] = v]
  BY <1>1
<1>3. \A u \in Threads \ {t} : mem'[u] = mem[u]
  BY <1>1
<1>4. mem[t] \in Copies
  OBVIOUS
<1> QED
  BY <1>1, <1>2, <1>3, <1>4 DEF Copies

\* The words most steps keep.
LEMMA KeepWord ==
  ASSUME NEW t \in Threads, NEW v, mem \in [Threads -> Copies]
  PROVE  /\ Keep(t, "seq", v) => mem'[t].seq = v
         /\ Keep(t, "gen", v) => mem'[t].gen = v /\ mem'[t].seq = mem[t].seq
<1>1. CASE Keep(t, "seq", v)
  BY <1>1, KeepFields
<1>2. CASE Keep(t, "gen", v)
  BY <1>2, KeepFields
<1> QED
  BY <1>1, <1>2

\* One word of a slot is written, the others stay.
LEMMA SetEntryFields ==
  ASSUME NEW t \in Threads, NEW v, NEW f \in {"seq", "fd", "gen", "head", "tail"},
         entry \in [Slots -> Entries], at[t] \in Fds, SetEntry(t, f, v)
  PROVE  /\ Slot(at[t]) \in Slots
         /\ entry'[Slot(at[t])].seq = IF f = "seq" THEN v ELSE Entry(t).seq
         /\ entry'[Slot(at[t])].fd = IF f = "fd" THEN v ELSE Entry(t).fd
         /\ entry'[Slot(at[t])].gen = IF f = "gen" THEN v ELSE Entry(t).gen
         /\ entry'[Slot(at[t])].head = IF f = "head" THEN v ELSE Entry(t).head
         /\ entry'[Slot(at[t])].tail = IF f = "tail" THEN v ELSE Entry(t).tail
         /\ \A s \in Slots \ {Slot(at[t])} : entry'[s] = entry[s]
         /\ entry'[Slot(at[t])] = [Entry(t) EXCEPT ![f] = v]
         /\ entry' = [entry EXCEPT ![Slot(at[t])] = entry'[Slot(at[t])]]
<1> DEFINE s == Slot(at[t])
<1>0. s \in Slots
  BY SlotsAreNat
<1> HIDE DEF s
<1>1. entry' = [entry EXCEPT ![s] = [entry[s] EXCEPT ![f] = v]]
  BY DEF SetEntry, s
<1>2. entry'[s] = [entry[s] EXCEPT ![f] = v]
  BY <1>0, <1>1
<1>3. \A r \in Slots \ {s} : entry'[r] = entry[r]
  BY <1>0, <1>1
<1>4. entry[s] \in Entries
  BY <1>0
<1>5. Entry(t) = entry[s]
  BY DEF Entry, s
<1>6. /\ entry'[s].seq = IF f = "seq" THEN v ELSE entry[s].seq
      /\ entry'[s].fd = IF f = "fd" THEN v ELSE entry[s].fd
      /\ entry'[s].gen = IF f = "gen" THEN v ELSE entry[s].gen
      /\ entry'[s].head = IF f = "head" THEN v ELSE entry[s].head
      /\ entry'[s].tail = IF f = "tail" THEN v ELSE entry[s].tail
  BY <1>2, <1>4 DEF Entries
<1> QED
  BY <1>0, <1>1, <1>2, <1>3, <1>5, <1>6 DEF s

\* Only the thread that steps moves.
LEMMA GotoOne ==
  ASSUME NEW t \in Threads, NEW label, pc \in [Threads -> Labels], Goto(t, label)
  PROVE  pc'[t] = label /\ \A u \in Threads \ {t} : pc'[u] = pc[u]
BY DEF Goto

\* A well-formed word leaves copies and slots well formed.
LEMMA KeepTyped ==
  ASSUME NEW t \in Threads, NEW v, NEW f \in {"seq", "gen", "head", "tail"},
         mem \in [Threads -> Copies], Keep(t, f, v),
         v \in IF f \in {"seq", "gen"} THEN Nat ELSE Names
  PROVE  mem' \in [Threads -> Copies]
<1> DEFINE c == mem[t]
           m == [c EXCEPT ![f] = v]
<1>1. c \in Copies
  OBVIOUS
<1> HIDE DEF c
<1>2. ASSUME NEW x \in Nat PROVE [c EXCEPT !.seq = x] \in Copies /\ [c EXCEPT !.gen = x] \in Copies
  BY <1>1, <1>2, Zenon DEF Copies
<1>3. ASSUME NEW x \in Names PROVE [c EXCEPT !.head = x] \in Copies /\ [c EXCEPT !.tail = x] \in Copies
  BY <1>1, <1>3, Zenon DEF Copies
<1>4. m \in Copies
  BY <1>2, <1>3
<1> HIDE DEF m
<1>5. mem' = [mem EXCEPT ![t] = m]
  BY DEF Keep, m, c
<1> QED
  BY <1>4, <1>5

LEMMA SetEntryTyped ==
  ASSUME NEW t \in Threads, NEW v, NEW f \in {"seq", "fd", "gen", "head", "tail"},
         entry \in [Slots -> Entries], at[t] \in Fds, SetEntry(t, f, v),
         v \in IF f \in {"seq", "gen"} THEN Nat ELSE IF f = "fd" THEN Fds ELSE Names
  PROVE  entry' \in [Slots -> Entries]
<1> DEFINE s == Slot(at[t])
           e == [entry[s] EXCEPT ![f] = v]
<1>0. s \in Slots
  BY SlotsAreNat
<1> HIDE DEF s
<1>1. entry[s] \in Entries
  BY <1>0
<1>2. e = [seq |-> IF f = "seq" THEN v ELSE entry[s].seq, fd |-> IF f = "fd" THEN v ELSE entry[s].fd,
           gen |-> IF f = "gen" THEN v ELSE entry[s].gen,
           head |-> IF f = "head" THEN v ELSE entry[s].head, tail |-> IF f = "tail" THEN v ELSE entry[s].tail]
  BY <1>1 DEF Entries
<1>3. e \in Entries
  <2>1. /\ entry[s].seq \in Nat /\ entry[s].fd \in Fds \cup {NoFd} /\ entry[s].gen \in Nat
        /\ entry[s].head \in Names /\ entry[s].tail \in Names
    BY <1>1 DEF Entries
  <2> HIDE DEF e
  <2> QED
    BY <1>2, <2>1 DEF Entries
<1> HIDE DEF e
<1>4. entry' = [entry EXCEPT ![s] = e]
  BY DEF SetEntry, s, e
<1> QED
  BY <1>0, <1>3, <1>4

\* What the entry of a resolving thread's slot and its copies are.
LEMMA Words ==
  ASSUME TypeOK, NEW t \in Threads
  PROVE  /\ Slot(at[t]) \in Slots
         /\ Entry(t).seq \in Nat /\ Entry(t).fd \in Fds \cup {NoFd} /\ Entry(t).gen \in Nat
         /\ Entry(t).head \in Names /\ Entry(t).tail \in Names
         /\ mem[t].seq \in Nat /\ mem[t].gen \in Nat /\ mem[t].head \in Names /\ mem[t].tail \in Names
         /\ generation[Slot(at[t])] \in Nat
<1>1. Slot(at[t]) \in Slots
  BY SlotsAreNat DEF TypeOK
<1>2. Entry(t) \in Entries /\ mem[t] \in Copies /\ generation[Slot(at[t])] \in Nat
  BY <1>1 DEF TypeOK, Entry
<1> QED
  BY <1>1, <1>2 DEF Entries, Copies

-----------------------------------------------------------------------------
(* Types, and the shape of a thread's work.                                *)
BaseInv == TypeOK /\ ShapeInv /\ OwnedAreOpen

LEMMA BaseInit == Init => BaseInv
<1> SUFFICES ASSUME Init PROVE BaseInv
  OBVIOUS
<1>1. link \in [Fds -> Names] /\ owned \subseteq Fds
  BY ConstantsAssumption DEF Init, Names, NoLink
<1>2. [seq |-> 0, fd |-> NoFd, gen |-> 0, head |-> NoLink, tail |-> NoLink] \in Entries
  BY DEF Entries, Names
<1>3. NoMem \in Copies
  BY DEF NoMem, Copies, Names
<1>4. TypeOK
  BY <1>1, <1>2, <1>3 DEF Init, TypeOK, Labels
<1>5. ShapeInv
  BY <1>4 DEF Init, ShapeInv, ShapeOf, Resolving, Reading, Found, Claiming
<1>6. OwnedAreOpen
  BY DEF Init, OwnedAreOpen
<1> QED
  BY <1>4, <1>5, <1>6 DEF BaseInv

\* An access of the lookup, of the store, or between them.
LEMMA BaseResolve ==
  ASSUME BaseInv, NEW t \in Threads, Resolve(t)
  PROVE  BaseInv'
<1> USE DEF BaseInv
<1>0. /\ Slot(at[t]) \in Slots
      /\ Entry(t).seq \in Nat /\ Entry(t).fd \in Fds \cup {NoFd} /\ Entry(t).gen \in Nat
      /\ Entry(t).head \in Names /\ Entry(t).tail \in Names
      /\ mem[t].seq \in Nat /\ mem[t].gen \in Nat /\ mem[t].head \in Names /\ mem[t].tail \in Names
      /\ generation[Slot(at[t])] \in Nat
  BY Words
<1>1. pc[t] \in Resolving => at[t] \in Fds
  BY DEF ShapeInv, ShapeOf
<1>2. NoMem \in Copies
  BY DEF NoMem, Copies, Names
<1>11. OwnedAreOpen'
  BY DEF OwnedAreOpen, Resolve, StartResolve, Lookup, ValidateSequence, ValidateGeneration, SampleGeneration,
         ReadLink, MapTable, LoadSequence, ClaimSlot, FillSlot, Return, kernel
<1>3. CASE \E fd \in Fds : StartResolve(t, fd)
  <2> PICK fd \in Fds : StartResolve(t, fd)
    BY <1>3
  <2>1. Nameable(fd) \subseteq Names
    BY DEF TypeOK, Nameable, Stale, Names
  <2>2. TypeOK'
    BY <2>1 DEF TypeOK, StartResolve, Goto, kernel, cache, Labels
  <2>3. ShapeInv'
    BY DEF TypeOK, ShapeInv, ShapeOf, StartResolve, Goto
  <2> QED
    BY <1>11, <2>2, <2>3
<1>4. CASE Lookup(t)
  <2>1. mem' \in [Threads -> Copies]
    BY <1>0, <1>4, KeepTyped DEF TypeOK, Lookup
  <2>2. pc' \in [Threads -> Labels]
    BY <1>4 DEF TypeOK, Lookup, Goto, Labels
  <2>3. TypeOK'
    BY <1>4, <2>1, <2>2 DEF TypeOK, Lookup, kernel, cache, history
  <2>4. pc[t] \in Resolving /\ pc'[t] # "invalidate" /\ \A u \in Threads \ {t} : pc'[u] = pc[u]
    BY <1>4 DEF TypeOK, Lookup, Goto, Resolving, Reading
  <2>5. ShapeInv'
    BY <1>1, <1>4, <2>4 DEF TypeOK, ShapeInv, ShapeOf, Lookup, Resolving, Reading
  <2> QED
    BY <1>11, <2>3, <2>5
<1>5. CASE ValidateSequence(t) \/ ValidateGeneration(t)
  <2>1. pc' \in [Threads -> Labels]
    BY <1>5 DEF TypeOK, ValidateSequence, ValidateGeneration, Goto, Labels
  <2>2. TypeOK'
    BY <1>5, <2>1 DEF TypeOK, ValidateSequence, ValidateGeneration, kernel, cache, history
  <2>3. pc[t] \in Resolving /\ pc'[t] # "invalidate" /\ \A u \in Threads \ {t} : pc'[u] = pc[u]
    BY <1>5 DEF TypeOK, ValidateSequence, ValidateGeneration, Goto, Resolving, Reading
  <2>4. ShapeInv'
    BY <1>1, <1>5, <2>3 DEF TypeOK, ShapeInv, ShapeOf, ValidateSequence, ValidateGeneration, Resolving, Reading
  <2> QED
    BY <1>11, <2>2, <2>4
<1>6. CASE SampleGeneration(t) \/ LoadSequence(t)
  <2>1. mem' \in [Threads -> Copies]
    BY <1>0, <1>6, KeepTyped DEF TypeOK, SampleGeneration, LoadSequence
  <2>2. pc' \in [Threads -> Labels]
    BY <1>6 DEF TypeOK, SampleGeneration, LoadSequence, Goto, Labels
  <2>3. TypeOK'
    BY <1>6, <2>1, <2>2 DEF TypeOK, SampleGeneration, LoadSequence, kernel, cache, history
  <2>4. pc[t] \in Resolving /\ pc'[t] # "invalidate" /\ \A u \in Threads \ {t} : pc'[u] = pc[u]
    BY <1>6 DEF TypeOK, SampleGeneration, LoadSequence, Goto, Resolving, Found
  <2>5. ShapeInv'
    BY <1>1, <1>6, <2>4 DEF TypeOK, ShapeInv, ShapeOf, SampleGeneration, LoadSequence, Resolving, Found
  <2> QED
    BY <1>11, <2>3, <2>5
<1>7. CASE ReadLink(t)
  <2>1. at[t] \in Fds
    BY <1>1, <1>7 DEF ReadLink, Resolving
  <2>2. mem' \in [Threads -> Copies]
    <3>1. CASE mem' = [mem EXCEPT ![t] = NoMem]
      BY <1>2, <3>1 DEF TypeOK
    <3>2. CASE mem' = [mem EXCEPT ![t].head = link[at[t]], ![t].tail = link[at[t]], ![t].seq = 0]
      <4> DEFINE c == mem[t]
                 l == link[at[t]]
                 m == [c EXCEPT !.head = l, !.tail = l, !.seq = 0]
      <4>1. c \in Copies /\ l \in Names
        BY <2>1 DEF TypeOK
      <4>2. mem' = [mem EXCEPT ![t] = m]
        BY <3>2 DEF TypeOK
      <4> HIDE DEF c, l
      <4>3. m \in Copies
        BY <4>1, Zenon DEF Copies
      <4> HIDE DEF m
      <4> QED
        BY <4>2, <4>3 DEF TypeOK
    <3> QED
      BY <1>7, <3>1, <3>2 DEF ReadLink
  <2>3. pc' \in [Threads -> Labels]
    <3>1. Goto(t, "answer") \/ Goto(t, "map")
      BY <1>7 DEF ReadLink
    <3>2. pc \in [Threads -> Labels]
      BY DEF TypeOK
    <3>3. {"answer", "map"} \subseteq Labels
      BY DEF Labels
    <3> QED
      BY <3>1, <3>2, <3>3, Zenon DEF Goto
  <2>4. TypeOK'
    BY <1>7, <2>2, <2>3 DEF TypeOK, ReadLink, kernel, cache, history
  <2>5. pc'[t] # "invalidate" /\ \A u \in Threads \ {t} : pc'[u] = pc[u]
    BY <1>7 DEF TypeOK, ReadLink, Goto
  <2>6. ShapeInv'
    BY <1>7, <2>1, <2>5 DEF TypeOK, ShapeInv, ShapeOf, ReadLink
  <2> QED
    BY <1>11, <2>4, <2>6
<1>8. CASE MapTable(t)
  <2>1. pc' \in [Threads -> Labels] /\ mapped' \in BOOLEAN
    BY <1>8 DEF TypeOK, MapTable, Goto, Labels
  <2>2. TypeOK'
    BY <1>8, <2>1 DEF TypeOK, MapTable, kernel, history
  <2>3. pc[t] \in Resolving /\ pc'[t] # "invalidate" /\ \A u \in Threads \ {t} : pc'[u] = pc[u]
    BY <1>8 DEF TypeOK, MapTable, Goto, Resolving, Found
  <2>4. ShapeInv'
    BY <1>1, <1>8, <2>3 DEF TypeOK, ShapeInv, ShapeOf, MapTable
  <2> QED
    BY <1>11, <2>2, <2>4
<1>9. CASE ClaimSlot(t) \/ FillSlot(t)
  <2>1. pc[t] \in Resolving /\ at[t] \in Fds
    BY <1>1, <1>9 DEF ClaimSlot, FillSlot, Resolving, Found, Claiming
  <2>2. entry' \in [Slots -> Entries]
    <3>1. entry \in [Slots -> Entries]
      BY DEF TypeOK
    <3>2. CASE SetEntry(t, "seq", mem[t].seq + 1) \/ SetEntry(t, "seq", mem[t].seq + 2)
      BY <1>0, <2>1, <3>1, <3>2, SetEntryTyped
    <3>3. CASE SetEntry(t, "fd", at[t])
      BY <2>1, <3>1, <3>3, SetEntryTyped
    <3>4. CASE SetEntry(t, "gen", mem[t].gen)
      BY <1>0, <2>1, <3>1, <3>4, SetEntryTyped
    <3>5. CASE SetEntry(t, "head", mem[t].head) \/ SetEntry(t, "tail", mem[t].tail)
      BY <1>0, <2>1, <3>1, <3>5, SetEntryTyped
    <3> QED
      BY <1>9, <3>1, <3>2, <3>3, <3>4, <3>5 DEF ClaimSlot, FillSlot, Tag
  <2>3. pc' \in [Threads -> Labels]
    <3>1. PICK label \in {"put fd", "answer", "put tag", "put head", "put tail", "publish"} : Goto(t, label)
      BY <1>9, Zenon DEF ClaimSlot, FillSlot
    <3>2. pc \in [Threads -> Labels] /\ label \in Labels
      BY <3>1 DEF TypeOK, Labels
    <3> QED
      BY <3>1, <3>2, Zenon DEF Goto
  <2>4. TypeOK'
    BY <1>9, <2>2, <2>3 DEF TypeOK, ClaimSlot, FillSlot, kernel, history
  <2>5. pc'[t] # "invalidate" /\ \A u \in Threads \ {t} : pc'[u] = pc[u]
    BY <1>9 DEF TypeOK, ClaimSlot, FillSlot, Goto
  <2>6. ShapeInv'
    BY <1>9, <2>1, <2>5 DEF TypeOK, ShapeInv, ShapeOf, ClaimSlot, FillSlot
  <2> QED
    BY <1>11, <2>4, <2>6
<1>10. CASE Return(t)
  <2>1. TypeOK'
    BY <1>2, <1>10 DEF TypeOK, Return, Goto, kernel, cache, Labels
  <2>2. pc'[t] = "idle" /\ \A u \in Threads \ {t} : pc'[u] = pc[u] /\ at'[u] = at[u]
    BY <1>10 DEF TypeOK, Return, Goto
  <2>3. ShapeInv'
    BY <1>10, <2>2 DEF ShapeInv, ShapeOf, Return, Resolving, Reading, Found, Claiming
  <2> QED
    BY <1>11, <2>1, <2>3
<1> QED
  BY <1>3, <1>4, <1>5, <1>6, <1>7, <1>8, <1>9, <1>10 DEF Resolve

\* The slot of every descriptor whose name a wrapped call ends is among those
\* the call outdates; an open-like call outdates the slot of its descriptor.
Outdating(t, new, fd, outdated) ==
  /\ Wrapped(t, new, fd, outdated)
  /\ fd # NoFd => outdated = {Slot(fd)}
  /\ \A x \in Fds : link[x] # NoLink /\ new[x] # link[x] => Slot(x) \in outdated

WrappedCall(t) == Open(t) \/ Close(t) \/ Dup(t) \/ CloseRange(t) \/ Relink(t)

LEMMA CallsOutdate ==
  ASSUME BaseInv, NEW t \in Threads, WrappedCall(t)
  PROVE  /\ owned' \subseteq Fds
         /\ OwnedAreOpen'
         /\ \E new \in [Fds -> Names], fd \in Fds \cup {NoFd}, outdated \in SUBSET Slots :
              Outdating(t, new, fd, outdated)
<1> USE DEF Outdating, BaseInv, OwnedAreOpen
<1>0. (\A fd \in Fds : Slot(fd) \in Slots) /\ NoLink \notin Links
  BY SlotsAreNat, ConstantsAssumption DEF NoLink
<1>1. CASE Open(t)
  <2>1. PICK fd \in Fds, l \in Links :
          /\ link[fd] = NoLink
          /\ Wrapped(t, [link EXCEPT ![fd] = l], fd, {Slot(fd)})
          /\ UNCHANGED owned
    BY <1>1 DEF Open
  <2> DEFINE new == [link EXCEPT ![fd] = l]
  <2>2. new \in [Fds -> Names] /\ \A x \in Fds \ {fd} : new[x] = link[x]
    BY DEF TypeOK, Names
  <2>3. Outdating(t, new, fd, {Slot(fd)})
    BY <2>1, <2>2
  <2>9. link' = new
    BY <2>1 DEF Wrapped, Change
  <2>10. owned' \subseteq Fds /\ \A x \in owned' : link'[x] # NoLink
    BY <1>0, <2>1, <2>2, <2>9 DEF TypeOK
  <2> HIDE DEF new, Outdating
  <2> QED
    BY <1>0, <2>1, <2>2, <2>3, <2>10
<1>2. CASE Close(t)
  <2>1. PICK fd \in owned :
          /\ Wrapped(t, [link EXCEPT ![fd] = NoLink], NoFd, {Slot(fd)})
          /\ owned' = owned \ {fd}
    BY <1>2 DEF Close
  <2> DEFINE new == [link EXCEPT ![fd] = NoLink]
  <2>2. fd \in Fds /\ new \in [Fds -> Names] /\ \A x \in Fds \ {fd} : new[x] = link[x]
    BY DEF TypeOK, Names
  <2>3. Outdating(t, new, NoFd, {Slot(fd)})
    BY <2>1, <2>2
  <2>9. link' = new
    BY <2>1 DEF Wrapped, Change
  <2>10. owned' \subseteq Fds /\ \A x \in owned' : link'[x] # NoLink
    BY <2>1, <2>2, <2>9 DEF TypeOK
  <2> HIDE DEF new, Outdating
  <2> QED
    BY <1>0, <2>1, <2>2, <2>3, <2>10
<1>3. CASE Dup(t)
  <2>1. PICK old \in owned, fd \in Fds :
          /\ Wrapped(t, [link EXCEPT ![fd] = link[old]], fd, {Slot(fd)})
          /\ UNCHANGED owned
    BY <1>3 DEF Dup, DupOutdates
  <2> DEFINE new == [link EXCEPT ![fd] = link[old]]
  <2>2. new \in [Fds -> Names] /\ \A x \in Fds \ {fd} : new[x] = link[x]
    BY DEF TypeOK, Names
  <2>3. Outdating(t, new, fd, {Slot(fd)})
    BY <2>1, <2>2
  <2>9. link' = new
    BY <2>1 DEF Wrapped, Change
  <2>10. owned' \subseteq Fds /\ \A x \in owned' : link'[x] # NoLink
    BY <2>1, <2>2, <2>9 DEF TypeOK
  <2> HIDE DEF new, Outdating
  <2> QED
    BY <1>0, <2>1, <2>2, <2>3, <2>10
<1>4. CASE CloseRange(t)
  <2>1. PICK lowest \in Fds :
          LET range == {fd \in Fds : fd >= lowest}
          IN  /\ Wrapped(t, [fd \in Fds |-> IF fd \in range THEN NoLink ELSE link[fd]], NoFd,
                         RangeOutdates(range))
              /\ owned' = owned \ range
    BY <1>4 DEF CloseRange
  <2> DEFINE range == {fd \in Fds : fd >= lowest}
             new == [fd \in Fds |-> IF fd \in range THEN NoLink ELSE link[fd]]
  <2>2. range \subseteq Fds
    OBVIOUS
  <2> HIDE DEF range
  <2>3. new \in [Fds -> Names] /\ \A x \in Fds \ range : new[x] = link[x]
    BY DEF TypeOK, Names
  <2>4. RangeOutdates(range) \subseteq Slots /\ \A x \in range : Slot(x) \in RangeOutdates(range)
    BY <1>0, <2>2 DEF RangeOutdates
  <2>5. Wrapped(t, new, NoFd, RangeOutdates(range)) /\ owned' = owned \ range
    BY <2>1 DEF range
  <2>6. Outdating(t, new, NoFd, RangeOutdates(range))
    BY <2>3, <2>4, <2>5
  <2>9. link' = new
    BY <2>5 DEF Wrapped, Change
  <2>10. owned' \subseteq Fds /\ \A x \in owned' : link'[x] # NoLink
    BY <2>3, <2>5, <2>9 DEF TypeOK
  <2> HIDE DEF new, Outdating
  <2> QED
    BY <2>3, <2>4, <2>5, <2>6, <2>10
<1>5. CASE Relink(t)
  <2>1. PICK old \in Links, l \in Links :
          /\ Wrapped(t, [fd \in Fds |-> IF link[fd] = old THEN l ELSE link[fd]], NoFd, Slots)
          /\ UNCHANGED owned
    BY <1>5 DEF Relink
  <2> DEFINE new == [fd \in Fds |-> IF link[fd] = old THEN l ELSE link[fd]]
  <2>2. new \in [Fds -> Names]
    BY DEF TypeOK, Names
  <2>3. Outdating(t, new, NoFd, Slots)
    BY <1>0, <2>1
  <2>9. link' = new
    BY <2>1 DEF Wrapped, Change
  <2>10. owned' \subseteq Fds /\ \A x \in owned' : link'[x] # NoLink
    BY <1>0, <2>1, <2>2, <2>9 DEF TypeOK
  <2> HIDE DEF new, Outdating
  <2> QED
    BY <2>2, <2>3, <2>10
<1> QED
  BY <1>1, <1>2, <1>3, <1>4, <1>5 DEF WrappedCall

\* What a change of names leaves: who resolves may answer the new name as well.
LEMMA ChangeTyped ==
  ASSUME TypeOK, NEW new \in [Fds -> Names], Change(new)
  PROVE  /\ link' = new
         /\ allowed' \in [Threads -> SUBSET Names]
         /\ \A u \in Threads : allowed[u] \subseteq allowed'[u]
         /\ \A u \in Threads : at[u] \in Fds /\ pc[u] # "invalidate" => new[at[u]] \in allowed'[u]
<1>1. ASSUME NEW u \in Threads, at[u] # NoFd PROVE new[at[u]] \in Names
  BY <1>1 DEF TypeOK
<1>2. NoFd \notin Fds
  BY SlotsAreNat
<1> QED
  BY <1>1, <1>2 DEF Change, TypeOK

LEMMA BaseChange ==
  ASSUME BaseInv, NEW t \in Threads, WrappedCall(t)
  PROVE  BaseInv'
<1> USE DEF BaseInv
<1>1. owned' \subseteq Fds /\ OwnedAreOpen'
  BY CallsOutdate
<1>2. PICK new \in [Fds -> Names], fd \in Fds \cup {NoFd}, outdated \in SUBSET Slots :
        Outdating(t, new, fd, outdated)
  BY CallsOutdate
<1>3. Wrapped(t, new, fd, outdated) /\ (fd # NoFd => outdated = {Slot(fd)})
  BY <1>2 DEF Outdating
<1>4. link' = new /\ allowed' \in [Threads -> SUBSET Names]
  BY <1>3, ChangeTyped DEF Wrapped
<1>5. Ended(new) \subseteq Fds \X Links
  BY DEF Ended, TypeOK, Names
<1>6. TypeOK'
  BY <1>1, <1>3, <1>4, <1>5 DEF TypeOK, Wrapped, Goto, cache, Labels
<1>7. ASSUME NEW u \in Threads PROVE ShapeOf(u)'
  <2>1. CASE u = t
    BY <1>3, <2>1 DEF TypeOK, ShapeOf, Wrapped, Goto, Resolving, Reading, Found, Claiming
  <2>2. CASE u # t
    <3>1. pc'[u] = pc[u] /\ at'[u] = at[u] /\ todo'[u] = todo[u]
      BY <1>3, <2>2 DEF TypeOK, Wrapped, Goto
    <3> QED
      BY <3>1 DEF ShapeInv, ShapeOf
  <2> QED
    BY <2>1, <2>2
<1> QED
  BY <1>1, <1>6, <1>7 DEF ShapeInv

LEMMA BaseRaw ==
  ASSUME BaseInv, RawOpen \/ RawClose
  PROVE  BaseInv'
<1> USE DEF BaseInv, OwnedAreOpen
<1>0. NoLink \notin Links
  BY ConstantsAssumption DEF NoLink
<1>1. PICK new \in [Fds -> Names] : /\ Change(new) /\ owned' \subseteq Fds /\ lost' \subseteq Fds \X Links
                                  /\ \A x \in owned' : new[x] # NoLink
  <2>1. CASE RawOpen
    <3>1. PICK fd \in Fds, l \in Links : Change([link EXCEPT ![fd] = l]) /\ owned' = owned \cup {fd}
      BY <2>1 DEF RawOpen
    <3> DEFINE new == [link EXCEPT ![fd] = l]
    <3>2. new \in [Fds -> Names] /\ \A x \in owned \cup {fd} : new[x] # NoLink
      BY <1>0 DEF TypeOK, Names
    <3>3. lost' \subseteq Fds \X Links
      BY <2>1 DEF TypeOK, RawOpen
    <3> HIDE DEF new
    <3>4. Change(new)
      BY <3>1 DEF new
    <3>5. owned' \subseteq Fds
      BY <3>1 DEF TypeOK
    <3> QED
      BY <3>1, <3>2, <3>3, <3>4, <3>5
  <2>2. CASE RawClose
    <3>1. PICK fd \in owned : /\ Change([link EXCEPT ![fd] = NoLink]) /\ owned' = owned \ {fd}
                              /\ lost' = lost \cup {<<fd, link[fd]>>}
      BY <2>2 DEF RawClose
    <3>2. [link EXCEPT ![fd] = NoLink] \in [Fds -> Names]
      BY DEF TypeOK, Names
    <3>3. <<fd, link[fd]>> \in Fds \X Links
      BY DEF TypeOK, Names
    <3> QED
      BY <2>2, <3>1, <3>2, <3>3 DEF TypeOK
  <2> QED
    BY <2>1, <2>2
<1>2. link' = new /\ allowed' \in [Threads -> SUBSET Names]
  BY <1>1, ChangeTyped
<1>3. TypeOK'
  BY <1>1, <1>2 DEF TypeOK, RawOpen, RawClose, cache, locals
<1>4. ShapeInv'
  BY DEF ShapeInv, ShapeOf, RawOpen, RawClose, locals
<1>5. OwnedAreOpen'
  BY <1>1, <1>2
<1> QED
  BY <1>3, <1>4, <1>5

\* An increment: the slot it is of, and what the call leaves to be done.
LEMMA Increment ==
  ASSUME BaseInv, NEW t \in Threads, Invalidate(t)
  PROVE  /\ link' = link /\ entry' = entry /\ mem' = mem /\ allowed' = allowed
         /\ \A s \in Slots : generation'[s] \in Nat /\ generation[s] <= generation'[s]
         /\ \A s \in todo[t] \ todo'[t] : generation[s] < generation'[s]
         /\ todo'[t] \subseteq todo[t]
         /\ \A u \in Threads \ {t} : todo'[u] = todo[u] /\ pc'[u] = pc[u] /\ at'[u] = at[u]
         /\ \/ /\ at'[t] = at[t] /\ pc'[t] = pc[t] /\ at[t] = NoFd
               /\ lost' = lost /\ leaving' = leaving
            \/ /\ at'[t] = NoFd /\ pc'[t] = "idle" /\ todo'[t] = {}
               /\ at[t] # NoFd => Slot(at[t]) \in todo[t]
               /\ \A u \in Threads \ {t} : \A e \in leaving[u] : e[1] # at[t] => e \in leaving'[u]
               /\ \A u \in Threads : leaving'[u] \subseteq leaving[u]
               /\ lost' \subseteq lost /\ \A e \in lost : e[1] # at[t] => e \in lost'
<1> USE DEF BaseInv
<1>1. pc[t] = "invalidate" /\ todo[t] \subseteq Slots /\ Slots \subseteq Nat
  BY SlotsAreNat DEF Invalidate, TypeOK
<1>2. at[t] # NoFd => todo[t] = {Slot(at[t])}
  BY <1>1 DEF ShapeInv, ShapeOf
<1>3. /\ link' = link /\ entry' = entry /\ mem' = mem /\ allowed' = allowed
  BY DEF Invalidate
<1> DEFINE s == Min(todo[t])
<1>4. todo[t] # {} => s \in todo[t]
  BY <1>1, LowestSlot
<1>5. ~ Cardinality(todo[t]) > 1 => todo[t] \subseteq {s}
  BY <1>1, LastSlot
<1> HIDE DEF s
<1>6. todo' = [todo EXCEPT ![t] = todo[t] \ {s}]
  BY DEF Invalidate, TypeOK, s
<1>7. \/ todo[t] = {} /\ generation' = generation
      \/ generation' = [generation EXCEPT ![s] = generation[s] + 1]
  BY DEF Invalidate, Bumped, s
<1>8. \A r \in Slots : generation[r] \in Nat
  BY DEF TypeOK
<1>9. /\ \A r \in Slots : generation'[r] \in Nat /\ generation[r] <= generation'[r]
      /\ \A r \in todo[t] \ todo'[t] : generation[r] < generation'[r]
  BY <1>1, <1>4, <1>6, <1>7, <1>8 DEF TypeOK
<1>10. todo'[t] = todo[t] \ {s} /\ \A u \in Threads \ {t} : todo'[u] = todo[u]
  BY <1>6 DEF TypeOK
<1>11. CASE Cardinality(todo[t]) > 1
  <2>1. UNCHANGED <<owned, pc, at, leaving, lost>>
    BY <1>11 DEF Invalidate
  <2>2. at[t] = NoFd
    <3>1. SUFFICES ASSUME at[t] # NoFd PROVE FALSE
      OBVIOUS
    <3>2. Cardinality(todo[t]) = 1
      BY <1>2, <3>1, FS_Singleton
    <3> QED
      BY <1>11, <3>2
  <2> QED
    BY <1>3, <1>9, <1>10, <2>1, <2>2
<1>12. CASE ~ Cardinality(todo[t]) > 1
  <2>1. /\ at' = [at EXCEPT ![t] = NoFd] /\ Goto(t, "idle")
        /\ leaving' = [u \in Threads |-> IF u = t THEN {} ELSE {e \in leaving[u] : e[1] # at[t]}]
        /\ lost' = {e \in lost : e[1] # at[t]}
    BY <1>12 DEF Invalidate
  <2>2. at'[t] = NoFd /\ pc'[t] = "idle" /\ \A u \in Threads \ {t} : pc'[u] = pc[u] /\ at'[u] = at[u]
    BY <2>1 DEF TypeOK, Goto
  <2>3. todo'[t] = {}
    BY <1>5, <1>10, <1>12
  <2>4. \A u \in Threads \ {t} : \A e \in leaving[u] : e[1] # at[t] => e \in leaving'[u]
    BY <2>1
  <2>5. \A u \in Threads : leaving'[u] \subseteq leaving[u]
    BY <2>1
  <2>6. lost' \subseteq lost /\ \A e \in lost : e[1] # at[t] => e \in lost'
    BY <2>1
  <2> QED
    BY <1>2, <1>3, <1>9, <1>10, <2>2, <2>3, <2>4, <2>5, <2>6
<1> QED
  BY <1>11, <1>12

LEMMA BaseInvalidate ==
  ASSUME BaseInv, NEW t \in Threads, Invalidate(t)
  PROVE  BaseInv'
<1> USE DEF BaseInv
<1>1. /\ todo'[t] \subseteq todo[t] /\ \A u \in Threads \ {t} : todo'[u] = todo[u] /\ pc'[u] = pc[u] /\ at'[u] = at[u]
      /\ \A s \in Slots : generation'[s] \in Nat
      /\ \/ at'[t] = at[t] /\ pc'[t] = pc[t] /\ at[t] = NoFd
         \/ at'[t] = NoFd /\ pc'[t] = "idle" /\ todo'[t] = {}
      /\ lost' \subseteq lost /\ \A u \in Threads : leaving'[u] \subseteq leaving[u]
  BY Increment
<1>2. generation' \in [Slots -> Nat]
  BY <1>1 DEF TypeOK, Invalidate, Bumped
<1>3. /\ owned' \subseteq Fds /\ pc' \in [Threads -> Labels] /\ at' \in [Threads -> Fds \cup {NoFd}]
      /\ OwnedAreOpen'
  <2>1. link' = link /\ owned' \subseteq owned \cup {fd \in Fds : link[fd] # NoLink}
    BY DEF Invalidate
  <2>2. owned' \subseteq Fds /\ OwnedAreOpen'
    BY <2>1 DEF TypeOK, OwnedAreOpen
  <2>3. pc' \in [Threads -> Labels] /\ at' \in [Threads -> Fds \cup {NoFd}]
    BY DEF TypeOK, Invalidate, Goto, Labels
  <2> QED
    BY <2>2, <2>3
<1>4. todo' \in [Threads -> SUBSET Slots]
  BY DEF TypeOK, Invalidate
<1>5. leaving' \in [Threads -> SUBSET (Fds \X Links)]
  BY DEF TypeOK, Invalidate
<1>6. TypeOK'
  BY <1>1, <1>2, <1>3, <1>4, <1>5 DEF TypeOK, Invalidate
<1>7. pc[t] = "invalidate"
  BY DEF Invalidate
<1>8. ASSUME NEW u \in Threads PROVE ShapeOf(u)'
  <2>1. CASE u = t
    BY <1>1, <1>7, <2>1 DEF ShapeOf, Resolving, Reading, Found, Claiming
  <2>2. CASE u # t
    BY <1>1, <2>2 DEF ShapeInv, ShapeOf
  <2> QED
    BY <2>1, <2>2
<1> QED
  BY <1>3, <1>6, <1>8 DEF ShapeInv

LEMMA BaseFork ==
  ASSUME BaseInv, NEW t \in Threads, Fork(t)
  PROVE  BaseInv'
<1> USE DEF BaseInv
<1>1. NoMem \in Copies
  BY DEF NoMem, Copies, Names
<1>2. TypeOK'
  <2>1. lost' \subseteq Fds \X Links
    BY DEF TypeOK, Fork
  <2>2. pc' \in [Threads -> Labels] /\ at' \in [Threads -> Fds \cup {NoFd}]
    BY DEF Fork, Labels
  <2>3. mem' \in [Threads -> Copies] /\ todo' \in [Threads -> SUBSET Slots]
    BY <1>1 DEF Fork
  <2>4. leaving' \in [Threads -> SUBSET (Fds \X Links)] /\ allowed' \in [Threads -> SUBSET Names]
    BY DEF Fork
  <2> QED
    BY <2>1, <2>2, <2>3, <2>4 DEF TypeOK, Fork, kernel, cache
<1>3. ShapeInv'
  BY DEF Fork, ShapeInv, ShapeOf, Resolving, Reading, Found, Claiming
<1>4. OwnedAreOpen'
  BY DEF Fork, OwnedAreOpen, kernel
<1> QED
  BY <1>2, <1>3, <1>4

\* Which kinds of step there are.
LEMMA StepKinds ==
  ASSUME Next
  PROVE  \/ \E t \in Threads : Resolve(t) \/ WrappedCall(t) \/ Invalidate(t) \/ Fork(t)
         \/ RawOpen \/ RawClose
BY DEF Next, WrappedCall

LEMMA BaseStutter == ASSUME BaseInv, UNCHANGED vars PROVE BaseInv'
BY DEF BaseInv, TypeOK, ShapeInv, ShapeOf, OwnedAreOpen, vars, kernel, cache, locals, history

\* Descriptors, slots and locals are well formed, and no descriptor of the
\* application's is one the kernel has closed.
LEMMA BaseHolds == Spec => []BaseInv
<1>1. BaseInv /\ [Next]_vars => BaseInv'
  BY StepKinds, BaseResolve, BaseChange, BaseRaw, BaseInvalidate, BaseFork, BaseStutter
<1> QED
  BY <1>1, BaseInit, PTL DEF Spec

\* The type invariant, for every set of threads, descriptors and names, every
\* number of slots and every bound.
THEOREM TypeCorrect == Spec => []TypeOK
<1>1. BaseInv => TypeOK
  BY DEF BaseInv
<1> QED
  BY <1>1, BaseHolds, PTL

-----------------------------------------------------------------------------
(* The accesses of a resolution, against everything else.                  *)
Same(u) == pc'[u] = pc[u] /\ at'[u] = at[u] /\ mem'[u] = mem[u]

\* A thread that does not move keeps its claim while its slot is left alone.
LEMMA KeptClaim ==
  ASSUME NEW u \in Threads, Same(u), ClaimOf(u),
         pc[u] \in Claiming => entry'[Slot(at[u])] = entry[Slot(at[u])]
  PROVE  ClaimOf(u)'
<1>1. pc'[u] = pc[u] /\ Slot(at'[u]) = Slot(at[u]) /\ at'[u] = at[u] /\ mem'[u] = mem[u]
  BY DEF Same
<1>2. CASE pc[u] \in Claiming
  <2>1. entry'[Slot(at'[u])] = entry[Slot(at[u])]
    BY <1>1, <1>2
  <2> DEFINE e == entry[Slot(at[u])]
  <2>2. /\ Even(mem[u].seq) /\ e.seq = mem[u].seq + 1
        /\ pc[u] \in Claiming \ {"put fd"} => e.fd = at[u]
        /\ pc[u] \in {"put head", "put tail", "publish"} => e.gen = mem[u].gen
        /\ pc[u] \in {"put tail", "publish"} => e.head = mem[u].head
        /\ pc[u] = "publish" => e.tail = mem[u].tail
    BY <1>2 DEF ClaimOf, Entry
  <2> HIDE DEF e
  <2> QED
    BY <1>1, <2>1, <2>2 DEF ClaimOf, Entry, e
<1>3. CASE pc[u] \notin Claiming
  BY <1>1, <1>3 DEF ClaimOf, Claiming
<1> QED
  BY <1>2, <1>3

\* A step that is none of them writes no slot and moves no thread into one.
Away ==
  /\ entry' = entry
  /\ \A s \in Slots : generation'[s] \in Nat /\ generation[s] <= generation'[s]
  /\ \A u \in Threads : Same(u) \/ pc'[u] \in {"idle", "invalidate"}

LEMMA AwaySteps ==
  ASSUME BaseInv, [Next]_vars
  PROVE  Away \/ \E t \in Threads : Resolve(t)
<1> USE DEF BaseInv, Away, Same
<1>0. \A s \in Slots : generation[s] \in Nat
  BY DEF TypeOK
<1>1. ASSUME NEW t \in Threads, WrappedCall(t) PROVE Away
  <2>1. PICK new, fd, outdated : Wrapped(t, new, fd, outdated)
    BY <1>1, CallsOutdate DEF Outdating
  <2> QED
    BY <1>0, <2>1 DEF TypeOK, Wrapped, Goto, cache
<1>2. ASSUME NEW t \in Threads, Invalidate(t) PROVE Away
  BY <1>2, Increment DEF Invalidate
<1>3. ASSUME NEW t \in Threads, Fork(t) PROVE Away
  BY <1>0, <1>3 DEF Fork, cache
<1>4. ASSUME RawOpen \/ RawClose PROVE Away
  BY <1>0, <1>4 DEF RawOpen, RawClose, cache, locals
<1>5. ASSUME UNCHANGED vars PROVE Away
  BY <1>0, <1>5 DEF vars, cache, locals
<1> QED
  BY <1>1, <1>2, <1>3, <1>4, <1>5, StepKinds

\* An access moves its own thread alone and bumps no generation; all but the
\* claim and the fill leave every slot as it is.
LEMMA Accesses ==
  ASSUME BaseInv, NEW t \in Threads, Resolve(t)
  PROVE  /\ \A u \in Threads \ {t} : Same(u)
         /\ generation' = generation /\ UNCHANGED <<kernel, todo, leaving, lost>>
         /\ \/ pc[t] = "idle"
            \/ pc[t] \in Resolving /\ at[t] \in Fds /\ at'[t] = at[t]
            \/ pc'[t] = "idle"
         /\ entry' = entry \/ ClaimSlot(t) \/ FillSlot(t)
<1> USE DEF BaseInv, Same
<1>1. pc[t] \in Resolving => at[t] \in Fds
  BY DEF ShapeInv, ShapeOf
<1>2. CASE \E fd \in Fds : StartResolve(t, fd)
  BY <1>2 DEF TypeOK, StartResolve, Goto, cache
<1>3. CASE Lookup(t)
  <2>1. \A u \in Threads \ {t} : mem'[u] = mem[u]
    BY <1>3, KeepFields DEF TypeOK, Lookup
  <2>2. pc[t] \in Resolving /\ \A u \in Threads \ {t} : pc'[u] = pc[u]
    BY <1>3 DEF TypeOK, Lookup, Goto, Resolving, Reading
  <2> QED
    BY <1>1, <1>3, <2>1, <2>2 DEF Lookup, cache, history
<1>4. CASE ValidateSequence(t) \/ ValidateGeneration(t)
  BY <1>1, <1>4 DEF TypeOK, ValidateSequence, ValidateGeneration, Goto, cache, history, Resolving, Reading
<1>5. CASE SampleGeneration(t) \/ LoadSequence(t)
  <2>1. \A u \in Threads \ {t} : mem'[u] = mem[u]
    BY <1>5, KeepFields DEF TypeOK, SampleGeneration, LoadSequence
  <2>2. pc[t] \in Resolving /\ \A u \in Threads \ {t} : pc'[u] = pc[u]
    BY <1>5 DEF TypeOK, SampleGeneration, LoadSequence, Goto, Resolving, Found
  <2> QED
    BY <1>1, <1>5, <2>1, <2>2 DEF SampleGeneration, LoadSequence, cache, history
<1>6. CASE ReadLink(t)
  <2>1. \A u \in Threads \ {t} : mem'[u] = mem[u]
    BY <1>6 DEF TypeOK, ReadLink
  <2>2. pc[t] \in Resolving /\ \A u \in Threads \ {t} : pc'[u] = pc[u]
    BY <1>6 DEF TypeOK, ReadLink, Goto, Resolving
  <2> QED
    BY <1>1, <1>6, <2>1, <2>2 DEF ReadLink, cache, history
<1>7. CASE MapTable(t)
  BY <1>1, <1>7 DEF TypeOK, MapTable, Goto, history, Resolving, Found
<1>8. CASE ClaimSlot(t) \/ FillSlot(t)
  BY <1>1, <1>8 DEF TypeOK, ClaimSlot, FillSlot, Goto, history, Resolving, Found, Claiming
<1>9. CASE Return(t)
  BY <1>9 DEF TypeOK, Return, Goto, cache
<1> QED
  BY <1>2, <1>3, <1>4, <1>5, <1>6, <1>7, <1>8, <1>9 DEF Resolve

-----------------------------------------------------------------------------
(* One claimer a slot.                                                     *)

LEMMA ClaimInit == Init => ClaimInv
BY DEF Init, ClaimInv, OneClaimer, ClaimOf, Claiming

\* A step that writes no slot keeps whatever does not move into a claim.
LEMMA ClaimAway ==
  ASSUME ClaimInv, entry' = entry,
         \A u \in Threads : Same(u) \/ pc'[u] \notin {"claim"} \cup Claiming
  PROVE  ClaimInv'
<1>1. OneClaimer'
  BY DEF ClaimInv, OneClaimer, Same
<1>2. ASSUME NEW u \in Threads PROVE ClaimOf(u)'
  BY DEF ClaimInv, ClaimOf, Same, Entry, Claiming
<1> QED
  BY <1>1, <1>2 DEF ClaimInv

LEMMA ClaimAccess ==
  ASSUME BaseInv, ClaimInv, NEW t \in Threads, Resolve(t)
  PROVE  ClaimInv'
<1> USE DEF BaseInv
<1>1. /\ \A u \in Threads \ {t} : Same(u)
      /\ entry' = entry \/ ClaimSlot(t) \/ FillSlot(t)
  BY Accesses
<1>2. CASE LoadSequence(t)
  <2>1. /\ mem'[t].seq = Entry(t).seq /\ entry' = entry /\ pc[t] = "load" /\ at'[t] = at[t]
        /\ pc'[t] = IF Entry(t).seq % 2 = 1 THEN "answer" ELSE "claim"
    <3>1. /\ Keep(t, "seq", Entry(t).seq)
          /\ Goto(t, IF Entry(t).seq % 2 = 1 THEN "answer" ELSE "claim")
          /\ UNCHANGED <<entry, at>> /\ pc[t] = "load"
      BY <1>2 DEF LoadSequence, cache
    <3>2. mem'[t].seq = Entry(t).seq
      BY <3>1, KeepWord DEF TypeOK
    <3> QED
      BY <3>1, <3>2, GotoOne DEF TypeOK
  <2>2. Entry(t).seq \in Nat
    BY Words
  <2>3. pc'[t] \notin Claiming /\ (pc'[t] = "claim" => Even(mem'[t].seq))
    BY <2>1, <2>2 DEF Even, Claiming
  <2>4. OneClaimer'
    BY <1>1, <2>3 DEF ClaimInv, OneClaimer, Same
  <2>5. ASSUME NEW u \in Threads PROVE ClaimOf(u)'
    <3>1. CASE u = t
      BY <2>3, <3>1 DEF ClaimOf, Claiming
    <3>2. CASE u # t
      BY <1>1, <2>1, <3>2 DEF ClaimInv, ClaimOf, Same, Entry
    <3> QED
      BY <3>1, <3>2
  <2> QED
    BY <2>4, <2>5 DEF ClaimInv
<1>3. CASE ClaimSlot(t) /\ Claimable(t)
  <2>1. pc[t] = "claim" /\ pc'[t] = "put fd" /\ at'[t] = at[t] /\ mem' = mem /\ SetEntry(t, "seq", mem[t].seq + 1)
    BY <1>3 DEF TypeOK, ClaimSlot, Goto
  <2>2. Even(mem[t].seq) /\ Entry(t).seq = mem[t].seq /\ mem[t].seq \in Nat
    BY <1>3, <2>1, Words DEF ClaimInv, ClaimOf, Claimable
  <2>3. at[t] \in Fds /\ entry \in [Slots -> Entries]
    BY <2>1 DEF ShapeInv, ShapeOf, Resolving, Found, TypeOK
  <2>4. /\ entry'[Slot(at[t])].seq = mem[t].seq + 1
        /\ \A s \in Slots \ {Slot(at[t])} : entry'[s] = entry[s]
    BY <2>1, <2>3, SetEntryFields
  <2>5. ASSUME NEW u \in Threads \ {t}, pc[u] \in Claiming PROVE Slot(at[u]) # Slot(at[t])
    <3>1. Entry(u).seq = mem[u].seq + 1 /\ Even(mem[u].seq) /\ mem[u].seq \in Nat
      BY <2>5, Words DEF ClaimInv, ClaimOf
    <3>2. ~ Even(Entry(u).seq)
      BY <3>1 DEF Even
    <3> QED
      BY <2>2, <3>2 DEF Entry
  <2>6. OneClaimer'
    BY <1>1, <2>1, <2>5 DEF ClaimInv, OneClaimer, Same
  <2>7. ASSUME NEW u \in Threads PROVE ClaimOf(u)'
    <3>1. CASE u = t
      BY <2>1, <2>2, <2>4, <3>1 DEF ClaimOf, Claiming, Entry
    <3>2. CASE u # t
      <4>1. Slot(at[u]) \in Slots
        BY Words
      <4>2. pc[u] \in Claiming => entry'[Slot(at[u])] = entry[Slot(at[u])]
        BY <2>4, <2>5, <3>2, <4>1
      <4>3. Same(u) /\ ClaimOf(u)
        BY <1>1, <3>2 DEF ClaimInv
      <4> QED
        BY <4>2, <4>3, KeptClaim
    <3> QED
      BY <3>1, <3>2
  <2> QED
    BY <2>6, <2>7 DEF ClaimInv
<1>4. CASE FillSlot(t)
  <2>1. pc[t] \in Claiming /\ at'[t] = at[t] /\ mem' = mem
    BY <1>4 DEF TypeOK, FillSlot, Claiming
  <2>2. Even(mem[t].seq) /\ Entry(t).seq = mem[t].seq + 1 /\ mem[t].seq \in Nat
    BY <2>1, Words DEF ClaimInv, ClaimOf
  <2>3. at[t] \in Fds /\ entry \in [Slots -> Entries]
    BY <2>1 DEF ShapeInv, ShapeOf, Resolving, Found, TypeOK
  <2>4. \A s \in Slots \ {Slot(at[t])} : entry'[s] = entry[s]
    BY <1>4, <2>3, SetEntryFields DEF FillSlot
  <2>5. ClaimOf(t)'
    <3>1. CASE pc[t] = "put fd"
      <4>1. pc'[t] = "put tag" /\ SetEntry(t, "fd", at[t])
        BY <1>4, <3>1 DEF TypeOK, FillSlot, Goto
      <4>2. entry'[Slot(at[t])].seq = Entry(t).seq /\ entry'[Slot(at[t])].fd = at[t]
        BY <2>3, <4>1, SetEntryFields
      <4> QED
        BY <2>1, <2>2, <4>1, <4>2 DEF ClaimOf, Claiming, Entry
    <3>2. CASE pc[t] = "put tag"
      <4>1. pc'[t] = "put head" /\ SetEntry(t, "gen", mem[t].gen)
        BY <1>4, <3>2 DEF TypeOK, FillSlot, Goto, Tag
      <4>2. /\ entry'[Slot(at[t])].seq = Entry(t).seq /\ entry'[Slot(at[t])].fd = Entry(t).fd
            /\ entry'[Slot(at[t])].gen = mem[t].gen
        BY <2>3, <4>1, SetEntryFields
      <4> QED
        BY <2>1, <2>2, <3>2, <4>1, <4>2 DEF ClaimInv, ClaimOf, Claiming, Entry
    <3>3. CASE pc[t] = "put head"
      <4>1. pc'[t] = "put tail" /\ SetEntry(t, "head", mem[t].head)
        BY <1>4, <3>3 DEF TypeOK, FillSlot, Goto
      <4>2. /\ entry'[Slot(at[t])].seq = Entry(t).seq /\ entry'[Slot(at[t])].fd = Entry(t).fd
            /\ entry'[Slot(at[t])].gen = Entry(t).gen /\ entry'[Slot(at[t])].head = mem[t].head
        BY <2>3, <4>1, SetEntryFields
      <4> QED
        BY <2>1, <2>2, <3>3, <4>1, <4>2 DEF ClaimInv, ClaimOf, Claiming, Entry
    <3>4. CASE pc[t] = "put tail"
      <4>1. pc'[t] = "publish" /\ SetEntry(t, "tail", mem[t].tail)
        BY <1>4, <3>4 DEF TypeOK, FillSlot, Goto
      <4>2. /\ entry'[Slot(at[t])].seq = Entry(t).seq /\ entry'[Slot(at[t])].fd = Entry(t).fd
            /\ entry'[Slot(at[t])].gen = Entry(t).gen /\ entry'[Slot(at[t])].head = Entry(t).head
            /\ entry'[Slot(at[t])].tail = mem[t].tail
        BY <2>3, <4>1, SetEntryFields
      <4> QED
        BY <2>1, <2>2, <3>4, <4>1, <4>2 DEF ClaimInv, ClaimOf, Claiming, Entry
    <3>5. CASE pc[t] = "publish"
      <4>1. pc'[t] = "answer"
        BY <1>4, <3>5 DEF TypeOK, FillSlot, Goto
      <4> QED
        BY <4>1 DEF ClaimOf, Claiming
    <3> QED
      BY <2>1, <3>1, <3>2, <3>3, <3>4, <3>5 DEF Claiming
  <2>6. OneClaimer'
    BY <1>1, <2>1 DEF ClaimInv, OneClaimer, Same
  <2>7. ASSUME NEW u \in Threads \ {t} PROVE ClaimOf(u)'
    <3>1. Slot(at[u]) \in Slots
      BY Words
    <3>2. pc[u] \in Claiming => entry'[Slot(at[u])] = entry[Slot(at[u])]
      BY <2>1, <2>4, <3>1 DEF ClaimInv, OneClaimer
    <3>3. Same(u) /\ ClaimOf(u)
      BY <1>1 DEF ClaimInv
    <3> QED
      BY <3>2, <3>3, KeptClaim
  <2> QED
    BY <2>5, <2>6, <2>7 DEF ClaimInv
<1>5. CASE ~ LoadSequence(t) /\ ~ (ClaimSlot(t) /\ Claimable(t)) /\ ~ FillSlot(t)
  <2>1. entry' = entry /\ pc'[t] \notin {"claim"} \cup Claiming
    BY <1>1, <1>5 DEF TypeOK, Resolve, StartResolve, Lookup, ValidateSequence, ValidateGeneration,
       SampleGeneration, ReadLink, MapTable, ClaimSlot, Return, Goto, Claiming, cache
  <2> QED
    BY <1>1, <2>1, ClaimAway
<1> QED
  BY <1>2, <1>3, <1>4, <1>5

LEMMA ClaimHolds == Spec => []ClaimInv
<1>1. BaseInv /\ ClaimInv /\ [Next]_vars => ClaimInv'
  <2> SUFFICES ASSUME BaseInv, ClaimInv, [Next]_vars PROVE ClaimInv'
    OBVIOUS
  <2>1. CASE Away
    BY <2>1, ClaimAway DEF Away, Claiming
  <2>2. CASE \E t \in Threads : Resolve(t)
    BY <2>2, ClaimAccess
  <2> QED
    BY <2>1, <2>2, AwaySteps
<1> QED
  BY <1>1, ClaimInit, BaseHolds, PTL DEF Spec

-----------------------------------------------------------------------------
(* What a reader finds while the sequence stands.                          *)

\* A sequence only grows, and the words of a slot change under an odd one or
\* with it.
LEMMA SequenceGuards ==
  ASSUME BaseInv, ClaimInv, NEW t \in Threads, Resolve(t), NEW s \in Slots
  PROVE  /\ entry[s].seq \in Nat /\ entry'[s].seq \in Nat /\ entry[s].seq <= entry'[s].seq
         /\ entry'[s].seq = entry[s].seq /\ Even(entry[s].seq) => entry'[s] = entry[s]
<1> USE DEF BaseInv
<1>1. entry' = entry \/ ClaimSlot(t) \/ FillSlot(t)
  BY Accesses
<1>2. entry[s].seq \in Nat
  BY DEF TypeOK, Entries
<1>3. CASE entry' = entry
  BY <1>2, <1>3
<1>4. CASE ClaimSlot(t) /\ entry' # entry
  <2>1. pc[t] = "claim" /\ SetEntry(t, "seq", mem[t].seq + 1) /\ Claimable(t)
    BY <1>4 DEF ClaimSlot
  <2>2. Entry(t).seq = mem[t].seq /\ mem[t].seq \in Nat
    BY <2>1, Words DEF Claimable
  <2>3. at[t] \in Fds /\ entry \in [Slots -> Entries]
    BY <2>1 DEF ShapeInv, ShapeOf, Resolving, Found, TypeOK
  <2>4. /\ entry'[Slot(at[t])].seq = mem[t].seq + 1
        /\ \A r \in Slots \ {Slot(at[t])} : entry'[r] = entry[r]
    BY <2>1, <2>3, SetEntryFields
  <2> QED
    BY <1>2, <2>2, <2>4 DEF Entry
<1>5. CASE FillSlot(t)
  <2>1. pc[t] \in Claiming
    BY <1>5 DEF FillSlot, Claiming
  <2>2. Even(mem[t].seq) /\ Entry(t).seq = mem[t].seq + 1 /\ mem[t].seq \in Nat
    BY <2>1, Words DEF ClaimInv, ClaimOf
  <2>3. ~ Even(Entry(t).seq)
    BY <2>2 DEF Even
  <2>4. at[t] \in Fds /\ entry \in [Slots -> Entries]
    BY <2>1 DEF ShapeInv, ShapeOf, Resolving, Found, TypeOK
  <2>5. /\ entry'[Slot(at[t])].seq = Entry(t).seq \/ entry'[Slot(at[t])].seq = mem[t].seq + 2
        /\ \A r \in Slots \ {Slot(at[t])} : entry'[r] = entry[r]
    BY <1>5, <2>4, SetEntryFields DEF FillSlot
  <2> QED
    BY <1>2, <2>2, <2>3, <2>5 DEF Entry
<1> QED
  BY <1>1, <1>3, <1>4, <1>5

LEMMA ReadInit == Init => ReadInv
BY DEF Init, ReadInv, ReadOf, Reading

LEMMA ReadAway ==
  ASSUME ReadInv, entry' = entry,
         \A u \in Threads : Same(u) \/ pc'[u] \notin Reading
  PROVE  ReadInv'
<1>1. ASSUME NEW u \in Threads PROVE ReadOf(u)'
  BY DEF ReadInv, ReadOf, Same, Entry
<1> QED
  BY <1>1 DEF ReadInv

LEMMA ReadAccess ==
  ASSUME BaseInv, ClaimInv, ReadInv, NEW t \in Threads, Resolve(t)
  PROVE  ReadInv'
<1> USE DEF BaseInv
<1>1. \A u \in Threads \ {t} : Same(u)
  BY Accesses
<1>2. ASSUME NEW u \in Threads \ {t} PROVE ReadOf(u)'
  <2>1. Slot(at[u]) \in Slots /\ mem[u].seq \in Nat
    BY Words
  <2>2. /\ Entry(u).seq \in Nat /\ entry'[Slot(at[u])].seq \in Nat /\ Entry(u).seq <= entry'[Slot(at[u])].seq
        /\ entry'[Slot(at[u])].seq = Entry(u).seq /\ Even(Entry(u).seq) => entry'[Slot(at[u])] = Entry(u)
    BY <2>1, SequenceGuards DEF Entry
  <2>3. Same(u)
    BY <1>1
  <2>4. CASE pc[u] \notin Reading
    BY <2>3, <2>4 DEF ReadOf, Same
  <2>5. CASE pc[u] \in Reading
    <3>1. Even(mem[u].seq) /\ mem[u].seq <= Entry(u).seq /\ mem[u].seq <= entry'[Slot(at[u])].seq
      BY <2>1, <2>2, <2>5 DEF ReadInv, ReadOf
    <3>2. CASE mem[u].seq # entry'[Slot(at[u])].seq
      BY <2>3, <3>1, <3>2 DEF ReadOf, Same, Entry
    <3>3. CASE mem[u].seq = entry'[Slot(at[u])].seq
      <4>1. Entry(u).seq = mem[u].seq
        BY <2>1, <2>2, <3>1, <3>3
      <4>2. entry'[Slot(at[u])] = Entry(u)
        BY <2>2, <3>1, <3>3, <4>1
      <4> QED
        BY <2>3, <2>5, <4>2 DEF ReadInv, ReadOf, Same, Entry
    <3> QED
      BY <3>2, <3>3
  <2> QED
    BY <2>4, <2>5
<1>3. CASE Lookup(t)
  <2>0. ReadOf(t)
    BY DEF ReadInv
  <2>1. entry' = entry /\ at' = at /\ mem \in [Threads -> Copies]
    BY <1>3 DEF Lookup, cache, TypeOK
  <2>2. Entry(t).seq \in Nat /\ mem[t].seq \in Nat
    BY Words
  <2>3. ReadOf(t)'
    <3>1. CASE pc[t] = "sequence"
      <4>1. /\ mem'[t].seq = Entry(t).seq
            /\ pc'[t] = IF Entry(t).seq % 2 = 1 THEN "sample" ELSE "compare"
        <5>1. /\ Keep(t, "seq", Entry(t).seq)
              /\ Goto(t, IF Entry(t).seq % 2 = 1 THEN "sample" ELSE "compare")
          BY <1>3, <3>1, Zenon DEF Lookup
        <5>2. mem'[t].seq = Entry(t).seq
          BY <2>1, <5>1, KeepWord
        <5> QED
          BY <5>1, <5>2, GotoOne DEF TypeOK
      <4> QED
        BY <2>1, <2>2, <4>1 DEF ReadOf, Reading, Even, Entry
    <3>2. CASE pc[t] = "compare"
      <4>1. pc'[t] = (IF Entry(t).fd = at[t] THEN "tag" ELSE "sample") /\ mem' = mem
        BY <1>3, <3>2 DEF TypeOK, Lookup, Goto
      <4> QED
        BY <2>1, <2>2, <3>2, <4>1 DEF ReadInv, ReadOf, Reading, Entry
    <3>3. CASE pc[t] = "tag"
      <4>1. mem'[t].gen = Entry(t).gen /\ mem'[t].seq = mem[t].seq /\ pc'[t] = "head"
        <5>1. Keep(t, "gen", Entry(t).gen) /\ Goto(t, "head")
          BY <1>3, <3>3, Zenon DEF Lookup
        <5>2. /\ mem'[t].gen = Entry(t).gen /\ mem'[t].seq = mem[t].seq
          BY <2>1, <5>1, KeepFields
        <5> QED
          BY <5>1, <5>2, GotoOne DEF TypeOK
      <4> QED
        BY <2>1, <2>2, <3>3, <4>1 DEF ReadInv, ReadOf, Reading, Entry
    <3>4. CASE pc[t] = "head"
      <4>1. /\ mem'[t].head = Entry(t).head /\ mem'[t].seq = mem[t].seq /\ mem'[t].gen = mem[t].gen
            /\ pc'[t] = "tail"
        <5>1. Keep(t, "head", Entry(t).head) /\ Goto(t, "tail")
          BY <1>3, <3>4, Zenon DEF Lookup
        <5>2. /\ mem'[t].head = Entry(t).head /\ mem'[t].seq = mem[t].seq /\ mem'[t].gen = mem[t].gen
          BY <2>1, <5>1, KeepFields
        <5> QED
          BY <5>1, <5>2, GotoOne DEF TypeOK
      <4>2. /\ Even(mem[t].seq) /\ mem[t].seq <= Entry(t).seq
            /\ mem[t].seq = Entry(t).seq => Entry(t).fd = at[t] /\ Entry(t).gen = mem[t].gen
        BY <2>0, <3>4 DEF ReadOf, Reading
      <4>3. entry'[Slot(at'[t])] = Entry(t) /\ at'[t] = at[t]
        BY <2>1 DEF Entry
      <4>4. /\ Even(mem'[t].seq) /\ mem'[t].seq <= Entry(t).seq
            /\ mem'[t].seq = Entry(t).seq =>
                 /\ Entry(t).fd = at[t] /\ Entry(t).gen = mem'[t].gen /\ Entry(t).head = mem'[t].head
        BY <4>1, <4>2
      <4> HIDE DEF BaseInv
      <4> QED
        BY <4>1, <4>3, <4>4 DEF ReadOf, Entry
    <3>5. CASE pc[t] = "tail"
      <4>1. /\ mem'[t].tail = Entry(t).tail /\ mem'[t].seq = mem[t].seq /\ mem'[t].gen = mem[t].gen
            /\ mem'[t].head = mem[t].head /\ pc'[t] = "validate"
        <5>1. Keep(t, "tail", Entry(t).tail) /\ Goto(t, "validate")
          BY <1>3, <3>5, Zenon DEF Lookup
        <5>2. mem'[t].tail = Entry(t).tail /\ mem'[t].seq = mem[t].seq
          BY <2>1, <5>1, KeepFields
        <5>3. mem'[t].gen = mem[t].gen /\ mem'[t].head = mem[t].head
          BY <2>1, <5>1, KeepFields
        <5> QED
          BY <5>1, <5>2, <5>3, GotoOne DEF TypeOK
      <4>2. /\ Even(mem[t].seq) /\ mem[t].seq <= Entry(t).seq
            /\ mem[t].seq = Entry(t).seq => Entry(t).fd = at[t] /\ Entry(t).gen = mem[t].gen /\ Entry(t).head = mem[t].head
        BY <2>0, <3>5 DEF ReadOf, Reading
      <4>3. entry'[Slot(at'[t])] = Entry(t) /\ at'[t] = at[t]
        BY <2>1 DEF Entry
      <4>4. /\ Even(mem'[t].seq) /\ mem'[t].seq <= Entry(t).seq
            /\ mem'[t].seq = Entry(t).seq =>
                 /\ Entry(t).fd = at[t] /\ Entry(t).gen = mem'[t].gen /\ Entry(t).head = mem'[t].head /\ Entry(t).tail = mem'[t].tail
        BY <4>1, <4>2
      <4> HIDE DEF BaseInv
      <4> QED
        BY <4>1, <4>3, <4>4 DEF ReadOf, Entry
    <3> QED
      BY <1>3, <3>1, <3>2, <3>3, <3>4, <3>5 DEF Lookup
  <2> QED
    BY <1>2, <2>3 DEF ReadInv
<1>4. CASE ~ Lookup(t)
  <2>1. pc'[t] \notin Reading
    BY <1>4 DEF TypeOK, Resolve, StartResolve, ValidateSequence, ValidateGeneration, SampleGeneration,
       ReadLink, MapTable, LoadSequence, ClaimSlot, FillSlot, Return, Goto, Reading
  <2>2. ReadOf(t)'
    BY <2>1 DEF ReadOf
  <2> QED
    BY <1>2, <2>2 DEF ReadInv
<1> QED
  BY <1>3, <1>4

LEMMA ReadHolds == Spec => []ReadInv
<1>1. BaseInv /\ ClaimInv /\ ReadInv /\ [Next]_vars => ReadInv'
  <2> SUFFICES ASSUME BaseInv, ClaimInv, ReadInv, [Next]_vars PROVE ReadInv'
    OBVIOUS
  <2>1. CASE Away
    BY <2>1, ReadAway DEF Away, Reading
  <2>2. CASE \E t \in Threads : Resolve(t)
    BY <2>2, ReadAccess
  <2> QED
    BY <2>1, <2>2, AwaySteps
<1> QED
  BY <1>1, ReadInit, BaseHolds, ClaimHolds, PTL DEF Spec

-----------------------------------------------------------------------------
(* Tags are of the generation or an earlier one.                           *)

LEMMA TagsInit == Init => TagsInv
BY DEF Init, TagsInv, Tagged, Found, Claiming

LEMMA TagsAway ==
  ASSUME BaseInv, TagsInv, Away
  PROVE  TagsInv'
<1> USE DEF BaseInv
<1>1. /\ entry' = entry
      /\ \A s \in Slots : generation'[s] \in Nat /\ generation[s] <= generation'[s]
      /\ \A u \in Threads : Same(u) \/ pc'[u] \in {"idle", "invalidate"}
  BY DEF Away
<1>2. ASSUME NEW s \in Slots PROVE entry'[s].gen <= generation'[s]
  <2>1. entry[s].gen \in Nat /\ generation[s] \in Nat /\ entry[s].gen <= generation[s]
    BY DEF TypeOK, Entries, TagsInv
  <2> QED
    BY <1>1, <2>1
<1>3. ASSUME NEW u \in Threads, pc'[u] \in Tagged PROVE mem'[u].gen <= generation'[Slot(at'[u])]
  <2>1. Same(u)
    BY <1>1, <1>3 DEF Tagged, Found, Claiming
  <2>2. Slot(at[u]) \in Slots /\ mem[u].gen \in Nat /\ generation[Slot(at[u])] \in Nat
    BY Words
  <2>3. mem[u].gen <= generation[Slot(at[u])]
    BY <1>3, <2>1 DEF TagsInv, Same
  <2> QED
    BY <1>1, <2>1, <2>2, <2>3 DEF Same
<1> QED
  BY <1>2, <1>3 DEF TagsInv

LEMMA TagsAccess ==
  ASSUME BaseInv, TagsInv, NEW t \in Threads, Resolve(t)
  PROVE  TagsInv'
<1> USE DEF BaseInv
<1>1. /\ \A u \in Threads \ {t} : Same(u)
      /\ generation' = generation
      /\ entry' = entry \/ ClaimSlot(t) \/ FillSlot(t)
  BY Accesses
<1>2. /\ Slot(at[t]) \in Slots /\ generation[Slot(at[t])] \in Nat
      /\ Entry(t).gen <= generation[Slot(at[t])]
  BY Words DEF TagsInv, Entry
<1>3. ASSUME NEW s \in Slots PROVE entry'[s].gen <= generation[s]
  <2>1. CASE entry' = entry
    BY <2>1 DEF TagsInv
  <2>2. CASE ClaimSlot(t) /\ entry' # entry
    <3>1. SetEntry(t, "seq", mem[t].seq + 1) /\ at[t] \in Fds /\ entry \in [Slots -> Entries]
      BY <2>2 DEF ClaimSlot, ShapeInv, ShapeOf, Resolving, Found, TypeOK
    <3>2. /\ entry'[Slot(at[t])].gen = Entry(t).gen
          /\ \A r \in Slots \ {Slot(at[t])} : entry'[r] = entry[r]
      BY <3>1, SetEntryFields
    <3> QED
      BY <3>2 DEF TagsInv, Entry
  <2>3. CASE FillSlot(t)
    <3>1. pc[t] \in Claiming /\ at[t] \in Fds /\ entry \in [Slots -> Entries]
      BY <2>3 DEF FillSlot, ShapeInv, ShapeOf, Resolving, Found, Claiming, TypeOK
    <3>2. /\ entry'[Slot(at[t])].gen = Entry(t).gen \/ entry'[Slot(at[t])].gen = mem[t].gen
          /\ \A r \in Slots \ {Slot(at[t])} : entry'[r] = entry[r]
      BY <2>3, <3>1, SetEntryFields DEF FillSlot, Tag
    <3>3. mem[t].gen <= generation[Slot(at[t])]
      BY <3>1 DEF TagsInv, Tagged, Found
    <3> QED
      BY <3>2, <3>3 DEF TagsInv, Entry
  <2> QED
    BY <1>1, <2>1, <2>2, <2>3
<1>4. ASSUME pc'[t] \in Tagged PROVE mem'[t].gen <= generation[Slot(at'[t])]
  <2>1. mem \in [Threads -> Copies]
    BY DEF TypeOK
  <2>2. CASE pc[t] = "tag"
    <3>1. Lookup(t)
      BY <2>2 DEF Resolve, StartResolve, ValidateSequence, ValidateGeneration, SampleGeneration,
         ReadLink, MapTable, LoadSequence, ClaimSlot, FillSlot, Return
    <3>2. Keep(t, "gen", Entry(t).gen) /\ at' = at
      BY <2>2, <3>1 DEF Lookup
    <3> QED
      BY <1>2, <2>1, <3>2, KeepWord
  <2>3. CASE pc[t] = "sample"
    <3>1. Keep(t, "gen", generation[Slot(at[t])]) /\ at' = at
      BY <2>3 DEF Resolve, StartResolve, Lookup, ValidateSequence, ValidateGeneration, SampleGeneration,
         ReadLink, MapTable, LoadSequence, ClaimSlot, FillSlot, Return
    <3>2. mem'[t].gen = generation[Slot(at[t])]
      BY <2>1, <3>1, KeepFields
    <3> QED
      BY <1>2, <3>1, <3>2
  <2>4. CASE pc[t] \notin {"tag", "sample"}
    <3>1. pc[t] \in Tagged /\ at'[t] = at[t] /\ mem'[t].gen = mem[t].gen
      <4>1. CASE Lookup(t)
        <5>1. at' = at /\ pc[t] \in Tagged
          BY <1>4, <2>4, <4>1 DEF TypeOK, Lookup, Goto, Tagged, Found, Claiming
        <5>2. CASE Keep(t, "head", Entry(t).head)
          BY <2>1, <5>1, <5>2, KeepFields
        <5>3. CASE Keep(t, "tail", Entry(t).tail)
          BY <2>1, <5>1, <5>3, KeepFields
        <5> QED
          BY <2>4, <4>1, <5>1, <5>2, <5>3 DEF Lookup, Tagged, Found, Claiming
      <4>2. CASE LoadSequence(t)
        BY <1>4, <2>1, <2>4, <4>2, KeepFields DEF TypeOK, LoadSequence, Tagged, Found
      <4>3. CASE ReadLink(t)
        <5>1. pc[t] = "readlink" /\ at' = at
          BY <4>3 DEF ReadLink
        <5>2. mem' = [mem EXCEPT ![t].head = link[at[t]], ![t].tail = link[at[t]], ![t].seq = 0]
          BY <1>4, <4>3 DEF TypeOK, ReadLink, Goto, Tagged, Found, Claiming
        <5>3. mem[t] \in Copies
          BY <2>1
        <5> DEFINE c == mem[t]
                   m == [c EXCEPT !.head = link[at[t]], !.tail = link[at[t]], !.seq = 0]
        <5>4. mem'[t] = m
          BY <2>1, <5>2
        <5>5. m.gen = c.gen
          BY <5>3 DEF Copies
        <5> QED
          BY <5>1, <5>4, <5>5 DEF Tagged
      <4>4. CASE ~ Lookup(t) /\ ~ LoadSequence(t) /\ ~ ReadLink(t)
        BY <1>4, <2>4, <4>4 DEF TypeOK, Resolve, StartResolve, ValidateSequence, ValidateGeneration,
           SampleGeneration, MapTable, ClaimSlot, FillSlot, Return, Goto, Tagged, Found, Claiming
      <4> QED
        BY <4>1, <4>2, <4>3, <4>4
    <3> QED
      BY <3>1 DEF TagsInv
  <2> QED
    BY <2>2, <2>3, <2>4
<1>5. ASSUME NEW u \in Threads, pc'[u] \in Tagged PROVE mem'[u].gen <= generation[Slot(at'[u])]
  BY <1>1, <1>4, <1>5 DEF TagsInv, Same
<1> QED
  BY <1>1, <1>3, <1>5 DEF TagsInv

LEMMA TagsHold == Spec => []TagsInv
<1>1. BaseInv /\ TagsInv /\ [Next]_vars => TagsInv'
  BY TagsAway, TagsAccess, AwaySteps
<1> QED
  BY <1>1, TagsInit, BaseHolds, PTL DEF Spec

-----------------------------------------------------------------------------
(* A name under the current tag is the descriptor's or about to be outdated. *)

\* Every call that ends a name moves the generation on or is still to do so,
\* but for those of which nothing is ever seen.
LEMMA SoundKept ==
  ASSUME BaseInv, [Next]_vars, NEW fd \in Fds, NEW l \in Links, NEW tag \in Nat,
         tag <= generation[Slot(fd)], Sound(fd, l, tag)
  PROVE  Sound(fd, l, tag)'
<1> USE DEF BaseInv
<1>0. Slot(fd) \in Slots /\ generation[Slot(fd)] \in Nat /\ l # NoLink /\ fd # NoFd
  BY SlotsAreNat, ConstantsAssumption DEF TypeOK, NoLink
<1>1. ASSUME NEW t \in Threads, Resolve(t) PROVE Sound(fd, l, tag)'
  BY <1>1, Accesses DEF Sound, Pending, kernel
<1>2. ASSUME NEW t \in Threads, WrappedCall(t) PROVE Sound(fd, l, tag)'
  <2>1. PICK new \in [Fds -> Names], f \in Fds \cup {NoFd}, outdated \in SUBSET Slots :
          Outdating(t, new, f, outdated)
    BY <1>2, CallsOutdate
  <2>2. /\ generation' = generation /\ lost' = lost /\ link' = new
        /\ leaving'[t] = Ended(new) /\ todo'[t] = outdated /\ todo[t] = {}
        /\ \A u \in Threads \ {t} : leaving'[u] = leaving[u] /\ todo'[u] = todo[u]
    BY <2>1 DEF Outdating, Wrapped, Change, cache, TypeOK, ShapeInv, ShapeOf
  <2>3. ASSUME tag = generation[Slot(fd)], l = link[fd], l # new[fd] PROVE Pending(fd, l)'
    <3>1. <<fd, l>> \in Ended(new)
      BY <1>0, <2>3 DEF Ended
    <3>2. Slot(fd) \in outdated
      BY <1>0, <2>1, <2>3 DEF Outdating
    <3> QED
      BY <2>2, <3>1, <3>2 DEF Pending
  <2>4. Pending(fd, l) => Pending(fd, l)'
    BY <2>2 DEF Pending
  <2> QED
    BY <2>2, <2>3, <2>4 DEF Sound
<1>3. ASSUME NEW t \in Threads, Invalidate(t) PROVE Sound(fd, l, tag)'
  <2>1. SUFFICES ASSUME tag = generation'[Slot(fd)] PROVE l = link'[fd] \/ Pending(fd, l)'
    BY DEF Sound
  <2>2. /\ link' = link
        /\ generation'[Slot(fd)] \in Nat /\ generation[Slot(fd)] <= generation'[Slot(fd)]
        /\ \A s \in todo[t] \ todo'[t] : generation[s] < generation'[s]
        /\ \A u \in Threads \ {t} : todo'[u] = todo[u]
        /\ \/ at[t] = NoFd /\ lost' = lost /\ leaving' = leaving
           \/ /\ todo'[t] = {}
              /\ at[t] # NoFd => Slot(at[t]) \in todo[t]
              /\ \A u \in Threads \ {t} : \A e \in leaving[u] : e[1] # at[t] => e \in leaving'[u]
              /\ \A e \in lost : e[1] # at[t] => e \in lost'
    BY <1>0, <1>3, Increment
  <2>3. tag = generation[Slot(fd)] /\ Slot(fd) \notin todo[t] \ todo'[t]
    BY <1>0, <2>1, <2>2
  <2>4. CASE l = link[fd]
    BY <2>2, <2>4
  <2>5. CASE Pending(fd, l)
    <3>1. CASE <<fd, l>> \in lost
      <4>1. <<fd, l>> \in lost'
        BY <1>0, <2>2, <2>3, <3>1
      <4> QED
        BY <4>1 DEF Pending
    <3>2. CASE \E u \in Threads : <<fd, l>> \in leaving[u] /\ Slot(fd) \in todo[u]
      <4>1. PICK u \in Threads : <<fd, l>> \in leaving[u] /\ Slot(fd) \in todo[u]
        BY <3>2
      <4>2. CASE u = t
        BY <2>2, <2>3, <4>1, <4>2 DEF Pending
      <4>3. CASE u # t
        <5>1. <<fd, l>> \in leaving'[u] /\ Slot(fd) \in todo'[u]
          BY <1>0, <2>2, <2>3, <4>1, <4>3
        <5> QED
          BY <5>1 DEF Pending
      <4> QED
        BY <4>2, <4>3
    <3> QED
      BY <2>5, <3>1, <3>2 DEF Pending
  <2> QED
    BY <2>3, <2>4, <2>5 DEF Sound
<1>4. ASSUME NEW t \in Threads, Fork(t) PROVE Sound(fd, l, tag)'
  <2>1. Pending(fd, l) => <<fd, l>> \in lost'
    BY <1>4 DEF Fork, Pending
  <2> QED
    BY <1>4, <2>1 DEF Fork, Sound, Pending, kernel, cache
<1>5. ASSUME RawOpen PROVE Sound(fd, l, tag)'
  <2>1. PICK f \in Fds, n \in Links : link[f] = NoLink /\ link' = [link EXCEPT ![f] = n]
    BY <1>5 DEF RawOpen, Change
  <2>2. l = link[fd] => l = link'[fd]
    BY <1>0, <2>1 DEF TypeOK
  <2> QED
    BY <1>5, <2>2 DEF RawOpen, Sound, Pending, cache, locals
<1>6. ASSUME RawClose PROVE Sound(fd, l, tag)'
  <2>1. PICK f \in owned : link' = [link EXCEPT ![f] = NoLink] /\ lost' = lost \cup {<<f, link[f]>>}
    BY <1>6 DEF RawClose, Change
  <2>2. l = link[fd] => l = link'[fd] \/ <<fd, l>> \in lost'
    BY <2>1 DEF TypeOK
  <2> QED
    BY <1>6, <2>1, <2>2 DEF RawClose, Sound, Pending, cache, locals
<1>7. ASSUME UNCHANGED vars PROVE Sound(fd, l, tag)'
  BY <1>7 DEF vars, kernel, cache, locals, history, Sound, Pending
<1> QED
  BY <1>1, <1>2, <1>3, <1>4, <1>5, <1>6, <1>7, StepKinds

LEMMA SoundInit == Init => SoundInv
BY DEF Init, SoundInv, EntryOf, HeldOf, Found, Claiming

\* A slot that no access writes.
LEMMA EntryKept ==
  ASSUME BaseInv, TagsInv, SoundInv, [Next]_vars, NEW s \in Slots, entry'[s] = entry[s]
  PROVE  EntryOf(s)'
<1> USE DEF BaseInv
<1>1. SUFFICES ASSUME Even(entry[s].seq), entry[s].fd # NoFd
               PROVE  /\ Slot(entry[s].fd) = s
                      /\ entry[s].head = entry[s].tail /\ entry[s].head \in Links
                      /\ Sound(entry[s].fd, entry[s].head, entry[s].gen)'
  BY DEF EntryOf, Sound, Pending
<1> DEFINE f == entry[s].fd
           l == entry[s].head
           g == entry[s].gen
<1>2. f \in Fds /\ g \in Nat /\ g <= generation[s]
  BY <1>1 DEF TypeOK, Entries, TagsInv
<1>3. Slot(f) = s /\ l = entry[s].tail /\ l \in Links /\ Sound(f, l, g)
  BY <1>1 DEF SoundInv, EntryOf
<1>4. entry'[s].fd = f /\ entry'[s].head = l /\ entry'[s].gen = g
  OBVIOUS
<1> HIDE DEF f, l, g
<1>5. PICK ff, ll, gg : ff = f /\ ll = l /\ gg = g
  OBVIOUS
<1>6. Sound(ff, ll, gg)'
  BY <1>2, <1>3, <1>5, SoundKept
<1>7. gg = generation'[Slot(ff)] => ll = link'[ff] \/ Pending(ff, ll)'
  BY <1>6 DEF Sound
<1> QED
  BY <1>3, <1>4, <1>5, <1>7 DEF f, l, g, Sound, Pending

\* A thread that keeps what it has found.
LEMMA HeldKept ==
  ASSUME BaseInv, TagsInv, SoundInv, [Next]_vars, NEW t \in Threads,
         pc[t] \in Found \cup {"current"}, at'[t] = at[t],
         mem'[t].head = mem[t].head, mem'[t].tail = mem[t].tail, mem'[t].gen = mem[t].gen
  PROVE  HeldOf(t)'
<1> USE DEF BaseInv
<1>1. /\ at[t] \in Fds /\ mem[t].gen \in Nat /\ mem[t].gen <= generation[Slot(at[t])]
  BY Words DEF ShapeInv, ShapeOf, Resolving, TagsInv, Tagged
<1>2. /\ mem[t].head = mem[t].tail /\ mem[t].head \in Links
      /\ Sound(at[t], mem[t].head, mem[t].gen)
  BY DEF SoundInv, HeldOf
<1>3. PICK ff, ll, gg : ff = at[t] /\ ll = mem[t].head /\ gg = mem[t].gen
  OBVIOUS
<1>4. Sound(ff, ll, gg)'
  BY <1>1, <1>2, <1>3, SoundKept
<1>5. gg = generation'[Slot(ff)] => ll = link'[ff] \/ Pending(ff, ll)'
  BY <1>4 DEF Sound
<1> QED
  BY <1>2, <1>3, <1>5 DEF HeldOf, Sound, Pending

LEMMA SoundAway ==
  ASSUME BaseInv, TagsInv, SoundInv, [Next]_vars, Away
  PROVE  SoundInv'
<1>1. \A s \in Slots : EntryOf(s)'
  BY EntryKept DEF Away
<1>2. ASSUME NEW u \in Threads PROVE HeldOf(u)'
  <2>1. CASE pc'[u] \in {"idle", "invalidate"}
    BY <2>1 DEF HeldOf, Found, Claiming
  <2>2. CASE Same(u) /\ pc[u] \in Found \cup {"current"}
    BY <2>2, HeldKept DEF Same
  <2>3. CASE Same(u) /\ pc[u] \notin Found \cup {"current"}
    BY <2>3 DEF Same, HeldOf
  <2> QED
    BY <2>1, <2>2, <2>3 DEF Away
<1> QED
  BY <1>1, <1>2 DEF SoundInv

\* What a store publishes is a name it holds.
LEMMA SoundEntries ==
  ASSUME BaseInv, ClaimInv, TagsInv, SoundInv, NEW t \in Threads, Resolve(t), [Next]_vars, NEW s \in Slots
  PROVE  EntryOf(s)'
<1> USE DEF BaseInv
<1>1. entry' = entry \/ ClaimSlot(t) \/ FillSlot(t)
  BY Accesses
<1>2. CASE entry'[s] = entry[s]
  BY <1>2, EntryKept
<1>3. CASE ClaimSlot(t) /\ entry'[s] # entry[s]
  <2>1. pc[t] = "claim" /\ SetEntry(t, "seq", mem[t].seq + 1)
    BY <1>3 DEF ClaimSlot
  <2>2. at[t] \in Fds /\ entry \in [Slots -> Entries] /\ mem[t].seq \in Nat /\ Even(mem[t].seq)
    BY <2>1, Words DEF ShapeInv, ShapeOf, Resolving, Found, TypeOK, ClaimInv, ClaimOf
  <2>3. entry'[s].seq = mem[t].seq + 1
    <3>1. s = Slot(at[t])
      BY <1>3, <2>1, <2>2, SetEntryFields
    <3> QED
      BY <2>1, <2>2, <3>1, SetEntryFields
  <2>4. ~ Even(entry'[s].seq)
    BY <2>2, <2>3 DEF Even
  <2> QED
    BY <2>4 DEF EntryOf
<1>4. CASE FillSlot(t) /\ entry'[s] # entry[s]
  <2>1. /\ pc[t] \in Claiming /\ at[t] \in Fds /\ entry \in [Slots -> Entries]
        /\ at' = at /\ mem' = mem
    BY <1>4 DEF FillSlot, ShapeInv, ShapeOf, Resolving, Found, Claiming, TypeOK
  <2>2. mem[t].seq \in Nat /\ Even(mem[t].seq) /\ Entry(t).seq = mem[t].seq + 1
    BY <2>1, Words DEF ClaimInv, ClaimOf
  <2>3. s = Slot(at[t])
    BY <1>4, <2>1, SetEntryFields DEF FillSlot
  <2>4. CASE pc[t] # "publish"
    <3>1. entry'[s].seq = Entry(t).seq
      BY <1>4, <2>1, <2>3, <2>4, SetEntryFields DEF FillSlot
    <3>2. ~ Even(entry'[s].seq)
      BY <2>2, <3>1 DEF Even
    <3> QED
      BY <3>2 DEF EntryOf
  <2>5. CASE pc[t] = "publish"
    <3>1. SetEntry(t, "seq", mem[t].seq + 2)
      BY <1>4, <2>5 DEF FillSlot
    <3>2. /\ entry'[s].fd = Entry(t).fd /\ entry'[s].gen = Entry(t).gen
          /\ entry'[s].head = Entry(t).head /\ entry'[s].tail = Entry(t).tail
      BY <2>1, <2>3, <3>1, SetEntryFields
    <3>3. /\ Entry(t).fd = at[t] /\ Entry(t).gen = mem[t].gen
          /\ Entry(t).head = mem[t].head /\ Entry(t).tail = mem[t].tail
      BY <2>5 DEF ClaimInv, ClaimOf, Claiming
    <3>4. HeldOf(t)
      BY DEF SoundInv
    <3>5. /\ mem[t].head = mem[t].tail /\ mem[t].head \in Links
          /\ Sound(at[t], mem[t].head, mem[t].gen)
      BY <2>1, <3>4 DEF HeldOf, Found
    <3>6. UNCHANGED <<kernel, todo, leaving, lost>> /\ generation' = generation
      BY Accesses
    <3> QED
      BY <2>3, <3>2, <3>3, <3>5, <3>6 DEF EntryOf, Sound, Pending, kernel
  <2> QED
    BY <2>4, <2>5
<1> QED
  BY <1>1, <1>2, <1>3, <1>4

\* A validated copy is a published name; a readlink's is the current one.
LEMMA SoundHeld ==
  ASSUME BaseInv, ReadInv, TagsInv, SoundInv, NEW t \in Threads, Resolve(t), [Next]_vars
  PROVE  HeldOf(t)'
<1> USE DEF BaseInv
<1>1. UNCHANGED <<kernel, todo, leaving, lost>> /\ generation' = generation
  BY Accesses
<1>2. SUFFICES ASSUME pc'[t] \in Found \cup {"current"} PROVE HeldOf(t)'
  BY DEF HeldOf
<1>3. CASE ValidateSequence(t)
  <2>1. pc[t] = "validate" /\ Entry(t).seq = mem[t].seq /\ at' = at /\ mem' = mem
    BY <1>2, <1>3 DEF TypeOK, ValidateSequence, Goto, Unmoved, Found, Claiming
  <2>2. /\ Even(Entry(t).seq) /\ Entry(t).fd = at[t] /\ Entry(t).gen = mem[t].gen
        /\ Entry(t).head = mem[t].head /\ Entry(t).tail = mem[t].tail
    BY <2>1 DEF ReadInv, ReadOf, Reading
  <2>3. at[t] \in Fds /\ at[t] # NoFd /\ Slot(at[t]) \in Slots
    BY <2>1, SlotsAreNat DEF ShapeInv, ShapeOf, Resolving, Reading
  <2>4. EntryOf(Slot(at[t]))
    BY <2>3 DEF SoundInv
  <2>5. /\ mem[t].head = mem[t].tail /\ mem[t].head \in Links
        /\ Sound(at[t], mem[t].head, mem[t].gen)
    BY <2>2, <2>3, <2>4 DEF EntryOf, Entry
  <2> QED
    BY <1>1, <2>1, <2>5 DEF HeldOf, Sound, Pending, kernel
<1>4. CASE ReadLink(t)
  <2>1. /\ pc[t] = "readlink" /\ at' = at /\ link[at[t]] \notin {NoLink} \cup Excluded
        /\ mem' = [mem EXCEPT ![t].head = link[at[t]], ![t].tail = link[at[t]], ![t].seq = 0]
    BY <1>2, <1>4 DEF TypeOK, ReadLink, Goto, Found, Claiming
  <2>2. at[t] \in Fds
    BY <2>1 DEF ShapeInv, ShapeOf, Resolving
  <2> DEFINE c == mem[t]
             l == link[at[t]]
             m == [c EXCEPT !.head = l, !.tail = l, !.seq = 0]
  <2>3. c \in Copies /\ l \in Links
    BY <2>1, <2>2 DEF TypeOK, Names
  <2>4. mem'[t] = m
    BY <2>1 DEF TypeOK
  <2> HIDE DEF c, l
  <2>5. m.head = l /\ m.tail = l
    BY <2>3 DEF Copies
  <2>6. mem'[t].head = l /\ mem'[t].tail = l
    BY <2>4, <2>5
  <2> QED
    BY <1>1, <2>1, <2>3, <2>6 DEF HeldOf, Sound, kernel, l
<1>5. CASE ~ ValidateSequence(t) /\ ~ ReadLink(t)
  <2>1. pc[t] \in Found \cup {"current"} /\ at' = at
    BY <1>2, <1>5 DEF TypeOK, Resolve, StartResolve, Lookup, ValidateGeneration, SampleGeneration,
       MapTable, LoadSequence, ClaimSlot, FillSlot, Return, Goto, Found, Claiming
  <2>2. mem' = mem \/ Keep(t, "seq", Entry(t).seq)
    BY <1>2, <1>5, <2>1 DEF TypeOK, Resolve, StartResolve, Lookup, ValidateGeneration, SampleGeneration,
       MapTable, LoadSequence, ClaimSlot, FillSlot, Return, Goto, Found, Claiming
  <2>3. mem'[t].head = mem[t].head /\ mem'[t].tail = mem[t].tail /\ mem'[t].gen = mem[t].gen
    BY <2>2, KeepFields DEF TypeOK
  <2> QED
    BY <2>1, <2>3, HeldKept
<1> QED
  BY <1>3, <1>4, <1>5

LEMMA SoundAccess ==
  ASSUME BaseInv, ClaimInv, ReadInv, TagsInv, SoundInv, NEW t \in Threads, Resolve(t), [Next]_vars
  PROVE  SoundInv'
<1>1. \A s \in Slots : EntryOf(s)'
  BY SoundEntries
<1>2. ASSUME NEW u \in Threads \ {t} PROVE HeldOf(u)'
  <2>1. Same(u)
    BY Accesses
  <2>2. CASE pc[u] \in Found \cup {"current"}
    BY <2>1, <2>2, HeldKept DEF Same
  <2>3. CASE pc[u] \notin Found \cup {"current"}
    BY <2>1, <2>3 DEF Same, HeldOf
  <2> QED
    BY <2>2, <2>3
<1> QED
  BY <1>1, <1>2, SoundHeld DEF SoundInv

\* Everything under a current tag, in a slot or in a thread's hands, is a whole
\* name the descriptor has, or one whose end is still to be told.
LEMMA SoundHolds == Spec => []SoundInv
<1>1. BaseInv /\ ClaimInv /\ ReadInv /\ TagsInv /\ SoundInv /\ [Next]_vars => SoundInv'
  BY SoundAway, SoundAccess, AwaySteps
<1> QED
  BY <1>1, SoundInit, BaseHolds, ClaimHolds, ReadHolds, TagsHold, PTL DEF Spec

\* chaos_io_fdcache_lookup answers, for a descriptor of the application's, with
\* the whole path of the file it names, or with a name ended by a call that has
\* yet to invalidate or that nothing was told of.
THEOREM CacheStaysTrue == Spec => []CacheIsTrue
<1>1. BaseInv /\ SoundInv => CacheIsTrue
  <2> SUFFICES ASSUME BaseInv, SoundInv, NEW fd \in owned, Valid(fd)
               PROVE  /\ entry[Slot(fd)].head = entry[Slot(fd)].tail
                      /\ entry[Slot(fd)].head \in Nameable(fd)
    BY DEF CacheIsTrue
  <2>1. fd \in Fds /\ fd # NoFd /\ Slot(fd) \in Slots
    BY SlotsAreNat DEF BaseInv, TypeOK
  <2>2. EntryOf(Slot(fd)) /\ Even(entry[Slot(fd)].seq) /\ entry[Slot(fd)].fd = fd
        /\ entry[Slot(fd)].gen = generation[Slot(fd)]
    BY <2>1 DEF SoundInv, Valid, Even
  <2>3. /\ entry[Slot(fd)].head = entry[Slot(fd)].tail
        /\ entry[Slot(fd)].head = link[fd] \/ Pending(fd, entry[Slot(fd)].head)
    BY <2>1, <2>2 DEF EntryOf, Sound
  <2>4. \A l : Pending(fd, l) => l \in Nameable(fd)
    BY DEF Pending, Nameable, Stale
  <2> QED
    BY <2>3, <2>4 DEF Nameable
<1> QED
  BY <1>1, BaseHolds, SoundHolds, PTL

-----------------------------------------------------------------------------
(* What a resolution may answer.                                           *)

LEMMA AllowedInit == Init => AllowedInv
BY DEF Init, AllowedInv, AllowedOf, Resolving, Reading, Found, Claiming

\* The names a descriptor may be found under only grow by its new one.
LEMMA NewNames ==
  ASSUME BaseInv, [Next]_vars, NEW fd \in Fds, NEW x, x \in Nameable(fd)'
  PROVE  x \in Nameable(fd) \/ x = link'[fd]
<1> USE DEF BaseInv
<1>1. \A y : y \in Nameable(fd) <=>
        y = link[fd] \/ \E e \in Stale : e[1] = fd /\ e[2] = y
  BY DEF Nameable
<1>2. x = link'[fd] \/ \E e \in Stale' : e[1] = fd /\ e[2] = x
  BY DEF Nameable
<1>3. SUFFICES ASSUME NEW e \in Stale', e[1] = fd PROVE e \in Stale \/ e[2] = link[fd]
  BY <1>1, <1>2
<1>4. ASSUME UNCHANGED <<lost, leaving>> PROVE e \in Stale
  BY <1>4 DEF Stale
<1>5. ASSUME NEW t \in Threads, Resolve(t) PROVE e \in Stale
  BY <1>4, <1>5, Accesses
<1>6. ASSUME NEW t \in Threads, WrappedCall(t) PROVE e \in Stale \/ e[2] = link[fd]
  <2>1. PICK new, f, outdated : Wrapped(t, new, f, outdated)
    BY <1>6, CallsOutdate DEF Outdating
  <2>2. lost' = lost /\ leaving'[t] = Ended(new) /\ \A u \in Threads \ {t} : leaving'[u] = leaving[u]
    BY <2>1 DEF Wrapped, TypeOK
  <2>3. \A y \in Ended(new) : y[2] = link[y[1]]
    BY DEF Ended
  <2> QED
    BY <1>3, <2>2, <2>3 DEF Stale
<1>7. ASSUME NEW t \in Threads, Invalidate(t) PROVE e \in Stale
  <2>1. lost' \subseteq lost /\ \A u \in Threads : leaving'[u] \subseteq leaving[u]
    BY <1>7, Increment
  <2> QED
    BY <2>1 DEF Stale
<1>8. ASSUME NEW t \in Threads, Fork(t) PROVE e \in Stale
  BY <1>8 DEF Fork, Stale
<1>9. ASSUME RawOpen PROVE e \in Stale
  BY <1>4, <1>9 DEF RawOpen
<1>10. ASSUME RawClose PROVE e \in Stale \/ e[2] = link[fd]
  <2>1. PICK f \in owned : lost' = lost \cup {<<f, link[f]>>}
    BY <1>10 DEF RawClose
  <2> QED
    BY <1>3, <1>10, <2>1 DEF RawClose, Stale
<1>11. ASSUME UNCHANGED vars PROVE e \in Stale
  BY <1>4, <1>11 DEF vars, history
<1> QED
  BY <1>5, <1>6, <1>7, <1>8, <1>9, <1>10, <1>11, StepKinds

\* A resolution under way loses no answer and is granted each new name.
LEMMA Granted ==
  ASSUME BaseInv, [Next]_vars, NEW u \in Threads, pc[u] \in Resolving, pc'[u] \in Resolving
  PROVE  /\ at'[u] = at[u] /\ at[u] \in Fds
         /\ allowed[u] \subseteq allowed'[u]
         /\ link'[at[u]] = link[at[u]] \/ link'[at[u]] \in allowed'[u]
<1> USE DEF BaseInv
<1>0. /\ at[u] \in Fds /\ pc[u] # "idle" /\ pc[u] # "invalidate" /\ pc'[u] # "idle" /\ pc'[u] # "invalidate"
  BY DEF ShapeInv, ShapeOf, Resolving, Reading, Found, Claiming
<1> DEFINE Goal == /\ at'[u] = at[u]
                   /\ allowed[u] \subseteq allowed'[u]
                   /\ link'[at[u]] = link[at[u]] \/ link'[at[u]] \in allowed'[u]
<1>1. ASSUME NEW t \in Threads, Resolve(t) PROVE Goal
  <2>1. link' = link /\ at'[u] = at[u]
    BY <1>0, <1>1, Accesses DEF Same, kernel
  <2>2. CASE \E fd \in Fds : StartResolve(t, fd)
    BY <1>0, <2>1, <2>2 DEF StartResolve, TypeOK
  <2>3. CASE Return(t)
    BY <1>0, <2>1, <2>3 DEF Return, Goto, TypeOK
  <2>4. CASE ~ (\E fd \in Fds : StartResolve(t, fd)) /\ ~ Return(t)
    BY <1>1, <2>1, <2>4 DEF Resolve, Lookup, ValidateSequence, ValidateGeneration, SampleGeneration,
       ReadLink, MapTable, LoadSequence, ClaimSlot, FillSlot, history
  <2> QED
    BY <2>2, <2>3, <2>4
<1>2. ASSUME NEW new \in [Fds -> Names], Change(new), at'[u] = at[u] PROVE Goal
  BY <1>0, <1>2, ChangeTyped
<1>3. ASSUME NEW t \in Threads, WrappedCall(t) PROVE Goal
  <2>1. PICK new \in [Fds -> Names], f \in Fds \cup {NoFd}, outdated \in SUBSET Slots :
          Wrapped(t, new, f, outdated)
    BY <1>3, CallsOutdate DEF Outdating
  <2>2. at'[u] = at[u]
    BY <1>0, <2>1 DEF Wrapped, TypeOK
  <2> QED
    BY <1>2, <2>1, <2>2 DEF Wrapped
<1>4. ASSUME NEW t \in Threads, Invalidate(t) PROVE Goal
  <2>1. u # t
    BY <1>0, <1>4 DEF Invalidate
  <2> QED
    BY <1>4, <2>1, Increment
<1>5. ASSUME NEW t \in Threads, Fork(t) PROVE Goal
  BY <1>0, <1>5 DEF Fork
<1>6. ASSUME RawOpen PROVE Goal
  <2>1. PICK f \in Fds, l \in Links : Change([link EXCEPT ![f] = l])
    BY <1>6 DEF RawOpen
  <2>2. [link EXCEPT ![f] = l] \in [Fds -> Names]
    BY DEF TypeOK, Names
  <2> QED
    BY <1>2, <1>6, <2>1, <2>2 DEF RawOpen, locals
<1>7. ASSUME RawClose PROVE Goal
  <2>1. PICK f \in owned : Change([link EXCEPT ![f] = NoLink])
    BY <1>7 DEF RawClose
  <2>2. [link EXCEPT ![f] = NoLink] \in [Fds -> Names]
    BY DEF TypeOK, Names
  <2> QED
    BY <1>2, <1>7, <2>1, <2>2 DEF RawClose, locals
<1>8. ASSUME UNCHANGED vars PROVE Goal
  BY <1>8 DEF vars, kernel, locals, history
<1>9. Goal
  BY <1>1, <1>3, <1>4, <1>5, <1>6, <1>7, <1>8, StepKinds
<1> QED
  BY <1>0, <1>9

LEMMA NamesGranted ==
  ASSUME BaseInv, AllowedInv, [Next]_vars, NEW u \in Threads, pc[u] \in Resolving, pc'[u] \in Resolving
  PROVE  (Nameable(at[u]) \subseteq allowed[u])'
<1>1. PICK fd : fd = at[u]
  OBVIOUS
<1>2. /\ at'[u] = fd /\ fd \in Fds /\ allowed[u] \subseteq allowed'[u]
      /\ link'[fd] = link[fd] \/ link'[fd] \in allowed'[u]
  BY <1>1, Granted
<1>3. Nameable(fd) \subseteq allowed[u]
  BY <1>1 DEF AllowedInv, AllowedOf
<1>4. link[fd] \in Nameable(fd)
  BY DEF Nameable
<1>5. Nameable(fd)' \subseteq allowed'[u]
  BY <1>2, <1>3, <1>4, NewNames
<1> QED
  BY <1>2, <1>5 DEF Nameable

\* A thread that another one's step, or none, finds resolving.
LEMMA AllowedSame ==
  ASSUME BaseInv, AllowedInv, [Next]_vars, NEW u \in Threads, Same(u) \/ pc'[u] \in {"idle", "invalidate"}
  PROVE  AllowedOf(u)'
<1>1. CASE pc'[u] \notin Resolving
  BY <1>1 DEF AllowedOf, Resolving
<1>2. CASE pc'[u] \in Resolving
  <2>1. Same(u) /\ pc[u] \in Resolving
    BY <1>2 DEF Same, Resolving, Reading, Found, Claiming
  <2>2. allowed[u] \subseteq allowed'[u]
    BY <1>2, <2>1, Granted
  <2>3. (Nameable(at[u]) \subseteq allowed[u])'
    BY <1>2, <2>1, NamesGranted
  <2>4. /\ pc[u] \in Found => mem[u].head \in allowed[u]
        /\ pc[u] = "answer" => \/ mem[u].head = NoLink
                               \/ (mem[u].head = mem[u].tail /\ mem[u].head \in allowed[u])
    BY DEF AllowedInv, AllowedOf
  <2> QED
    BY <2>1, <2>2, <2>3, <2>4 DEF AllowedOf, Same
<1> QED
  BY <1>1, <1>2

\* What a thread finds it may answer.
LEMMA AllowedAccess ==
  ASSUME BaseInv, SoundInv, AllowedInv, NEW t \in Threads, Resolve(t), [Next]_vars
  PROVE  AllowedOf(t)'
<1> USE DEF BaseInv
<1>1. CASE \E fd \in Fds : StartResolve(t, fd)
  <2>1. PICK fd \in Fds : StartResolve(t, fd)
    BY <1>1
  <2>2. /\ at'[t] = fd /\ allowed'[t] = Nameable(fd) /\ pc'[t] \in {"sequence", "sample"}
        /\ UNCHANGED <<kernel, leaving, lost>>
    BY <2>1 DEF StartResolve, Goto, TypeOK
  <2>3. Nameable(fd)' = Nameable(fd)
    BY <2>2 DEF Nameable, Stale, kernel
  <2> QED
    BY <2>2, <2>3 DEF AllowedOf, Nameable, Found, Claiming
<1>2. CASE Return(t)
  BY <1>2 DEF AllowedOf, Return, Goto, TypeOK, Resolving, Reading, Found, Claiming
<1>3. CASE ~ (\E fd \in Fds : StartResolve(t, fd)) /\ ~ Return(t)
  <2>1. pc[t] \in Resolving /\ pc'[t] \in Resolving
    BY <1>3 DEF TypeOK, Resolve, Lookup, ValidateSequence, ValidateGeneration, SampleGeneration, ReadLink,
       MapTable, LoadSequence, ClaimSlot, FillSlot, Goto, Resolving, Reading, Found, Claiming
  <2>2. at[t] \in Fds /\ allowed[t] \subseteq allowed'[t]
    BY <2>1, Granted
  <2>3. (Nameable(at[t]) \subseteq allowed[t])'
    BY <2>1, NamesGranted
  <2>4. link[at[t]] \in Nameable(at[t]) /\ Nameable(at[t]) \subseteq allowed[t]
    BY <2>1 DEF Nameable, AllowedInv, AllowedOf
  <2>5. CASE pc[t] \in Found
    <3>1. /\ mem[t].head \in allowed[t] /\ mem[t].head = mem[t].tail
      BY <2>5 DEF AllowedInv, AllowedOf, SoundInv, HeldOf
    <3>2. mem' = mem \/ Keep(t, "seq", Entry(t).seq)
      BY <1>3, <2>5 DEF Resolve, Lookup, ValidateSequence, ValidateGeneration, SampleGeneration, ReadLink,
         MapTable, LoadSequence, ClaimSlot, FillSlot, Found, Claiming
    <3>3. mem'[t].head = mem[t].head /\ mem'[t].tail = mem[t].tail
      BY <3>2, KeepFields DEF TypeOK
    <3> QED
      BY <2>2, <2>3, <3>1, <3>3 DEF AllowedOf
  <2>6. CASE ValidateGeneration(t)
    <3>1. /\ pc[t] = "current" /\ mem' = mem
          /\ pc'[t] = IF mem[t].gen = generation[Slot(at[t])] THEN "answer" ELSE "sample"
      BY <2>6 DEF ValidateGeneration, Goto, TypeOK
    <3>2. /\ mem[t].head = mem[t].tail
          /\ Sound(at[t], mem[t].head, mem[t].gen)
      BY <3>1 DEF SoundInv, HeldOf
    <3>3. \A l : Pending(at[t], l) => l \in Nameable(at[t])
      BY DEF Pending, Nameable, Stale
    <3>4. pc'[t] = "answer" => mem[t].head \in allowed[t]
      BY <2>4, <3>1, <3>2, <3>3 DEF Sound
    <3> QED
      BY <2>2, <2>3, <3>1, <3>2, <3>4 DEF AllowedOf, Found, Claiming
  <2>7. CASE ReadLink(t)
    <3>1. CASE mem' = [mem EXCEPT ![t] = NoMem] /\ pc'[t] = "answer"
      <4>1. mem'[t].head = NoLink
        BY <3>1 DEF TypeOK, NoMem
      <4> QED
        BY <2>3, <3>1, <4>1 DEF AllowedOf, Found, Claiming
    <3>2. CASE pc'[t] = "map"
      <4>1. mem' = [mem EXCEPT ![t].head = link[at[t]], ![t].tail = link[at[t]], ![t].seq = 0]
        BY <2>7, <3>2 DEF ReadLink, Goto, TypeOK
      <4> DEFINE c == mem[t]
                 l == link[at[t]]
                 m == [c EXCEPT !.head = l, !.tail = l, !.seq = 0]
      <4>2. c \in Copies /\ mem'[t] = m
        BY <4>1 DEF TypeOK
      <4> HIDE DEF c, l
      <4>3. m.head = l
        BY <4>2 DEF Copies
      <4>4. mem'[t].head = l
        BY <4>2, <4>3
      <4> QED
        BY <2>2, <2>3, <2>4, <3>2, <4>4 DEF AllowedOf, l
    <3> QED
      BY <2>7, <3>1, <3>2 DEF ReadLink, Goto, TypeOK
  <2>8. CASE pc[t] \notin Found /\ ~ ValidateGeneration(t) /\ ~ ReadLink(t)
    <3>1. pc'[t] \notin Found \cup {"answer"}
      BY <1>3, <2>8 DEF TypeOK, Resolve, Lookup, ValidateSequence, SampleGeneration,
         MapTable, LoadSequence, ClaimSlot, FillSlot, Goto, Found, Claiming
    <3> QED
      BY <2>3, <3>1 DEF AllowedOf
  <2> QED
    BY <2>5, <2>6, <2>7, <2>8
<1> QED
  BY <1>1, <1>2, <1>3

LEMMA AllowedHolds == Spec => []AllowedInv
<1>1. ASSUME BaseInv, SoundInv, AllowedInv, [Next]_vars PROVE AllowedInv'
  <2>1. ASSUME NEW u \in Threads PROVE AllowedOf(u)'
    <3>1. CASE Away
      BY <1>1, <3>1, AllowedSame DEF Away
    <3>2. CASE \E t \in Threads : Resolve(t)
      <4>1. PICK t \in Threads : Resolve(t)
        BY <3>2
      <4>2. CASE u = t
        BY <1>1, <4>1, <4>2, AllowedAccess
      <4>3. CASE u # t
        BY <1>1, <4>1, <4>3, Accesses, AllowedSame
      <4> QED
        BY <4>2, <4>3
    <3> QED
      BY <1>1, <3>1, <3>2, AwaySteps
  <2> QED
    BY <2>1 DEF AllowedInv
<1> QED
  BY <1>1, AllowedInit, BaseHolds, SoundHolds, PTL DEF Spec

\* chaos_io_match_fd_rule matches a whole path that the descriptor had at some
\* time during the call, or one whose end nothing had invalidated when the call
\* began; never a torn one.
THEOREM AnswersStayNames == Spec => []AnswersAreNames
<1>1. AllowedInv => AnswersAreNames
  BY DEF AllowedInv, AllowedOf, AnswersAreNames
<1> QED
  BY <1>1, AllowedHolds, PTL

=============================================================================
