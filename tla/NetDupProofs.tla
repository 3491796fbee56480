----------------------------- MODULE NetDupProofs -----------------------------
(***************************************************************************)
(* DUP delivers a payload again on its own socket only, and once, for      *)
(* every set of threads, descriptors and sockets and any number of         *)
(* messages.                                                               *)
(*                                                                         *)
(* The inductive invariant follows a payload from the receive that returns *)
(* it to the replay.  Provenance: where it is now, it came from the socket *)
(* it is filed under, unless it is loose or the close count already tells  *)
(* the store to drop it.  Undelivered: a payload that is under way or      *)
(* tagged has not been delivered again yet.                                *)
(***************************************************************************)
EXTENDS NetDup, TLAPS

DupLabels ==
    {"idle", "gone", "replay", "tag", "identity", "deliver", "sample", "call", "blocked",
     "identify", "store", "counted", "copy", "label", "recheck", "untag", "close"}
Holding == {"tag", "identity", "deliver", "counted", "copy", "label", "recheck"}
Received == {"identify", "store", "counted", "copy", "label", "recheck"}
Filed == {"label", "recheck"}
Counting == {"idle", "untag", "close", "call", "blocked", "identify", "store", "counted",
             "copy", "label", "recheck"}

Payloads == [from : Nat, n : Nat, loose : BOOLEAN]
SlotType == [mapped : BOOLEAN, lock : {0, 1}, fd : DupFds \cup {NoOwner}, closes : Nat,
             socket : Nat, data : Payloads]
FilesType == [open : [DupFds -> Nat], created : Nat, sent : Nat, replaced : Nat, forked : BOOLEAN]
CallType == [pc : DupLabels, fd : DupFds \cup {NoOwner}, count : Nat, socket : Nat, payload : Payloads]

DupType ==
    /\ dupSlot \in SlotType
    /\ dupFiles \in FilesType
    /\ dupCalls \in [DupThreads -> CallType]
    /\ dupReplays \in Seq([payload : Payloads, to : Nat])
    /\ \A t \in DupThreads : dupCalls[t].pc \notin {"idle", "gone"} => dupCalls[t].fd \in DupFds

(* The try-lock excludes.                                                  *)
OneHolder ==
    /\ \A t \in DupThreads : dupCalls[t].pc \in Holding => dupSlot.lock = 1
    /\ \A t, u \in DupThreads : dupCalls[t].pc \in Holding /\ dupCalls[u].pc \in Holding => t = u

(* Close counts only grow.                                                 *)
CountsArePast ==
    \A t \in DupThreads : dupCalls[t].pc \in Counting =>
        dupCalls[t].count <= dupSlot.closes

Told(t) == dupSlot.closes # dupCalls[t].count
OfSocket(payload, socket) == payload.loose \/ payload.from = socket

Sourced(t) ==
    /\ dupCalls[t].pc \in {"blocked", "identify"} =>
        /\ dupCalls[t].payload.from # 0
        /\ OfSocket(dupCalls[t].payload, dupFiles.open[dupCalls[t].fd]) \/ Told(t)
    /\ dupCalls[t].pc \in {"store", "counted"} =>
        OfSocket(dupCalls[t].payload, dupCalls[t].socket) \/ Told(t)
    /\ dupCalls[t].pc \in {"copy", "label", "recheck"} =>
        OfSocket(dupCalls[t].payload, dupCalls[t].socket)
    /\ dupCalls[t].pc = "deliver" => dupCalls[t].socket = dupSlot.socket

Provenance == OfSocket(dupSlot.data, dupSlot.socket) /\ \A t \in DupThreads : Sourced(t)

NotReplayed(n) == \A i \in DOMAIN dupReplays : dupReplays[i].payload.n # n
Fresh == dupSlot.data = Torn \/ (dupSlot.data.n > 0 /\ NotReplayed(dupSlot.data.n))

Kept(t) ==
    /\ dupCalls[t].pc \in {"identity", "deliver"} => Fresh
    /\ dupCalls[t].pc \in Received =>
        /\ dupCalls[t].payload.n \in 1 .. dupFiles.sent
        /\ NotReplayed(dupCalls[t].payload.n)
        /\ dupCalls[t].pc \notin Filed => dupSlot.data.n # dupCalls[t].payload.n
        /\ dupCalls[t].pc \in Filed => dupSlot.data = dupCalls[t].payload

OneBearer ==
    \A t, u \in DupThreads :
        dupCalls[t].pc \in Received /\ dupCalls[u].pc \in Received
            /\ dupCalls[t].payload.n = dupCalls[u].payload.n => t = u

Undelivered ==
    /\ dupSlot.data.n <= dupFiles.sent
    /\ dupSlot.fd # NoOwner => Fresh
    /\ \A t \in DupThreads : Kept(t)
    /\ OneBearer

Delivered ==
    \A i \in DOMAIN dupReplays :
        /\ dupReplays[i].payload.n \in 0 .. dupFiles.sent
        /\ dupReplays[i].payload = Torn \/ dupReplays[i].payload.n > 0

DupInv ==
    /\ DupType /\ OneHolder /\ CountsArePast /\ Provenance
    /\ Undelivered /\ Delivered /\ ReplaysAreOwn

-----------------------------------------------------------------------------
LEMMA PayloadsType ==
  /\ NoPayload \in Payloads /\ Torn \in Payloads /\ Torn.n = 0 /\ Torn.loose = TRUE
  /\ IdleCall \in CallType /\ IdleCall.pc = "idle" /\ IdleCall.count = 0
  /\ [IdleCall EXCEPT !.pc = "gone"] \in CallType /\ [IdleCall EXCEPT !.pc = "gone"].pc = "gone"
  /\ NoOwner \notin DupFds
  BY DupAssumption DEF NoPayload, Torn, IdleCall, Payloads, CallType, DupLabels, NoOwner

LEMMA DupBegins == DupInit => DupInv
<1> SUFFICES ASSUME DupInit PROVE DupInv
  OBVIOUS
<1>1. DupType
  <2>1. dupSlot \in SlotType
    BY PayloadsType DEF DupInit, SlotType
  <2>2. dupFiles \in FilesType
    BY DEF DupInit, FilesType
  <2>3. dupCalls \in [DupThreads -> CallType]
    BY PayloadsType DEF DupInit
  <2> QED
    BY <2>1, <2>2, <2>3 DEF DupInit, DupType, IdleCall
<1>2. \A t \in DupThreads : dupCalls[t].pc = "idle" /\ dupCalls[t].count = 0
  BY PayloadsType DEF DupInit
<1>3. OneHolder /\ CountsArePast
  BY <1>2 DEF DupInit, OneHolder, CountsArePast, Holding, Counting
<1>4. Provenance
  BY <1>2 DEF DupInit, Provenance, Sourced, OfSocket, NoPayload
<1>5. Undelivered
  BY <1>2 DEF DupInit, Undelivered, Kept, OneBearer, Received, NoPayload
<1> QED
  BY <1>1, <1>3, <1>4, <1>5 DEF DupInit, DupInv, Delivered, ReplaysAreOwn

(* What a thread that leaves the open descriptors and the deliveries alone *)
(* has to show of itself and of the slot; the others' parts follow.        *)
Frame(t) ==
    /\ dupSlot' \in SlotType /\ dupFiles' \in FilesType /\ dupReplays' = dupReplays
    /\ dupCalls' \in [DupThreads -> CallType]
    /\ \A u \in DupThreads : u # t => dupCalls'[u] = dupCalls[u]
    /\ dupFiles'.open = dupFiles.open /\ dupFiles'.sent >= dupFiles.sent
    /\ dupSlot'.closes >= dupSlot.closes
Locks(t) ==
    \/ dupSlot'.lock = dupSlot.lock /\ (dupCalls'[t].pc \in Holding => dupCalls[t].pc \in Holding)
    \/ dupSlot.lock = 0 /\ dupSlot'.lock = 1
    \/ dupCalls[t].pc \in Holding /\ dupCalls'[t].pc \notin Holding
Counts(t) ==
    /\ dupCalls[t].pc \notin {"idle", "gone"} => dupCalls[t].fd \in DupFds
    /\ dupCalls[t].pc \in Counting => dupCalls[t].count <= dupSlot.closes
Fills(t) ==
    \/ dupSlot'.data = dupSlot.data /\ dupSlot'.socket = dupSlot.socket
    \/ /\ dupCalls[t].pc \in Holding
       /\ \/ dupSlot'.data = Torn
          \/ dupCalls[t].pc \in Received /\ dupSlot'.data = dupCalls[t].payload
Bears(t) ==
    dupCalls'[t].pc \in Received =>
        \/ dupCalls[t].pc \in Received /\ dupCalls'[t].payload.n = dupCalls[t].payload.n
        \/ dupCalls'[t].payload.n = dupFiles.sent + 1
SlotHolds ==
    /\ OfSocket(dupSlot.data, dupSlot.socket)
    /\ dupSlot.data.n <= dupFiles.sent
    /\ dupSlot.fd # NoOwner => Fresh

LEMMA StepKeeps ==
  ASSUME DupInv, NEW t \in DupThreads,
         Frame(t), Locks(t), Counts(t)', Fills(t), Bears(t), SlotHolds', Sourced(t)', Kept(t)'
  PROVE  DupInv'
<1> USE DEF Frame
<1>1. DupType'
  BY DEF DupInv, DupType, Counts
<1>2. OneHolder'
  BY DEF DupInv, OneHolder, Locks
<1>3. CountsArePast'
  <2>1. \A u \in DupThreads : dupCalls[u].count \in Nat
    BY DEF DupInv, DupType, CallType
  <2>2. dupSlot.closes \in Nat /\ dupSlot'.closes \in Nat
    BY DEF DupInv, DupType, SlotType
  <2> QED
    BY <2>1, <2>2 DEF DupInv, CountsArePast, Counts
<1>4. \A u \in DupThreads : u # t /\ dupCalls[u].pc \in Holding =>
        dupSlot'.data = dupSlot.data /\ dupSlot'.socket = dupSlot.socket
  BY DEF DupInv, OneHolder, Fills
<1>5. Provenance'
  <2> SUFFICES ASSUME NEW u \in DupThreads, u # t PROVE Sourced(u)'
    BY DEF Provenance, SlotHolds
  <2>1. Sourced(u) /\ dupCalls'[u] = dupCalls[u]
    BY DEF DupInv, Provenance
  <2>2. dupCalls[u].pc \in Counting /\ Told(u) => Told(u)'
    <3>1. dupCalls[u].count \in Nat /\ dupSlot.closes \in Nat /\ dupSlot'.closes \in Nat
      BY DEF DupInv, DupType, CallType, SlotType
    <3> QED
      BY <2>1, <3>1 DEF DupInv, CountsArePast, Told
  <2>3. dupCalls[u].pc = "deliver" => dupSlot'.socket = dupSlot.socket
    BY <1>4 DEF Holding
  <2> QED
    BY <2>1, <2>2, <2>3 DEF Sourced, Counting, OfSocket
<1>6. Undelivered'
  <2>1. OneBearer'
    <3>1. \A u \in DupThreads : dupCalls[u].pc \in Received =>
             dupCalls[u].payload.n \in Nat /\ dupCalls[u].payload.n <= dupFiles.sent
      BY DEF DupInv, Undelivered, Kept, DupType, FilesType
    <3>2. dupFiles.sent \in Nat
      BY DEF DupInv, DupType, FilesType
    <3> QED
      BY <3>1, <3>2 DEF DupInv, Undelivered, OneBearer, Bears
  <2>2. ASSUME NEW u \in DupThreads, u # t PROVE Kept(u)'
    <3>1. Kept(u) /\ dupCalls'[u] = dupCalls[u]
      BY <2>2 DEF DupInv, Undelivered
    <3>2. dupCalls[u].pc \in {"identity", "deliver"} => Fresh'
      BY <2>2, <3>1, <1>4 DEF Kept, Fresh, NotReplayed, Holding
    <3>3. ASSUME dupCalls[u].pc \in Received
          PROVE  /\ dupCalls[u].payload.n \in 1 .. dupFiles'.sent
                 /\ NotReplayed(dupCalls[u].payload.n)'
      BY <3>1, <3>3 DEF Kept, NotReplayed, DupInv, DupType, FilesType
    <3>4. ASSUME dupCalls[u].pc \in Received, dupCalls[u].pc \in Filed
          PROVE  dupSlot'.data = dupCalls[u].payload
      BY <3>1, <3>4, <2>2, <1>4 DEF Kept, Filed, Holding
    <3>5. ASSUME dupCalls[u].pc \in Received, dupCalls[u].pc \notin Filed
          PROVE  dupSlot'.data.n # dupCalls[u].payload.n
      <4>1. dupCalls[u].payload.n # 0 /\ dupSlot.data.n # dupCalls[u].payload.n
        BY <3>1, <3>5 DEF Kept
      <4>2. dupCalls[t].pc \in Received => dupCalls[t].payload.n # dupCalls[u].payload.n
        BY <2>2, <3>5 DEF DupInv, Undelivered, OneBearer
      <4> QED
        BY <4>1, <4>2, PayloadsType DEF Fills
    <3> QED
      BY <3>1, <3>2, <3>3, <3>4, <3>5 DEF Kept
  <2> QED
    BY <2>1, <2>2 DEF Undelivered, SlotHolds
<1>7. Delivered' /\ ReplaysAreOwn'
  <2>1. \A i \in DOMAIN dupReplays : dupReplays[i].payload.n \in Nat
    BY DEF DupInv, Delivered
  <2>2. dupFiles.sent \in Nat /\ dupFiles'.sent \in Nat
    BY DEF DupInv, DupType, FilesType
  <2> QED
    BY <2>1, <2>2 DEF DupInv, Delivered, ReplaysAreOwn
<1> QED
  BY <1>1, <1>2, <1>3, <1>5, <1>6, <1>7 DEF DupInv

(* What the actions' proofs take from the invariant.                        *)
LEMMA Numbers ==
  ASSUME DupInv
  PROVE  /\ dupSlot.closes \in Nat /\ dupSlot.closes + 1 \in Nat
         /\ dupFiles.sent \in Nat /\ dupFiles.sent + 1 \in Nat
         /\ dupFiles.sent + 1 \in 1 .. dupFiles.sent + 1
         /\ dupSlot.data.n \in Nat /\ dupSlot.data.n # dupFiles.sent + 1
         /\ NotReplayed(dupFiles.sent + 1)
<1>1. dupSlot.closes \in Nat /\ dupFiles.sent \in Nat /\ dupSlot.data.n \in Nat
  BY DEF DupInv, DupType, SlotType, FilesType, Payloads
<1>2. dupSlot.data.n <= dupFiles.sent
  BY DEF DupInv, Undelivered
<1>3. NotReplayed(dupFiles.sent + 1)
  BY <1>1 DEF DupInv, Delivered, NotReplayed
<1> QED
  BY <1>1, <1>2, <1>3

LEMMA Facts ==
  ASSUME DupInv, NEW t \in DupThreads
  PROVE  /\ dupCalls[t] \in CallType /\ dupSlot \in SlotType /\ dupFiles \in FilesType
         /\ dupCalls[t].pc \in Holding => dupSlot.lock = 1
         /\ dupSlot.lock \in {0, 1}
         /\ Counts(t) /\ SlotHolds /\ Sourced(t) /\ Kept(t)
  BY DEF DupInv, DupType, SlotType, OneHolder, CountsArePast, Counts, SlotHolds, Provenance,
     Undelivered

LEMMA CallMoves ==
  ASSUME DupInv, NEW t \in DupThreads, NEW c \in CallType,
         dupCalls' = [dupCalls EXCEPT ![t] = c]
  PROVE  /\ dupCalls' \in [DupThreads -> CallType] /\ dupCalls'[t] = c
         /\ \A u \in DupThreads : u # t => dupCalls'[u] = dupCalls[u]
  BY DEF DupInv, DupType

LEMMA LockToReplayKeeps ==
  ASSUME DupInv, NEW t \in DupThreads, LockToReplay(t)
  PROVE  DupInv'
<1>a. /\ dupCalls[t].pc = "replay"
      /\ dupFiles' = dupFiles /\ dupReplays' = dupReplays
  BY DEF LockToReplay, At, KernelKeeps
<1>b. /\ dupCalls[t] \in CallType /\ dupSlot \in SlotType /\ dupFiles \in FilesType
      /\ (dupCalls[t].pc \in Holding => dupSlot.lock = 1) /\ dupSlot.lock \in {0, 1}
      /\ Counts(t) /\ SlotHolds /\ Sourced(t) /\ Kept(t)
  BY Facts
<1>1. CASE Goes(t, "sample") /\ UNCHANGED dupSlot
  <2> DEFINE moved == [dupCalls[t] EXCEPT !.pc = "sample"]
  <2>c. moved \in CallType
    BY <1>a, <1>b, PayloadsType DEF CallType, DupLabels
  <2>u. dupCalls' = [dupCalls EXCEPT ![t] = moved]
    BY <1>a, <1>1 DEF LockToReplay, Goes, Ends, Identity
  <2>s. dupSlot' = dupSlot
    BY <1>a, <1>1 DEF LockToReplay
  <2>d. /\ dupCalls' \in [DupThreads -> CallType] /\ dupCalls'[t] = moved
        /\ \A u \in DupThreads : u # t => dupCalls'[u] = dupCalls[u]
    BY <2>c, <2>u, CallMoves
  <2>e. /\ dupCalls'[t].pc = "sample" /\ dupCalls'[t].fd = dupCalls[t].fd
        /\ dupCalls'[t].count = dupCalls[t].count /\ dupCalls'[t].socket = dupCalls[t].socket
        /\ dupCalls'[t].payload = dupCalls[t].payload
    BY <1>b, <2>d, PayloadsType DEF CallType, Payloads
  <2>1. Frame(t)
    BY <1>a, <1>b, <2>d, <2>s DEF Frame, SlotType, FilesType
  <2>2. Locks(t) /\ Counts(t)' /\ Fills(t) /\ Bears(t)
    BY <1>a, <1>b, <1>1, <2>e, <2>s DEF Locks, Counts, Fills, Bears, Holding, Received, Counting,
       SlotType
  <2>3. SlotHolds'
    BY <1>a, <1>b, <1>1, <2>e, <2>s, PayloadsType DEF SlotHolds, Counts, Sourced, OfSocket, Kept,
       Fresh, NotReplayed, Received, Filed, FilesType
  <2>4. Sourced(t)' /\ Kept(t)'
    BY <1>a, <1>b, <1>1, <2>e, <2>s, PayloadsType DEF SlotHolds, Counts, Sourced, OfSocket, Told,
       Identity, Kept, Fresh, NotReplayed, Received, Filed
  <2> QED
    BY <2>1, <2>2, <2>3, <2>4, StepKeeps
<1>2. CASE Goes(t, "tag") /\ dupSlot.lock = 0 /\ dupSlot' = [dupSlot EXCEPT !.lock = 1]
  <2> DEFINE moved == [dupCalls[t] EXCEPT !.pc = "tag"]
  <2>c. moved \in CallType
    BY <1>a, <1>b, PayloadsType DEF CallType, DupLabels
  <2>u. dupCalls' = [dupCalls EXCEPT ![t] = moved]
    BY <1>a, <1>2 DEF LockToReplay, Goes, Ends, Identity
  <2>s. dupSlot' = [dupSlot EXCEPT !.lock = 1]
    BY <1>a, <1>2 DEF LockToReplay
  <2>d. /\ dupCalls' \in [DupThreads -> CallType] /\ dupCalls'[t] = moved
        /\ \A u \in DupThreads : u # t => dupCalls'[u] = dupCalls[u]
    BY <2>c, <2>u, CallMoves
  <2>e. /\ dupCalls'[t].pc = "tag" /\ dupCalls'[t].fd = dupCalls[t].fd
        /\ dupCalls'[t].count = dupCalls[t].count /\ dupCalls'[t].socket = dupCalls[t].socket
        /\ dupCalls'[t].payload = dupCalls[t].payload
    BY <1>b, <2>d, PayloadsType DEF CallType, Payloads
  <2>f. /\ dupSlot' \in SlotType /\ dupSlot'.mapped = dupSlot.mapped /\ dupSlot'.lock = 1
        /\ dupSlot'.fd = dupSlot.fd /\ dupSlot'.closes = dupSlot.closes
        /\ dupSlot'.socket = dupSlot.socket /\ dupSlot'.data = dupSlot.data
    BY <1>a, <1>b, <2>s, PayloadsType DEF Counts, SlotType, CallType
  <2>1. Frame(t)
    BY <1>a, <1>b, <2>d, <2>f DEF Frame, SlotType, FilesType
  <2>2. Locks(t) /\ Counts(t)' /\ Fills(t) /\ Bears(t)
    BY <1>a, <1>b, <1>2, <2>e, <2>f DEF Locks, Counts, Fills, Bears, Holding, Received, Counting,
       SlotType
  <2>3. SlotHolds'
    BY <1>a, <1>b, <1>2, <2>e, <2>f, PayloadsType DEF SlotHolds, Counts, Sourced, OfSocket, Kept,
       Fresh, NotReplayed, Received, Filed, FilesType
  <2>4. Sourced(t)' /\ Kept(t)'
    BY <1>a, <1>b, <1>2, <2>e, <2>f, PayloadsType DEF SlotHolds, Counts, Sourced, OfSocket, Told,
       Identity, Kept, Fresh, NotReplayed, Received, Filed
  <2> QED
    BY <2>1, <2>2, <2>3, <2>4, StepKeeps
<1> QED
  BY <1>a, <1>1, <1>2 DEF LockToReplay, Goes, Ends, At

LEMMA CheckTagKeeps ==
  ASSUME DupInv, NEW t \in DupThreads, CheckTag(t)
  PROVE  DupInv'
<1>a. /\ dupCalls[t].pc = "tag"
      /\ dupFiles' = dupFiles /\ dupReplays' = dupReplays
  BY DEF CheckTag, At, KernelKeeps
<1>b. /\ dupCalls[t] \in CallType /\ dupSlot \in SlotType /\ dupFiles \in FilesType
      /\ (dupCalls[t].pc \in Holding => dupSlot.lock = 1) /\ dupSlot.lock \in {0, 1}
      /\ Counts(t) /\ SlotHolds /\ Sourced(t) /\ Kept(t)
  BY Facts
<1>1. CASE dupSlot.fd = dupCalls[t].fd
  <2> DEFINE moved == [dupCalls[t] EXCEPT !.pc = "identity"]
  <2>c. moved \in CallType
    BY <1>a, <1>b, PayloadsType DEF CallType, DupLabels
  <2>u. dupCalls' = [dupCalls EXCEPT ![t] = moved]
    BY <1>a, <1>1 DEF CheckTag, Goes, Ends, Identity
  <2>s. dupSlot' = dupSlot
    BY <1>a, <1>1 DEF CheckTag
  <2>d. /\ dupCalls' \in [DupThreads -> CallType] /\ dupCalls'[t] = moved
        /\ \A u \in DupThreads : u # t => dupCalls'[u] = dupCalls[u]
    BY <2>c, <2>u, CallMoves
  <2>e. /\ dupCalls'[t].pc = "identity" /\ dupCalls'[t].fd = dupCalls[t].fd
        /\ dupCalls'[t].count = dupCalls[t].count /\ dupCalls'[t].socket = dupCalls[t].socket
        /\ dupCalls'[t].payload = dupCalls[t].payload
    BY <1>b, <2>d, PayloadsType DEF CallType, Payloads
  <2>1. Frame(t)
    BY <1>a, <1>b, <2>d, <2>s DEF Frame, SlotType, FilesType
  <2>2. Locks(t) /\ Counts(t)' /\ Fills(t) /\ Bears(t)
    BY <1>a, <1>b, <1>1, <2>e, <2>s DEF Locks, Counts, Fills, Bears, Holding, Received, Counting,
       SlotType
  <2>3. SlotHolds'
    BY <1>a, <1>b, <1>1, <2>e, <2>s, PayloadsType DEF SlotHolds, Counts, Sourced, OfSocket, Kept,
       Fresh, NotReplayed, Received, Filed, FilesType
  <2>4. Sourced(t)' /\ Kept(t)'
    BY <1>a, <1>b, <1>1, <2>e, <2>s, PayloadsType DEF SlotHolds, Counts, Sourced, OfSocket, Told,
       Identity, Kept, Fresh, NotReplayed, Received, Filed
  <2> QED
    BY <2>1, <2>2, <2>3, <2>4, StepKeeps
<1>2. CASE dupSlot.fd # dupCalls[t].fd
  <2> DEFINE moved == [dupCalls[t] EXCEPT !.pc = "sample"]
  <2>c. moved \in CallType
    BY <1>a, <1>b, PayloadsType DEF CallType, DupLabels
  <2>u. dupCalls' = [dupCalls EXCEPT ![t] = moved]
    BY <1>a, <1>2 DEF CheckTag, Goes, Ends, Identity
  <2>s. dupSlot' = [dupSlot EXCEPT !.lock = 0]
    BY <1>a, <1>2 DEF CheckTag
  <2>d. /\ dupCalls' \in [DupThreads -> CallType] /\ dupCalls'[t] = moved
        /\ \A u \in DupThreads : u # t => dupCalls'[u] = dupCalls[u]
    BY <2>c, <2>u, CallMoves
  <2>e. /\ dupCalls'[t].pc = "sample" /\ dupCalls'[t].fd = dupCalls[t].fd
        /\ dupCalls'[t].count = dupCalls[t].count /\ dupCalls'[t].socket = dupCalls[t].socket
        /\ dupCalls'[t].payload = dupCalls[t].payload
    BY <1>b, <2>d, PayloadsType DEF CallType, Payloads
  <2>f. /\ dupSlot' \in SlotType /\ dupSlot'.mapped = dupSlot.mapped /\ dupSlot'.lock = 0
        /\ dupSlot'.fd = dupSlot.fd /\ dupSlot'.closes = dupSlot.closes
        /\ dupSlot'.socket = dupSlot.socket /\ dupSlot'.data = dupSlot.data
    BY <1>a, <1>b, <2>s, PayloadsType DEF Counts, SlotType, CallType
  <2>1. Frame(t)
    BY <1>a, <1>b, <2>d, <2>f DEF Frame, SlotType, FilesType
  <2>2. Locks(t) /\ Counts(t)' /\ Fills(t) /\ Bears(t)
    BY <1>a, <1>b, <1>2, <2>e, <2>f DEF Locks, Counts, Fills, Bears, Holding, Received, Counting,
       SlotType
  <2>3. SlotHolds'
    BY <1>a, <1>b, <1>2, <2>e, <2>f, PayloadsType DEF SlotHolds, Counts, Sourced, OfSocket, Kept,
       Fresh, NotReplayed, Received, Filed, FilesType
  <2>4. Sourced(t)' /\ Kept(t)'
    BY <1>a, <1>b, <1>2, <2>e, <2>f, PayloadsType DEF SlotHolds, Counts, Sourced, OfSocket, Told,
       Identity, Kept, Fresh, NotReplayed, Received, Filed
  <2> QED
    BY <2>1, <2>2, <2>3, <2>4, StepKeeps
<1> QED
  BY <1>a, <1>1, <1>2 DEF CheckTag, Goes, Ends, At

LEMMA CheckIdentityKeeps ==
  ASSUME DupInv, NEW t \in DupThreads, CheckIdentity(t)
  PROVE  DupInv'
<1>a. /\ dupCalls[t].pc = "identity"
      /\ dupFiles' = dupFiles /\ dupReplays' = dupReplays
  BY DEF CheckIdentity, At, KernelKeeps
<1>b. /\ dupCalls[t] \in CallType /\ dupSlot \in SlotType /\ dupFiles \in FilesType
      /\ (dupCalls[t].pc \in Holding => dupSlot.lock = 1) /\ dupSlot.lock \in {0, 1}
      /\ Counts(t) /\ SlotHolds /\ Sourced(t) /\ Kept(t)
  BY Facts
<1>1. CASE dupSlot.socket = Identity(dupCalls[t].fd)
  <2> DEFINE moved == [dupCalls[t] EXCEPT !.pc = "deliver", !.socket = dupFiles.open[dupCalls[t].fd]]
  <2>c. moved \in CallType
    BY <1>a, <1>b, PayloadsType DEF CallType, DupLabels, Counts, FilesType
  <2>u. dupCalls' = [dupCalls EXCEPT ![t] = moved]
    BY <1>a, <1>1 DEF CheckIdentity, Goes, Ends, Identity
  <2>s. dupSlot' = dupSlot
    BY <1>a, <1>1 DEF CheckIdentity
  <2>d. /\ dupCalls' \in [DupThreads -> CallType] /\ dupCalls'[t] = moved
        /\ \A u \in DupThreads : u # t => dupCalls'[u] = dupCalls[u]
    BY <2>c, <2>u, CallMoves
  <2>e. /\ dupCalls'[t].pc = "deliver" /\ dupCalls'[t].fd = dupCalls[t].fd
        /\ dupCalls'[t].count = dupCalls[t].count
        /\ dupCalls'[t].socket = dupFiles.open[dupCalls[t].fd]
        /\ dupCalls'[t].payload = dupCalls[t].payload
    BY <1>b, <2>d, PayloadsType DEF CallType, Payloads
  <2>1. Frame(t)
    BY <1>a, <1>b, <2>d, <2>s DEF Frame, SlotType, FilesType
  <2>2. Locks(t) /\ Counts(t)' /\ Fills(t) /\ Bears(t)
    BY <1>a, <1>b, <1>1, <2>e, <2>s DEF Locks, Counts, Fills, Bears, Holding, Received, Counting,
       SlotType
  <2>3. SlotHolds'
    BY <1>a, <1>b, <1>1, <2>e, <2>s, PayloadsType DEF SlotHolds, Counts, Sourced, OfSocket, Kept,
       Fresh, NotReplayed, Received, Filed, FilesType
  <2>4. Sourced(t)' /\ Kept(t)'
    BY <1>a, <1>b, <1>1, <2>e, <2>s, PayloadsType DEF SlotHolds, Counts, Sourced, OfSocket, Told,
       Identity, Kept, Fresh, NotReplayed, Received, Filed
  <2> QED
    BY <2>1, <2>2, <2>3, <2>4, StepKeeps
<1>2. CASE dupSlot.socket # Identity(dupCalls[t].fd)
  <2> DEFINE moved == [dupCalls[t] EXCEPT !.pc = "sample"]
  <2>c. moved \in CallType
    BY <1>a, <1>b, PayloadsType DEF CallType, DupLabels
  <2>u. dupCalls' = [dupCalls EXCEPT ![t] = moved]
    BY <1>a, <1>2 DEF CheckIdentity, Goes, Ends, Identity
  <2>s. dupSlot' = [dupSlot EXCEPT !.fd = NoOwner, !.lock = 0]
    BY <1>a, <1>2 DEF CheckIdentity
  <2>d. /\ dupCalls' \in [DupThreads -> CallType] /\ dupCalls'[t] = moved
        /\ \A u \in DupThreads : u # t => dupCalls'[u] = dupCalls[u]
    BY <2>c, <2>u, CallMoves
  <2>e. /\ dupCalls'[t].pc = "sample" /\ dupCalls'[t].fd = dupCalls[t].fd
        /\ dupCalls'[t].count = dupCalls[t].count /\ dupCalls'[t].socket = dupCalls[t].socket
        /\ dupCalls'[t].payload = dupCalls[t].payload
    BY <1>b, <2>d, PayloadsType DEF CallType, Payloads
  <2>f. /\ dupSlot' \in SlotType /\ dupSlot'.mapped = dupSlot.mapped /\ dupSlot'.lock = 0
        /\ dupSlot'.fd = NoOwner /\ dupSlot'.closes = dupSlot.closes
        /\ dupSlot'.socket = dupSlot.socket /\ dupSlot'.data = dupSlot.data
    BY <1>a, <1>b, <2>s, PayloadsType DEF Counts, SlotType, CallType
  <2>1. Frame(t)
    BY <1>a, <1>b, <2>d, <2>f DEF Frame, SlotType, FilesType
  <2>2. Locks(t) /\ Counts(t)' /\ Fills(t) /\ Bears(t)
    BY <1>a, <1>b, <1>2, <2>e, <2>f DEF Locks, Counts, Fills, Bears, Holding, Received, Counting,
       SlotType
  <2>3. SlotHolds'
    BY <1>a, <1>b, <1>2, <2>e, <2>f, PayloadsType DEF SlotHolds, Counts, Sourced, OfSocket, Kept,
       Fresh, NotReplayed, Received, Filed, FilesType
  <2>4. Sourced(t)' /\ Kept(t)'
    BY <1>a, <1>b, <1>2, <2>e, <2>f, PayloadsType DEF SlotHolds, Counts, Sourced, OfSocket, Told,
       Identity, Kept, Fresh, NotReplayed, Received, Filed
  <2> QED
    BY <2>1, <2>2, <2>3, <2>4, StepKeeps
<1> QED
  BY <1>a, <1>1, <1>2 DEF CheckIdentity, Goes, Ends, At

LEMMA SampleClosesKeeps ==
  ASSUME DupInv, NEW t \in DupThreads, SampleCloses(t)
  PROVE  DupInv'
<1>a. /\ dupCalls[t].pc = "sample"
      /\ dupFiles' = dupFiles /\ dupReplays' = dupReplays
  BY DEF SampleCloses, At, KernelKeeps
<1>b. /\ dupCalls[t] \in CallType /\ dupSlot \in SlotType /\ dupFiles \in FilesType
      /\ (dupCalls[t].pc \in Holding => dupSlot.lock = 1) /\ dupSlot.lock \in {0, 1}
      /\ Counts(t) /\ SlotHolds /\ Sourced(t) /\ Kept(t)
  BY Facts
<1>n. /\ dupSlot.closes \in Nat /\ dupSlot.closes + 1 \in Nat
      /\ dupFiles.sent \in Nat /\ dupFiles.sent + 1 \in Nat
      /\ dupFiles.sent + 1 \in 1 .. dupFiles.sent + 1
      /\ dupSlot.data.n \in Nat /\ dupSlot.data.n # dupFiles.sent + 1
      /\ NotReplayed(dupFiles.sent + 1)
  BY Numbers
<1> DEFINE moved == [dupCalls[t] EXCEPT !.pc = "call", !.count = dupSlot.closes]
<1>c. moved \in CallType
  BY <1>a, <1>b, <1>n, PayloadsType DEF CallType, DupLabels
<1>u. dupCalls' = [dupCalls EXCEPT ![t] = moved]
  BY <1>a DEF SampleCloses, Goes, Ends, Identity
<1>s. dupSlot' = [dupSlot EXCEPT !.mapped = TRUE]
  BY <1>a DEF SampleCloses
<1>d. /\ dupCalls' \in [DupThreads -> CallType] /\ dupCalls'[t] = moved
      /\ \A u \in DupThreads : u # t => dupCalls'[u] = dupCalls[u]
  BY <1>c, <1>u, CallMoves
<1>e. /\ dupCalls'[t].pc = "call" /\ dupCalls'[t].fd = dupCalls[t].fd
      /\ dupCalls'[t].count = dupSlot.closes /\ dupCalls'[t].socket = dupCalls[t].socket
      /\ dupCalls'[t].payload = dupCalls[t].payload
  BY <1>b, <1>d, PayloadsType DEF CallType, Payloads
<1>f. /\ dupSlot' \in SlotType /\ dupSlot'.mapped = TRUE /\ dupSlot'.lock = dupSlot.lock
      /\ dupSlot'.fd = dupSlot.fd /\ dupSlot'.closes = dupSlot.closes
      /\ dupSlot'.socket = dupSlot.socket /\ dupSlot'.data = dupSlot.data
  BY <1>a, <1>b, <1>s, PayloadsType DEF Counts, SlotType, CallType
<1>1. Frame(t)
  BY <1>a, <1>b, <1>n, <1>d, <1>f DEF Frame, SlotType, FilesType
<1>2. Locks(t) /\ Counts(t)' /\ Fills(t) /\ Bears(t)
  BY <1>a, <1>b, <1>n, <1>e, <1>f DEF Locks, Counts, Fills, Bears, Holding, Received, Counting,
     SlotType
<1>3. SlotHolds'
  BY <1>a, <1>b, <1>n, <1>e, <1>f, PayloadsType DEF SlotHolds, Counts, Sourced, OfSocket, Kept,
     Fresh, NotReplayed, Received, Filed, FilesType
<1>4. Sourced(t)' /\ Kept(t)'
  BY <1>a, <1>b, <1>n, <1>e, <1>f, PayloadsType DEF SlotHolds, Counts, Sourced, OfSocket, Told,
     Identity, Kept, Fresh, NotReplayed, Received, Filed
<1> QED
  BY <1>1, <1>2, <1>3, <1>4, StepKeeps

LEMMA EnterReceiveKeeps ==
  ASSUME DupInv, NEW t \in DupThreads, EnterReceive(t)
  PROVE  DupInv'
<1>a. /\ dupCalls[t].pc = "call"
      /\ dupFiles' = dupFiles /\ dupReplays' = dupReplays
  BY DEF EnterReceive, At, KernelKeeps
<1>b. /\ dupCalls[t] \in CallType /\ dupSlot \in SlotType /\ dupFiles \in FilesType
      /\ (dupCalls[t].pc \in Holding => dupSlot.lock = 1) /\ dupSlot.lock \in {0, 1}
      /\ Counts(t) /\ SlotHolds /\ Sourced(t) /\ Kept(t)
  BY Facts
<1>1. CASE Identity(dupCalls[t].fd) = 0
  <2> DEFINE moved == IdleCall
  <2>c. moved \in CallType
    BY <1>a, <1>b, PayloadsType DEF CallType, DupLabels
  <2>u. dupCalls' = [dupCalls EXCEPT ![t] = moved]
    BY <1>a, <1>1 DEF EnterReceive, Goes, Ends, Identity
  <2>s. dupSlot' = dupSlot
    BY <1>a, <1>1 DEF EnterReceive
  <2>d. /\ dupCalls' \in [DupThreads -> CallType] /\ dupCalls'[t] = moved
        /\ \A u \in DupThreads : u # t => dupCalls'[u] = dupCalls[u]
    BY <2>c, <2>u, CallMoves
  <2>e. dupCalls'[t].pc = "idle" /\ dupCalls'[t].count = 0
    BY <1>b, <2>d, PayloadsType DEF CallType, Payloads
  <2>1. Frame(t)
    BY <1>a, <1>b, <2>d, <2>s DEF Frame, SlotType, FilesType
  <2>2. Locks(t) /\ Counts(t)' /\ Fills(t) /\ Bears(t)
    BY <1>a, <1>b, <1>1, <2>e, <2>s DEF Locks, Counts, Fills, Bears, Holding, Received, Counting,
       SlotType
  <2>3. SlotHolds'
    BY <1>a, <1>b, <1>1, <2>e, <2>s, PayloadsType DEF SlotHolds, Counts, Sourced, OfSocket, Kept,
       Fresh, NotReplayed, Received, Filed, FilesType
  <2>4. Sourced(t)' /\ Kept(t)'
    BY <1>a, <1>b, <1>1, <2>e, <2>s, PayloadsType DEF SlotHolds, Counts, Sourced, OfSocket, Told,
       Identity, Kept, Fresh, NotReplayed, Received, Filed
  <2> QED
    BY <2>1, <2>2, <2>3, <2>4, StepKeeps
<1>2. CASE Identity(dupCalls[t].fd) # 0
  <2> DEFINE moved == [dupCalls[t] EXCEPT !.pc = "blocked", !.payload.from = dupFiles.open[dupCalls[t].fd]]
  <2>c. moved \in CallType
    BY <1>a, <1>b, PayloadsType DEF CallType, DupLabels, Counts, FilesType, Payloads
  <2>u. dupCalls' = [dupCalls EXCEPT ![t] = moved]
    BY <1>a, <1>2 DEF EnterReceive, Goes, Ends, Identity
  <2>s. dupSlot' = dupSlot
    BY <1>a, <1>2 DEF EnterReceive
  <2>d. /\ dupCalls' \in [DupThreads -> CallType] /\ dupCalls'[t] = moved
        /\ \A u \in DupThreads : u # t => dupCalls'[u] = dupCalls[u]
    BY <2>c, <2>u, CallMoves
  <2>e. /\ dupCalls'[t].pc = "blocked" /\ dupCalls'[t].fd = dupCalls[t].fd
        /\ dupCalls'[t].count = dupCalls[t].count /\ dupCalls'[t].socket = dupCalls[t].socket
        /\ dupCalls'[t].payload.from = dupFiles.open[dupCalls[t].fd]
        /\ dupCalls'[t].payload.n = dupCalls[t].payload.n
        /\ dupCalls'[t].payload.loose = dupCalls[t].payload.loose
    BY <1>b, <2>d, PayloadsType DEF CallType, Payloads
  <2>1. Frame(t)
    BY <1>a, <1>b, <2>d, <2>s DEF Frame, SlotType, FilesType
  <2>2. Locks(t) /\ Counts(t)' /\ Fills(t) /\ Bears(t)
    BY <1>a, <1>b, <1>2, <2>e, <2>s DEF Locks, Counts, Fills, Bears, Holding, Received, Counting,
       SlotType
  <2>3. SlotHolds'
    BY <1>a, <1>b, <1>2, <2>e, <2>s, PayloadsType DEF SlotHolds, Counts, Sourced, OfSocket, Kept,
       Fresh, NotReplayed, Received, Filed, FilesType
  <2>4. Sourced(t)' /\ Kept(t)'
    BY <1>a, <1>b, <1>2, <2>e, <2>s, PayloadsType DEF SlotHolds, Counts, Sourced, OfSocket, Told,
       Identity, Kept, Fresh, NotReplayed, Received, Filed
  <2> QED
    BY <2>1, <2>2, <2>3, <2>4, StepKeeps
<1> QED
  BY <1>a, <1>1, <1>2 DEF EnterReceive, Goes, Ends, At

LEMMA IdentifyReceivedKeeps ==
  ASSUME DupInv, NEW t \in DupThreads, IdentifyReceived(t)
  PROVE  DupInv'
<1>a. /\ dupCalls[t].pc = "identify"
      /\ dupFiles' = dupFiles /\ dupReplays' = dupReplays
  BY DEF IdentifyReceived, At, KernelKeeps
<1>b. /\ dupCalls[t] \in CallType /\ dupSlot \in SlotType /\ dupFiles \in FilesType
      /\ (dupCalls[t].pc \in Holding => dupSlot.lock = 1) /\ dupSlot.lock \in {0, 1}
      /\ Counts(t) /\ SlotHolds /\ Sourced(t) /\ Kept(t)
  BY Facts
<1>1. CASE Identity(dupCalls[t].fd) = 0
  <2> DEFINE moved == IdleCall
  <2>c. moved \in CallType
    BY <1>a, <1>b, PayloadsType DEF CallType, DupLabels
  <2>u. dupCalls' = [dupCalls EXCEPT ![t] = moved]
    BY <1>a, <1>1 DEF IdentifyReceived, Goes, Ends, Identity
  <2>s. dupSlot' = dupSlot
    BY <1>a, <1>1 DEF IdentifyReceived
  <2>d. /\ dupCalls' \in [DupThreads -> CallType] /\ dupCalls'[t] = moved
        /\ \A u \in DupThreads : u # t => dupCalls'[u] = dupCalls[u]
    BY <2>c, <2>u, CallMoves
  <2>e. dupCalls'[t].pc = "idle" /\ dupCalls'[t].count = 0
    BY <1>b, <2>d, PayloadsType DEF CallType, Payloads
  <2>1. Frame(t)
    BY <1>a, <1>b, <2>d, <2>s DEF Frame, SlotType, FilesType
  <2>2. Locks(t) /\ Counts(t)' /\ Fills(t) /\ Bears(t)
    BY <1>a, <1>b, <1>1, <2>e, <2>s DEF Locks, Counts, Fills, Bears, Holding, Received, Counting,
       SlotType
  <2>3. SlotHolds'
    BY <1>a, <1>b, <1>1, <2>e, <2>s, PayloadsType DEF SlotHolds, Counts, Sourced, OfSocket, Kept,
       Fresh, NotReplayed, Received, Filed, FilesType
  <2>4. Sourced(t)' /\ Kept(t)'
    BY <1>a, <1>b, <1>1, <2>e, <2>s, PayloadsType DEF SlotHolds, Counts, Sourced, OfSocket, Told,
       Identity, Kept, Fresh, NotReplayed, Received, Filed
  <2> QED
    BY <2>1, <2>2, <2>3, <2>4, StepKeeps
<1>2. CASE Identity(dupCalls[t].fd) # 0
  <2> DEFINE moved == [dupCalls[t] EXCEPT !.pc = "store", !.socket = dupFiles.open[dupCalls[t].fd]]
  <2>c. moved \in CallType
    BY <1>a, <1>b, PayloadsType DEF CallType, DupLabels, Counts, FilesType
  <2>u. dupCalls' = [dupCalls EXCEPT ![t] = moved]
    BY <1>a, <1>2 DEF IdentifyReceived, Goes, Ends, Identity
  <2>s. dupSlot' = dupSlot
    BY <1>a, <1>2 DEF IdentifyReceived
  <2>d. /\ dupCalls' \in [DupThreads -> CallType] /\ dupCalls'[t] = moved
        /\ \A u \in DupThreads : u # t => dupCalls'[u] = dupCalls[u]
    BY <2>c, <2>u, CallMoves
  <2>e. /\ dupCalls'[t].pc = "store" /\ dupCalls'[t].fd = dupCalls[t].fd
        /\ dupCalls'[t].count = dupCalls[t].count
        /\ dupCalls'[t].socket = dupFiles.open[dupCalls[t].fd]
        /\ dupCalls'[t].payload = dupCalls[t].payload
    BY <1>b, <2>d, PayloadsType DEF CallType, Payloads
  <2>1. Frame(t)
    BY <1>a, <1>b, <2>d, <2>s DEF Frame, SlotType, FilesType
  <2>2. Locks(t) /\ Counts(t)' /\ Fills(t) /\ Bears(t)
    BY <1>a, <1>b, <1>2, <2>e, <2>s DEF Locks, Counts, Fills, Bears, Holding, Received, Counting,
       SlotType
  <2>3. SlotHolds'
    BY <1>a, <1>b, <1>2, <2>e, <2>s, PayloadsType DEF SlotHolds, Counts, Sourced, OfSocket, Kept,
       Fresh, NotReplayed, Received, Filed, FilesType
  <2>4. Sourced(t)' /\ Kept(t)'
    BY <1>a, <1>b, <1>2, <2>e, <2>s, PayloadsType DEF SlotHolds, Counts, Sourced, OfSocket, Told,
       Identity, Kept, Fresh, NotReplayed, Received, Filed
  <2> QED
    BY <2>1, <2>2, <2>3, <2>4, StepKeeps
<1> QED
  BY <1>a, <1>1, <1>2 DEF IdentifyReceived, Goes, Ends, At

LEMMA LockToStoreKeeps ==
  ASSUME DupInv, NEW t \in DupThreads, LockToStore(t)
  PROVE  DupInv'
<1>a. /\ dupCalls[t].pc = "store"
      /\ dupFiles' = dupFiles /\ dupReplays' = dupReplays
  BY DEF LockToStore, At, KernelKeeps
<1>b. /\ dupCalls[t] \in CallType /\ dupSlot \in SlotType /\ dupFiles \in FilesType
      /\ (dupCalls[t].pc \in Holding => dupSlot.lock = 1) /\ dupSlot.lock \in {0, 1}
      /\ Counts(t) /\ SlotHolds /\ Sourced(t) /\ Kept(t)
  BY Facts
<1>1. CASE dupSlot.lock = 1
  <2> DEFINE moved == IdleCall
  <2>c. moved \in CallType
    BY <1>a, <1>b, PayloadsType DEF CallType, DupLabels
  <2>u. dupCalls' = [dupCalls EXCEPT ![t] = moved]
    BY <1>a, <1>1 DEF LockToStore, Goes, Ends, Identity
  <2>s. dupSlot' = dupSlot
    BY <1>a, <1>1 DEF LockToStore
  <2>d. /\ dupCalls' \in [DupThreads -> CallType] /\ dupCalls'[t] = moved
        /\ \A u \in DupThreads : u # t => dupCalls'[u] = dupCalls[u]
    BY <2>c, <2>u, CallMoves
  <2>e. dupCalls'[t].pc = "idle" /\ dupCalls'[t].count = 0
    BY <1>b, <2>d, PayloadsType DEF CallType, Payloads
  <2>1. Frame(t)
    BY <1>a, <1>b, <2>d, <2>s DEF Frame, SlotType, FilesType
  <2>2. Locks(t) /\ Counts(t)' /\ Fills(t) /\ Bears(t)
    BY <1>a, <1>b, <1>1, <2>e, <2>s DEF Locks, Counts, Fills, Bears, Holding, Received, Counting,
       SlotType
  <2>3. SlotHolds'
    BY <1>a, <1>b, <1>1, <2>e, <2>s, PayloadsType DEF SlotHolds, Counts, Sourced, OfSocket, Kept,
       Fresh, NotReplayed, Received, Filed, FilesType
  <2>4. Sourced(t)' /\ Kept(t)'
    BY <1>a, <1>b, <1>1, <2>e, <2>s, PayloadsType DEF SlotHolds, Counts, Sourced, OfSocket, Told,
       Identity, Kept, Fresh, NotReplayed, Received, Filed
  <2> QED
    BY <2>1, <2>2, <2>3, <2>4, StepKeeps
<1>2. CASE dupSlot.lock # 1
  <2> DEFINE moved == [dupCalls[t] EXCEPT !.pc = "counted"]
  <2>c. moved \in CallType
    BY <1>a, <1>b, PayloadsType DEF CallType, DupLabels
  <2>u. dupCalls' = [dupCalls EXCEPT ![t] = moved]
    BY <1>a, <1>2 DEF LockToStore, Goes, Ends, Identity
  <2>s. dupSlot' = [dupSlot EXCEPT !.lock = 1]
    BY <1>a, <1>2 DEF LockToStore
  <2>d. /\ dupCalls' \in [DupThreads -> CallType] /\ dupCalls'[t] = moved
        /\ \A u \in DupThreads : u # t => dupCalls'[u] = dupCalls[u]
    BY <2>c, <2>u, CallMoves
  <2>e. /\ dupCalls'[t].pc = "counted" /\ dupCalls'[t].fd = dupCalls[t].fd
        /\ dupCalls'[t].count = dupCalls[t].count /\ dupCalls'[t].socket = dupCalls[t].socket
        /\ dupCalls'[t].payload = dupCalls[t].payload
    BY <1>b, <2>d, PayloadsType DEF CallType, Payloads
  <2>f. /\ dupSlot' \in SlotType /\ dupSlot'.mapped = dupSlot.mapped /\ dupSlot'.lock = 1
        /\ dupSlot'.fd = dupSlot.fd /\ dupSlot'.closes = dupSlot.closes
        /\ dupSlot'.socket = dupSlot.socket /\ dupSlot'.data = dupSlot.data
    BY <1>a, <1>b, <2>s, PayloadsType DEF Counts, SlotType, CallType
  <2>1. Frame(t)
    BY <1>a, <1>b, <2>d, <2>f DEF Frame, SlotType, FilesType
  <2>2. Locks(t) /\ Counts(t)' /\ Fills(t) /\ Bears(t)
    BY <1>a, <1>b, <1>2, <2>e, <2>f DEF Locks, Counts, Fills, Bears, Holding, Received, Counting,
       SlotType
  <2>3. SlotHolds'
    BY <1>a, <1>b, <1>2, <2>e, <2>f, PayloadsType DEF SlotHolds, Counts, Sourced, OfSocket, Kept,
       Fresh, NotReplayed, Received, Filed, FilesType
  <2>4. Sourced(t)' /\ Kept(t)'
    BY <1>a, <1>b, <1>2, <2>e, <2>f, PayloadsType DEF SlotHolds, Counts, Sourced, OfSocket, Told,
       Identity, Kept, Fresh, NotReplayed, Received, Filed
  <2> QED
    BY <2>1, <2>2, <2>3, <2>4, StepKeeps
<1> QED
  BY <1>a, <1>1, <1>2 DEF LockToStore, Goes, Ends, At

LEMMA CheckClosesKeeps ==
  ASSUME DupInv, NEW t \in DupThreads, CheckCloses(t)
  PROVE  DupInv'
<1>a. /\ dupCalls[t].pc = "counted"
      /\ dupFiles' = dupFiles /\ dupReplays' = dupReplays
  BY DEF CheckCloses, At, KernelKeeps
<1>b. /\ dupCalls[t] \in CallType /\ dupSlot \in SlotType /\ dupFiles \in FilesType
      /\ (dupCalls[t].pc \in Holding => dupSlot.lock = 1) /\ dupSlot.lock \in {0, 1}
      /\ Counts(t) /\ SlotHolds /\ Sourced(t) /\ Kept(t)
  BY Facts
<1>1. CASE dupSlot.closes # dupCalls[t].count
  <2> DEFINE moved == IdleCall
  <2>c. moved \in CallType
    BY <1>a, <1>b, PayloadsType DEF CallType, DupLabels
  <2>u. dupCalls' = [dupCalls EXCEPT ![t] = moved]
    BY <1>a, <1>1 DEF CheckCloses, Goes, Ends, Identity
  <2>s. dupSlot' = [dupSlot EXCEPT !.lock = 0]
    BY <1>a, <1>1 DEF CheckCloses
  <2>d. /\ dupCalls' \in [DupThreads -> CallType] /\ dupCalls'[t] = moved
        /\ \A u \in DupThreads : u # t => dupCalls'[u] = dupCalls[u]
    BY <2>c, <2>u, CallMoves
  <2>e. dupCalls'[t].pc = "idle" /\ dupCalls'[t].count = 0
    BY <1>b, <2>d, PayloadsType DEF CallType, Payloads
  <2>f. /\ dupSlot' \in SlotType /\ dupSlot'.mapped = dupSlot.mapped /\ dupSlot'.lock = 0
        /\ dupSlot'.fd = dupSlot.fd /\ dupSlot'.closes = dupSlot.closes
        /\ dupSlot'.socket = dupSlot.socket /\ dupSlot'.data = dupSlot.data
    BY <1>a, <1>b, <2>s, PayloadsType DEF Counts, SlotType, CallType
  <2>1. Frame(t)
    BY <1>a, <1>b, <2>d, <2>f DEF Frame, SlotType, FilesType
  <2>2. Locks(t) /\ Counts(t)' /\ Fills(t) /\ Bears(t)
    BY <1>a, <1>b, <1>1, <2>e, <2>f DEF Locks, Counts, Fills, Bears, Holding, Received, Counting,
       SlotType
  <2>3. SlotHolds'
    BY <1>a, <1>b, <1>1, <2>e, <2>f, PayloadsType DEF SlotHolds, Counts, Sourced, OfSocket, Kept,
       Fresh, NotReplayed, Received, Filed, FilesType
  <2>4. Sourced(t)' /\ Kept(t)'
    BY <1>a, <1>b, <1>1, <2>e, <2>f, PayloadsType DEF SlotHolds, Counts, Sourced, OfSocket, Told,
       Identity, Kept, Fresh, NotReplayed, Received, Filed
  <2> QED
    BY <2>1, <2>2, <2>3, <2>4, StepKeeps
<1>2. CASE dupSlot.closes = dupCalls[t].count
  <2> DEFINE moved == [dupCalls[t] EXCEPT !.pc = "copy"]
  <2>c. moved \in CallType
    BY <1>a, <1>b, PayloadsType DEF CallType, DupLabels
  <2>u. dupCalls' = [dupCalls EXCEPT ![t] = moved]
    BY <1>a, <1>2 DEF CheckCloses, Goes, Ends, Identity
  <2>s. dupSlot' = [dupSlot EXCEPT !.data = Torn]
    BY <1>a, <1>2 DEF CheckCloses
  <2>d. /\ dupCalls' \in [DupThreads -> CallType] /\ dupCalls'[t] = moved
        /\ \A u \in DupThreads : u # t => dupCalls'[u] = dupCalls[u]
    BY <2>c, <2>u, CallMoves
  <2>e. /\ dupCalls'[t].pc = "copy" /\ dupCalls'[t].fd = dupCalls[t].fd
        /\ dupCalls'[t].count = dupCalls[t].count /\ dupCalls'[t].socket = dupCalls[t].socket
        /\ dupCalls'[t].payload = dupCalls[t].payload
    BY <1>b, <2>d, PayloadsType DEF CallType, Payloads
  <2>f. /\ dupSlot' \in SlotType /\ dupSlot'.mapped = dupSlot.mapped
        /\ dupSlot'.lock = dupSlot.lock /\ dupSlot'.fd = dupSlot.fd
        /\ dupSlot'.closes = dupSlot.closes /\ dupSlot'.socket = dupSlot.socket
        /\ dupSlot'.data = Torn
    BY <1>a, <1>b, <2>s, PayloadsType DEF Counts, SlotType, CallType
  <2>1. Frame(t)
    BY <1>a, <1>b, <2>d, <2>f DEF Frame, SlotType, FilesType
  <2>2. Locks(t) /\ Counts(t)' /\ Fills(t) /\ Bears(t)
    BY <1>a, <1>b, <1>2, <2>e, <2>f DEF Locks, Counts, Fills, Bears, Holding, Received, Counting,
       SlotType
  <2>3. SlotHolds'
    BY <1>a, <1>b, <1>2, <2>e, <2>f, PayloadsType DEF SlotHolds, Counts, Sourced, OfSocket, Kept,
       Fresh, NotReplayed, Received, Filed, FilesType
  <2>4. Sourced(t)' /\ Kept(t)'
    BY <1>a, <1>b, <1>2, <2>e, <2>f, PayloadsType DEF SlotHolds, Counts, Sourced, OfSocket, Told,
       Identity, Kept, Fresh, NotReplayed, Received, Filed
  <2> QED
    BY <2>1, <2>2, <2>3, <2>4, StepKeeps
<1> QED
  BY <1>a, <1>1, <1>2 DEF CheckCloses, Goes, Ends, At

LEMMA CopyPayloadKeeps ==
  ASSUME DupInv, NEW t \in DupThreads, CopyPayload(t)
  PROVE  DupInv'
<1>a. /\ dupCalls[t].pc = "copy"
      /\ dupFiles' = dupFiles /\ dupReplays' = dupReplays
  BY DEF CopyPayload, At, KernelKeeps
<1>b. /\ dupCalls[t] \in CallType /\ dupSlot \in SlotType /\ dupFiles \in FilesType
      /\ (dupCalls[t].pc \in Holding => dupSlot.lock = 1) /\ dupSlot.lock \in {0, 1}
      /\ Counts(t) /\ SlotHolds /\ Sourced(t) /\ Kept(t)
  BY Facts
<1> DEFINE moved == [dupCalls[t] EXCEPT !.pc = "label"]
<1>c. moved \in CallType
  BY <1>a, <1>b, PayloadsType DEF CallType, DupLabels
<1>u. dupCalls' = [dupCalls EXCEPT ![t] = moved]
  BY <1>a DEF CopyPayload, Goes, Ends, Identity
<1>s. dupSlot' = [dupSlot EXCEPT !.data = dupCalls[t].payload, !.socket = dupCalls[t].socket]
  BY <1>a DEF CopyPayload
<1>d. /\ dupCalls' \in [DupThreads -> CallType] /\ dupCalls'[t] = moved
      /\ \A u \in DupThreads : u # t => dupCalls'[u] = dupCalls[u]
  BY <1>c, <1>u, CallMoves
<1>e. /\ dupCalls'[t].pc = "label" /\ dupCalls'[t].fd = dupCalls[t].fd
      /\ dupCalls'[t].count = dupCalls[t].count /\ dupCalls'[t].socket = dupCalls[t].socket
      /\ dupCalls'[t].payload = dupCalls[t].payload
  BY <1>b, <1>d, PayloadsType DEF CallType, Payloads
<1>f. /\ dupSlot' \in SlotType /\ dupSlot'.mapped = dupSlot.mapped
      /\ dupSlot'.lock = dupSlot.lock /\ dupSlot'.fd = dupSlot.fd
      /\ dupSlot'.closes = dupSlot.closes /\ dupSlot'.socket = dupCalls[t].socket
      /\ dupSlot'.data = dupCalls[t].payload
  BY <1>a, <1>b, <1>s, PayloadsType DEF Counts, SlotType, CallType
<1>1. Frame(t)
  BY <1>a, <1>b, <1>d, <1>f DEF Frame, SlotType, FilesType
<1>2. Locks(t) /\ Counts(t)' /\ Fills(t) /\ Bears(t)
  BY <1>a, <1>b, <1>e, <1>f DEF Locks, Counts, Fills, Bears, Holding, Received, Counting, SlotType
<1>3. SlotHolds'
  BY <1>a, <1>b, <1>e, <1>f, PayloadsType DEF SlotHolds, Counts, Sourced, OfSocket, Kept, Fresh,
     NotReplayed, Received, Filed, FilesType
<1>4. Sourced(t)' /\ Kept(t)'
  BY <1>a, <1>b, <1>e, <1>f, PayloadsType DEF SlotHolds, Counts, Sourced, OfSocket, Told,
     Identity, Kept, Fresh, NotReplayed, Received, Filed
<1> QED
  BY <1>1, <1>2, <1>3, <1>4, StepKeeps

LEMMA TagSlotKeeps ==
  ASSUME DupInv, NEW t \in DupThreads, TagSlot(t)
  PROVE  DupInv'
<1>a. /\ dupCalls[t].pc = "label"
      /\ dupFiles' = dupFiles /\ dupReplays' = dupReplays
  BY DEF TagSlot, At, KernelKeeps
<1>b. /\ dupCalls[t] \in CallType /\ dupSlot \in SlotType /\ dupFiles \in FilesType
      /\ (dupCalls[t].pc \in Holding => dupSlot.lock = 1) /\ dupSlot.lock \in {0, 1}
      /\ Counts(t) /\ SlotHolds /\ Sourced(t) /\ Kept(t)
  BY Facts
<1> DEFINE moved == [dupCalls[t] EXCEPT !.pc = "recheck"]
<1>c. moved \in CallType
  BY <1>a, <1>b, PayloadsType DEF CallType, DupLabels
<1>u. dupCalls' = [dupCalls EXCEPT ![t] = moved]
  BY <1>a DEF TagSlot, Goes, Ends, Identity
<1>s. dupSlot' = [dupSlot EXCEPT !.fd = dupCalls[t].fd]
  BY <1>a DEF TagSlot
<1>d. /\ dupCalls' \in [DupThreads -> CallType] /\ dupCalls'[t] = moved
      /\ \A u \in DupThreads : u # t => dupCalls'[u] = dupCalls[u]
  BY <1>c, <1>u, CallMoves
<1>e. /\ dupCalls'[t].pc = "recheck" /\ dupCalls'[t].fd = dupCalls[t].fd
      /\ dupCalls'[t].count = dupCalls[t].count /\ dupCalls'[t].socket = dupCalls[t].socket
      /\ dupCalls'[t].payload = dupCalls[t].payload
  BY <1>b, <1>d, PayloadsType DEF CallType, Payloads
<1>f. /\ dupSlot' \in SlotType /\ dupSlot'.mapped = dupSlot.mapped
      /\ dupSlot'.lock = dupSlot.lock /\ dupSlot'.fd = dupCalls[t].fd
      /\ dupSlot'.closes = dupSlot.closes /\ dupSlot'.socket = dupSlot.socket
      /\ dupSlot'.data = dupSlot.data
  BY <1>a, <1>b, <1>s, PayloadsType DEF Counts, SlotType, CallType
<1>1. Frame(t)
  BY <1>a, <1>b, <1>d, <1>f DEF Frame, SlotType, FilesType
<1>2. Locks(t) /\ Counts(t)' /\ Fills(t) /\ Bears(t)
  BY <1>a, <1>b, <1>e, <1>f DEF Locks, Counts, Fills, Bears, Holding, Received, Counting, SlotType
<1>3. SlotHolds'
  BY <1>a, <1>b, <1>e, <1>f, PayloadsType DEF SlotHolds, Counts, Sourced, OfSocket, Kept, Fresh,
     NotReplayed, Received, Filed, FilesType
<1>4. Sourced(t)' /\ Kept(t)'
  BY <1>a, <1>b, <1>e, <1>f, PayloadsType DEF SlotHolds, Counts, Sourced, OfSocket, Told,
     Identity, Kept, Fresh, NotReplayed, Received, Filed
<1> QED
  BY <1>1, <1>2, <1>3, <1>4, StepKeeps

LEMMA RecheckClosesKeeps ==
  ASSUME DupInv, NEW t \in DupThreads, RecheckCloses(t)
  PROVE  DupInv'
<1>a. /\ dupCalls[t].pc = "recheck"
      /\ dupFiles' = dupFiles /\ dupReplays' = dupReplays
  BY DEF RecheckCloses, At, KernelKeeps
<1>b. /\ dupCalls[t] \in CallType /\ dupSlot \in SlotType /\ dupFiles \in FilesType
      /\ (dupCalls[t].pc \in Holding => dupSlot.lock = 1) /\ dupSlot.lock \in {0, 1}
      /\ Counts(t) /\ SlotHolds /\ Sourced(t) /\ Kept(t)
  BY Facts
<1> DEFINE moved == IdleCall
<1>c. moved \in CallType
  BY <1>a, <1>b, PayloadsType DEF CallType, DupLabels
<1>u. dupCalls' = [dupCalls EXCEPT ![t] = moved]
  BY <1>a DEF RecheckCloses, Goes, Ends, Identity
<1>s. dupSlot' = [dupSlot EXCEPT !.lock = 0, !.fd = IF dupSlot.closes = dupCalls[t].count THEN @ ELSE NoOwner]
  BY <1>a DEF RecheckCloses
<1>d. /\ dupCalls' \in [DupThreads -> CallType] /\ dupCalls'[t] = moved
      /\ \A u \in DupThreads : u # t => dupCalls'[u] = dupCalls[u]
  BY <1>c, <1>u, CallMoves
<1>e. dupCalls'[t].pc = "idle" /\ dupCalls'[t].count = 0
  BY <1>b, <1>d, PayloadsType DEF CallType, Payloads
<1>f. /\ dupSlot' \in SlotType /\ dupSlot'.mapped = dupSlot.mapped /\ dupSlot'.lock = 0
      /\ dupSlot'.fd = IF dupSlot.closes = dupCalls[t].count THEN dupSlot.fd ELSE NoOwner
      /\ dupSlot'.closes = dupSlot.closes /\ dupSlot'.socket = dupSlot.socket
      /\ dupSlot'.data = dupSlot.data
  BY <1>a, <1>b, <1>s, PayloadsType DEF Counts, SlotType, CallType
<1>1. Frame(t)
  BY <1>a, <1>b, <1>d, <1>f DEF Frame, SlotType, FilesType
<1>2. Locks(t) /\ Counts(t)' /\ Fills(t) /\ Bears(t)
  BY <1>a, <1>b, <1>e, <1>f DEF Locks, Counts, Fills, Bears, Holding, Received, Counting, SlotType
<1>3. SlotHolds'
  BY <1>a, <1>b, <1>e, <1>f, PayloadsType DEF SlotHolds, Counts, Sourced, OfSocket, Kept, Fresh,
     NotReplayed, Received, Filed, FilesType
<1>4. Sourced(t)' /\ Kept(t)'
  BY <1>a, <1>b, <1>e, <1>f, PayloadsType DEF SlotHolds, Counts, Sourced, OfSocket, Told,
     Identity, Kept, Fresh, NotReplayed, Received, Filed
<1> QED
  BY <1>1, <1>2, <1>3, <1>4, StepKeeps

LEMMA UntagClosedKeeps ==
  ASSUME DupInv, NEW t \in DupThreads, UntagClosed(t)
  PROVE  DupInv'
<1>a. /\ dupCalls[t].pc = "untag"
      /\ dupFiles' = dupFiles /\ dupReplays' = dupReplays
  BY DEF UntagClosed, At, KernelKeeps
<1>b. /\ dupCalls[t] \in CallType /\ dupSlot \in SlotType /\ dupFiles \in FilesType
      /\ (dupCalls[t].pc \in Holding => dupSlot.lock = 1) /\ dupSlot.lock \in {0, 1}
      /\ Counts(t) /\ SlotHolds /\ Sourced(t) /\ Kept(t)
  BY Facts
<1> DEFINE moved == [dupCalls[t] EXCEPT !.pc = "close"]
<1>c. moved \in CallType
  BY <1>a, <1>b, PayloadsType DEF CallType, DupLabels
<1>u. dupCalls' = [dupCalls EXCEPT ![t] = moved]
  BY <1>a DEF UntagClosed, Goes, Ends, Identity
<1>s. dupSlot' = [dupSlot EXCEPT !.fd = IF @ = dupCalls[t].fd THEN NoOwner ELSE @]
  BY <1>a DEF UntagClosed
<1>d. /\ dupCalls' \in [DupThreads -> CallType] /\ dupCalls'[t] = moved
      /\ \A u \in DupThreads : u # t => dupCalls'[u] = dupCalls[u]
  BY <1>c, <1>u, CallMoves
<1>e. /\ dupCalls'[t].pc = "close" /\ dupCalls'[t].fd = dupCalls[t].fd
      /\ dupCalls'[t].count = dupCalls[t].count /\ dupCalls'[t].socket = dupCalls[t].socket
      /\ dupCalls'[t].payload = dupCalls[t].payload
  BY <1>b, <1>d, PayloadsType DEF CallType, Payloads
<1>f. /\ dupSlot' \in SlotType /\ dupSlot'.mapped = dupSlot.mapped
      /\ dupSlot'.lock = dupSlot.lock
      /\ dupSlot'.fd = IF dupSlot.fd = dupCalls[t].fd THEN NoOwner ELSE dupSlot.fd
      /\ dupSlot'.closes = dupSlot.closes /\ dupSlot'.socket = dupSlot.socket
      /\ dupSlot'.data = dupSlot.data
  BY <1>a, <1>b, <1>s, PayloadsType DEF Counts, SlotType, CallType
<1>1. Frame(t)
  BY <1>a, <1>b, <1>d, <1>f DEF Frame, SlotType, FilesType
<1>2. Locks(t) /\ Counts(t)' /\ Fills(t) /\ Bears(t)
  BY <1>a, <1>b, <1>e, <1>f DEF Locks, Counts, Fills, Bears, Holding, Received, Counting, SlotType
<1>3. SlotHolds'
  BY <1>a, <1>b, <1>e, <1>f, PayloadsType DEF SlotHolds, Counts, Sourced, OfSocket, Kept, Fresh,
     NotReplayed, Received, Filed, FilesType
<1>4. Sourced(t)' /\ Kept(t)'
  BY <1>a, <1>b, <1>e, <1>f, PayloadsType DEF SlotHolds, Counts, Sourced, OfSocket, Told,
     Identity, Kept, Fresh, NotReplayed, Received, Filed
<1> QED
  BY <1>1, <1>2, <1>3, <1>4, StepKeeps

LEMMA ReceiveKeeps ==
  ASSUME DupInv, NEW t \in DupThreads, Receive(t)
  PROVE  DupInv'
<1>a. /\ dupCalls[t].pc = "idle"
      /\ dupFiles' = dupFiles /\ dupReplays' = dupReplays
  BY DEF Receive, At, KernelKeeps
<1>p. PICK fd \in DupFds : Identity(fd) # 0 /\ dupCalls' = [dupCalls EXCEPT ![t].pc = "replay", ![t].fd = fd]
  BY DEF Receive
<1>b. /\ dupCalls[t] \in CallType /\ dupSlot \in SlotType /\ dupFiles \in FilesType
      /\ (dupCalls[t].pc \in Holding => dupSlot.lock = 1) /\ dupSlot.lock \in {0, 1}
      /\ Counts(t) /\ SlotHolds /\ Sourced(t) /\ Kept(t)
  BY Facts
<1> DEFINE moved == [dupCalls[t] EXCEPT !.pc = "replay", !.fd = fd]
<1>c. moved \in CallType
  BY <1>a, <1>b, PayloadsType DEF CallType, DupLabels
<1>u. dupCalls' = [dupCalls EXCEPT ![t] = moved]
  BY <1>a, <1>p DEF Receive, Goes, Ends, Identity
<1>s. dupSlot' = dupSlot
  BY <1>a, <1>p DEF Receive
<1>d. /\ dupCalls' \in [DupThreads -> CallType] /\ dupCalls'[t] = moved
      /\ \A u \in DupThreads : u # t => dupCalls'[u] = dupCalls[u]
  BY <1>c, <1>u, CallMoves
<1>e. /\ dupCalls'[t].pc = "replay" /\ dupCalls'[t].fd = fd
      /\ dupCalls'[t].count = dupCalls[t].count /\ dupCalls'[t].socket = dupCalls[t].socket
      /\ dupCalls'[t].payload = dupCalls[t].payload
  BY <1>b, <1>d, PayloadsType DEF CallType, Payloads
<1>1. Frame(t)
  BY <1>a, <1>b, <1>d, <1>s DEF Frame, SlotType, FilesType
<1>2. Locks(t) /\ Counts(t)' /\ Fills(t) /\ Bears(t)
  BY <1>a, <1>b, <1>p, <1>e, <1>s DEF Locks, Counts, Fills, Bears, Holding, Received, Counting,
     SlotType
<1>3. SlotHolds'
  BY <1>a, <1>b, <1>p, <1>e, <1>s, PayloadsType DEF SlotHolds, Counts, Sourced, OfSocket, Kept,
     Fresh, NotReplayed, Received, Filed, FilesType
<1>4. Sourced(t)' /\ Kept(t)'
  BY <1>a, <1>b, <1>p, <1>e, <1>s, PayloadsType DEF SlotHolds, Counts, Sourced, OfSocket, Told,
     Identity, Kept, Fresh, NotReplayed, Received, Filed
<1> QED
  BY <1>1, <1>2, <1>3, <1>4, StepKeeps

LEMMA CountCloseKeeps ==
  ASSUME DupInv, NEW t \in DupThreads, CountClose(t)
  PROVE  DupInv'
<1>a. /\ dupCalls[t].pc = "idle"
      /\ dupFiles' = dupFiles /\ dupReplays' = dupReplays
  BY DEF CountClose, At, KernelKeeps
<1>p. PICK fd \in DupFds : 
        IF dupSlot.mapped
        THEN /\ dupSlot' = [dupSlot EXCEPT !.closes = @ + 1]
             /\ dupCalls' = [dupCalls EXCEPT ![t].pc = "untag", ![t].fd = fd,
                                             ![t].count = dupSlot.closes + 1]
        ELSE /\ dupCalls' = [dupCalls EXCEPT ![t].pc = "close", ![t].fd = fd]
             /\ UNCHANGED dupSlot
  BY DEF CountClose
<1>b. /\ dupCalls[t] \in CallType /\ dupSlot \in SlotType /\ dupFiles \in FilesType
      /\ (dupCalls[t].pc \in Holding => dupSlot.lock = 1) /\ dupSlot.lock \in {0, 1}
      /\ Counts(t) /\ SlotHolds /\ Sourced(t) /\ Kept(t)
  BY Facts
<1>n. /\ dupSlot.closes \in Nat /\ dupSlot.closes + 1 \in Nat
      /\ dupFiles.sent \in Nat /\ dupFiles.sent + 1 \in Nat
      /\ dupFiles.sent + 1 \in 1 .. dupFiles.sent + 1
      /\ dupSlot.data.n \in Nat /\ dupSlot.data.n # dupFiles.sent + 1
      /\ NotReplayed(dupFiles.sent + 1)
  BY Numbers
<1>1. CASE dupSlot.mapped
  <2> DEFINE moved == [dupCalls[t] EXCEPT !.pc = "untag", !.fd = fd, !.count = dupSlot.closes + 1]
  <2>c. moved \in CallType
    BY <1>a, <1>b, <1>n, PayloadsType DEF CallType, DupLabels
  <2>u. dupCalls' = [dupCalls EXCEPT ![t] = moved]
    BY <1>a, <1>p, <1>1 DEF CountClose, Goes, Ends, Identity
  <2>s. dupSlot' = [dupSlot EXCEPT !.closes = @ + 1]
    BY <1>a, <1>p, <1>1 DEF CountClose
  <2>d. /\ dupCalls' \in [DupThreads -> CallType] /\ dupCalls'[t] = moved
        /\ \A u \in DupThreads : u # t => dupCalls'[u] = dupCalls[u]
    BY <2>c, <2>u, CallMoves
  <2>e. /\ dupCalls'[t].pc = "untag" /\ dupCalls'[t].fd = fd
        /\ dupCalls'[t].count = dupSlot.closes + 1 /\ dupCalls'[t].socket = dupCalls[t].socket
        /\ dupCalls'[t].payload = dupCalls[t].payload
    BY <1>b, <2>d, PayloadsType DEF CallType, Payloads
  <2>f. /\ dupSlot' \in SlotType /\ dupSlot'.mapped = dupSlot.mapped
        /\ dupSlot'.lock = dupSlot.lock /\ dupSlot'.fd = dupSlot.fd
        /\ dupSlot'.closes = dupSlot.closes + 1 /\ dupSlot'.socket = dupSlot.socket
        /\ dupSlot'.data = dupSlot.data
    BY <1>a, <1>b, <2>s, PayloadsType DEF Counts, SlotType, CallType
  <2>1. Frame(t)
    BY <1>a, <1>b, <1>n, <2>d, <2>f DEF Frame, SlotType, FilesType
  <2>2. Locks(t) /\ Counts(t)' /\ Fills(t) /\ Bears(t)
    BY <1>a, <1>b, <1>n, <1>p, <1>1, <2>e, <2>f DEF Locks, Counts, Fills, Bears, Holding,
       Received, Counting, SlotType
  <2>3. SlotHolds'
    BY <1>a, <1>b, <1>n, <1>p, <1>1, <2>e, <2>f, PayloadsType DEF SlotHolds, Counts, Sourced,
       OfSocket, Kept, Fresh, NotReplayed, Received, Filed, FilesType
  <2>4. Sourced(t)' /\ Kept(t)'
    BY <1>a, <1>b, <1>n, <1>p, <1>1, <2>e, <2>f, PayloadsType DEF SlotHolds, Counts, Sourced,
       OfSocket, Told, Identity, Kept, Fresh, NotReplayed, Received, Filed
  <2> QED
    BY <2>1, <2>2, <2>3, <2>4, StepKeeps
<1>2. CASE ~dupSlot.mapped
  <2> DEFINE moved == [dupCalls[t] EXCEPT !.pc = "close", !.fd = fd]
  <2>c. moved \in CallType
    BY <1>a, <1>b, <1>n, PayloadsType DEF CallType, DupLabels
  <2>u. dupCalls' = [dupCalls EXCEPT ![t] = moved]
    BY <1>a, <1>p, <1>2 DEF CountClose, Goes, Ends, Identity
  <2>s. dupSlot' = dupSlot
    BY <1>a, <1>p, <1>2 DEF CountClose
  <2>d. /\ dupCalls' \in [DupThreads -> CallType] /\ dupCalls'[t] = moved
        /\ \A u \in DupThreads : u # t => dupCalls'[u] = dupCalls[u]
    BY <2>c, <2>u, CallMoves
  <2>e. /\ dupCalls'[t].pc = "close" /\ dupCalls'[t].fd = fd
        /\ dupCalls'[t].count = dupCalls[t].count /\ dupCalls'[t].socket = dupCalls[t].socket
        /\ dupCalls'[t].payload = dupCalls[t].payload
    BY <1>b, <2>d, PayloadsType DEF CallType, Payloads
  <2>1. Frame(t)
    BY <1>a, <1>b, <1>n, <2>d, <2>s DEF Frame, SlotType, FilesType
  <2>2. Locks(t) /\ Counts(t)' /\ Fills(t) /\ Bears(t)
    BY <1>a, <1>b, <1>n, <1>p, <1>2, <2>e, <2>s DEF Locks, Counts, Fills, Bears, Holding,
       Received, Counting, SlotType
  <2>3. SlotHolds'
    BY <1>a, <1>b, <1>n, <1>p, <1>2, <2>e, <2>s, PayloadsType DEF SlotHolds, Counts, Sourced,
       OfSocket, Kept, Fresh, NotReplayed, Received, Filed, FilesType
  <2>4. Sourced(t)' /\ Kept(t)'
    BY <1>a, <1>b, <1>n, <1>p, <1>2, <2>e, <2>s, PayloadsType DEF SlotHolds, Counts, Sourced,
       OfSocket, Told, Identity, Kept, Fresh, NotReplayed, Received, Filed
  <2> QED
    BY <2>1, <2>2, <2>3, <2>4, StepKeeps
<1> QED
  BY <1>a, <1>p, <1>1, <1>2 DEF CountClose, Goes, Ends, At

LEMMA ReturnFromReceiveKeeps ==
  ASSUME DupInv, NEW t \in DupThreads, ReturnFromReceive(t)
  PROVE  DupInv'
<1>a. /\ dupCalls[t].pc = "blocked"
      /\ dupReplays' = dupReplays
  BY DEF ReturnFromReceive, At, KernelKeeps
<1>b. /\ dupCalls[t] \in CallType /\ dupSlot \in SlotType /\ dupFiles \in FilesType
      /\ (dupCalls[t].pc \in Holding => dupSlot.lock = 1) /\ dupSlot.lock \in {0, 1}
      /\ Counts(t) /\ SlotHolds /\ Sourced(t) /\ Kept(t)
  BY Facts
<1>n. /\ dupSlot.closes \in Nat /\ dupSlot.closes + 1 \in Nat
      /\ dupFiles.sent \in Nat /\ dupFiles.sent + 1 \in Nat
      /\ dupFiles.sent + 1 \in 1 .. dupFiles.sent + 1
      /\ dupSlot.data.n \in Nat /\ dupSlot.data.n # dupFiles.sent + 1
      /\ NotReplayed(dupFiles.sent + 1)
  BY Numbers
<1>1. CASE Ends(t) /\ UNCHANGED dupFiles
  <2> DEFINE moved == IdleCall
  <2>c. moved \in CallType
    BY <1>a, <1>b, <1>n, PayloadsType DEF CallType, DupLabels
  <2>u. dupCalls' = [dupCalls EXCEPT ![t] = moved]
    BY <1>a, <1>1 DEF ReturnFromReceive, Goes, Ends, Identity
  <2>s. dupSlot' = dupSlot
    BY <1>a, <1>1 DEF ReturnFromReceive
  <2>d. /\ dupCalls' \in [DupThreads -> CallType] /\ dupCalls'[t] = moved
        /\ \A u \in DupThreads : u # t => dupCalls'[u] = dupCalls[u]
    BY <2>c, <2>u, CallMoves
  <2>e. dupCalls'[t].pc = "idle" /\ dupCalls'[t].count = 0
    BY <1>b, <2>d, PayloadsType DEF CallType, Payloads
  <2>g. dupFiles' \in FilesType /\ dupFiles'.open = dupFiles.open /\ dupFiles'.sent = dupFiles.sent
    BY <1>a, <1>b, <1>1 DEF ReturnFromReceive, FilesType
  <2>1. Frame(t)
    BY <1>a, <1>b, <1>n, <2>d, <2>s, <2>g DEF Frame, SlotType, FilesType
  <2>2. Locks(t) /\ Counts(t)' /\ Fills(t) /\ Bears(t)
    BY <1>a, <1>b, <1>n, <1>1, <2>e, <2>s, <2>g DEF Locks, Counts, Fills, Bears, Holding,
       Received, Counting, SlotType
  <2>3. SlotHolds'
    BY <1>a, <1>b, <1>n, <1>1, <2>e, <2>s, <2>g, PayloadsType DEF SlotHolds, Counts, Sourced,
       OfSocket, Kept, Fresh, NotReplayed, Received, Filed, FilesType
  <2>4. Sourced(t)' /\ Kept(t)'
    BY <1>a, <1>b, <1>n, <1>1, <2>e, <2>s, <2>g, PayloadsType DEF SlotHolds, Counts, Sourced,
       OfSocket, Told, Identity, Kept, Fresh, NotReplayed, Received, Filed
  <2> QED
    BY <2>1, <2>2, <2>3, <2>4, StepKeeps
<1>2. CASE /\ dupFiles' = [dupFiles EXCEPT !.sent = @ + 1]
           /\ dupCalls' = [dupCalls EXCEPT ![t].pc = "identify", ![t].payload.n = dupFiles.sent + 1]
  <2> DEFINE moved == [dupCalls[t] EXCEPT !.pc = "identify", !.payload.n = dupFiles.sent + 1]
  <2>c. moved \in CallType
    BY <1>a, <1>b, <1>n, PayloadsType DEF CallType, DupLabels, Payloads
  <2>u. dupCalls' = [dupCalls EXCEPT ![t] = moved]
    BY <1>a, <1>2 DEF ReturnFromReceive, Goes, Ends, Identity
  <2>s. dupSlot' = dupSlot
    BY <1>a, <1>2 DEF ReturnFromReceive
  <2>d. /\ dupCalls' \in [DupThreads -> CallType] /\ dupCalls'[t] = moved
        /\ \A u \in DupThreads : u # t => dupCalls'[u] = dupCalls[u]
    BY <2>c, <2>u, CallMoves
  <2>e. /\ dupCalls'[t].pc = "identify" /\ dupCalls'[t].fd = dupCalls[t].fd
        /\ dupCalls'[t].count = dupCalls[t].count /\ dupCalls'[t].socket = dupCalls[t].socket
        /\ dupCalls'[t].payload.n = dupFiles.sent + 1
        /\ dupCalls'[t].payload.from = dupCalls[t].payload.from
        /\ dupCalls'[t].payload.loose = dupCalls[t].payload.loose
    BY <1>b, <2>d, PayloadsType DEF CallType, Payloads
  <2>g. dupFiles' \in FilesType /\ dupFiles'.open = dupFiles.open /\ dupFiles'.sent = dupFiles.sent + 1
    BY <1>a, <1>b, <1>2 DEF ReturnFromReceive, FilesType
  <2>1. Frame(t)
    BY <1>a, <1>b, <1>n, <2>d, <2>s, <2>g DEF Frame, SlotType, FilesType
  <2>2. Locks(t) /\ Counts(t)' /\ Fills(t) /\ Bears(t)
    BY <1>a, <1>b, <1>n, <1>2, <2>e, <2>s, <2>g DEF Locks, Counts, Fills, Bears, Holding,
       Received, Counting, SlotType
  <2>3. SlotHolds'
    BY <1>a, <1>b, <1>n, <1>2, <2>e, <2>s, <2>g, PayloadsType DEF SlotHolds, Counts, Sourced,
       OfSocket, Kept, Fresh, NotReplayed, Received, Filed, FilesType
  <2>4. Sourced(t)' /\ Kept(t)'
    BY <1>a, <1>b, <1>n, <1>2, <2>e, <2>s, <2>g DEF SlotHolds, Sourced, OfSocket, Told, Identity,
       Kept, NotReplayed, Received, Filed
  <2> QED
    BY <2>1, <2>2, <2>3, <2>4, StepKeeps
<1> QED
  BY <1>a, <1>1, <1>2 DEF ReturnFromReceive, Goes, Ends, At

LEMMA DeliverKeeps ==
  ASSUME DupInv, NEW t \in DupThreads, Deliver(t)
  PROVE  DupInv'
<1>a. dupCalls[t].pc = "deliver" /\ dupFiles' = dupFiles
  BY DEF Deliver, At
<1>b. /\ dupCalls[t] \in CallType /\ dupSlot \in SlotType /\ dupFiles \in FilesType
      /\ (dupCalls[t].pc \in Holding => dupSlot.lock = 1) /\ dupSlot.lock \in {0, 1}
      /\ Counts(t) /\ SlotHolds /\ Sourced(t) /\ Kept(t)
  BY Facts
<1>1. CASE Goes(t, "sample") /\ dupSlot' = [dupSlot EXCEPT !.lock = 0] /\ dupReplays' = dupReplays
  <2>c. [dupCalls[t] EXCEPT !.pc = "sample"] \in CallType
    BY <1>b DEF CallType, DupLabels
  <2>d. /\ dupCalls' \in [DupThreads -> CallType] /\ dupCalls'[t] = [dupCalls[t] EXCEPT !.pc = "sample"]
        /\ \A u \in DupThreads : u # t => dupCalls'[u] = dupCalls[u]
    BY <1>1, <2>c, CallMoves DEF Goes
  <2>e. dupCalls'[t].pc = "sample" /\ dupCalls'[t].fd = dupCalls[t].fd
    BY <1>b, <2>d DEF CallType
  <2>f. /\ dupSlot' \in SlotType /\ dupSlot'.lock = 0 /\ dupSlot'.fd = dupSlot.fd
        /\ dupSlot'.closes = dupSlot.closes
        /\ dupSlot'.socket = dupSlot.socket /\ dupSlot'.data = dupSlot.data
    BY <1>1, <1>b DEF SlotType
  <2>1. Frame(t)
    BY <1>a, <1>b, <1>1, <2>d, <2>f DEF Frame, SlotType, FilesType
  <2>2. Locks(t) /\ Fills(t) /\ Bears(t)
    BY <1>a, <1>b, <2>e, <2>f DEF Locks, Fills, Bears, Holding, Received
  <2>3. Counts(t)' /\ SlotHolds'
    BY <1>a, <1>b, <1>1, <2>e, <2>f DEF Counts, Counting, SlotHolds, Fresh, NotReplayed
  <2>4. Sourced(t)' /\ Kept(t)'
    BY <2>e DEF Sourced, Kept, Received
  <2> QED
    BY <2>1, <2>2, <2>3, <2>4, StepKeeps
<1>2. CASE /\ dupReplays' = Append(dupReplays, [payload |-> dupSlot.data, to |-> dupCalls[t].socket])
           /\ dupSlot' = [dupSlot EXCEPT !.fd = NoOwner, !.lock = 0]
           /\ Ends(t)
  <2> DEFINE item == [payload |-> dupSlot.data, to |-> dupCalls[t].socket]
             last == Len(dupReplays) + 1
  <2>d. /\ dupCalls' \in [DupThreads -> CallType] /\ dupCalls'[t] = IdleCall
        /\ \A u \in DupThreads : u # t => dupCalls'[u] = dupCalls[u]
    BY <1>2, PayloadsType, CallMoves DEF Ends
  <2>f. /\ dupSlot' \in SlotType /\ dupSlot'.lock = 0 /\ dupSlot'.fd = NoOwner
        /\ dupSlot'.closes = dupSlot.closes
        /\ dupSlot'.socket = dupSlot.socket /\ dupSlot'.data = dupSlot.data
    BY <1>2, <1>b DEF SlotType
  <2>r. /\ dupReplays \in Seq([payload : Payloads, to : Nat]) /\ item \in [payload : Payloads, to : Nat]
        /\ item.payload = dupSlot.data /\ item.to = dupCalls[t].socket
    BY <1>b DEF DupInv, DupType, SlotType, CallType
  <2>s. /\ dupReplays' \in Seq([payload : Payloads, to : Nat])
        /\ DOMAIN dupReplays' = DOMAIN dupReplays \cup {last} /\ last \notin DOMAIN dupReplays
        /\ dupReplays'[last] = item
        /\ \A i \in DOMAIN dupReplays : dupReplays'[i] = dupReplays[i]
    <3> HIDE DEF item
    <3> QED
      BY <1>2, <2>r DEF item
  <2> HIDE DEF item, last
  <2>t. \A i \in DOMAIN dupReplays' :
          \/ i \in DOMAIN dupReplays /\ dupReplays'[i] = dupReplays[i]
          \/ i = last /\ dupReplays'[i] = item
    BY <2>s
  <2>o. \A u \in DupThreads : u # t => dupCalls[u].pc \notin Holding
    BY <1>a DEF DupInv, OneHolder, Holding
  <2>1. DupType'
    BY <1>a, <1>b, <2>d, <2>f, <2>s, PayloadsType DEF DupInv, DupType
  <2>2. OneHolder'
    BY <2>d, <2>o, PayloadsType DEF OneHolder, Holding
  <2>3. CountsArePast'
    <3>1. dupSlot.closes \in Nat
      BY <1>b DEF SlotType
    <3> QED
      BY <2>d, <2>f, <3>1, PayloadsType DEF DupInv, CountsArePast
  <2>4. Provenance'
    <3>1. Sourced(t)'
      BY <2>d, PayloadsType DEF Sourced
    <3>2. ASSUME NEW u \in DupThreads, u # t PROVE Sourced(u)'
      BY <1>a, <2>d, <2>f, <3>2 DEF DupInv, Provenance, Sourced, OfSocket, Told
    <3> QED
      BY <1>b, <2>f, <3>1, <3>2 DEF Provenance, SlotHolds, OfSocket
  <2>5. Undelivered'
    <3>1. Kept(t)'
      BY <2>d, PayloadsType DEF Kept, Received
    <3>2. ASSUME NEW u \in DupThreads, u # t PROVE Kept(u)'
      <4>1. Kept(u) /\ dupCalls'[u] = dupCalls[u] /\ dupCalls[u].pc \notin Holding
        BY <2>d, <2>o, <3>2 DEF DupInv, Undelivered
      <4>2. ASSUME dupCalls[u].pc \in Received
            PROVE  NotReplayed(dupCalls[u].payload.n)' /\ dupCalls[u].pc \notin Filed
        BY <4>1, <4>2, <2>r, <2>t DEF Kept, NotReplayed, Filed, Holding
      <4> QED
        BY <1>a, <2>f, <4>1, <4>2 DEF Kept, Holding
    <3>3. OneBearer'
      BY <2>d, PayloadsType DEF DupInv, Undelivered, OneBearer, Received
    <3> QED
      BY <1>a, <1>b, <2>f, <3>1, <3>2, <3>3 DEF Undelivered, SlotHolds
  <2>f1. Fresh /\ OfSocket(dupSlot.data, dupCalls[t].socket)
    BY <1>a, <1>b DEF Kept, Sourced, SlotHolds
  <2>6. Delivered'
    <3>1. dupSlot.data.n \in 0 .. dupFiles.sent /\ (dupSlot.data = Torn \/ dupSlot.data.n > 0)
      BY <2>f1, Numbers, <1>b DEF Fresh, SlotHolds
    <3> QED
      BY <1>a, <2>r, <2>t, <3>1 DEF DupInv, Delivered
  <2>7. ReplaysAreOwn'
    <3>1. \A i \in DOMAIN dupReplays :
            \/ dupReplays[i].payload.loose
            \/ dupReplays[i].payload.n # dupSlot.data.n
      BY <2>f1, PayloadsType DEF Fresh, NotReplayed, DupInv, Delivered
    <3>2. \A i \in DOMAIN dupReplays :
            \/ dupSlot.data.loose
            \/ dupReplays[i].payload.n # dupSlot.data.n
      BY <2>f1, PayloadsType DEF Fresh, NotReplayed
    <3>3. item.payload.loose \/ item.payload.from = item.to
      BY <2>f1, <2>r DEF OfSocket
    <3> QED
      BY <2>r, <2>t, <3>1, <3>2, <3>3 DEF DupInv, ReplaysAreOwn
  <2> QED
    BY <2>1, <2>2, <2>3, <2>4, <2>5, <2>6, <2>7 DEF DupInv
<1> QED
  BY <1>a, <1>1, <1>2 DEF Deliver

-----------------------------------------------------------------------------
(* The descriptors change.  Threads end or have their payload marked loose *)
(* and nothing else; where a socket is replaced, it is loose or the count  *)
(* tells.                                                                  *)
Loosens(u) ==
    /\ dupCalls[u].pc \in {"blocked", "identify"}
    /\ dupCalls'[u] = [dupCalls[u] EXCEPT !.payload.loose = TRUE]

LEMMA FilesKeep ==
  ASSUME DupInv, dupSlot' = dupSlot, dupReplays' = dupReplays,
         dupFiles' \in FilesType, dupFiles'.sent = dupFiles.sent,
         dupCalls' \in [DupThreads -> CallType],
         \A u \in DupThreads : dupCalls'[u] = dupCalls[u] \/ dupCalls'[u] = IdleCall \/ Loosens(u),
         \A u \in DupThreads : dupCalls'[u].pc \in {"blocked", "identify"} =>
            \/ dupCalls'[u].payload.loose
            \/ dupFiles'.open[dupCalls[u].fd] = dupFiles.open[dupCalls[u].fd]
            \/ Told(u)
  PROVE  DupInv'
<1>1. \A u \in DupThreads :
        /\ dupCalls[u] \in CallType
        /\ \/ dupCalls'[u].pc = "idle" /\ dupCalls'[u].count = 0
           \/ /\ dupCalls'[u].pc = dupCalls[u].pc /\ dupCalls'[u].fd = dupCalls[u].fd
              /\ dupCalls'[u].count = dupCalls[u].count /\ dupCalls'[u].socket = dupCalls[u].socket
              /\ dupCalls'[u].payload.n = dupCalls[u].payload.n
              /\ dupCalls'[u].payload.from = dupCalls[u].payload.from
              /\ dupCalls[u].pc \notin {"blocked", "identify"} => dupCalls'[u].payload = dupCalls[u].payload
              /\ dupCalls'[u].payload = dupCalls[u].payload \/ dupCalls'[u].payload.loose
  <2> TAKE u \in DupThreads
  <2>1. dupCalls[u] \in CallType
    BY DEF DupInv, DupType
  <2>2. CASE Loosens(u)
    BY <2>1, <2>2 DEF Loosens, CallType, Payloads
  <2>3. CASE dupCalls'[u] = dupCalls[u]
    BY <2>1, <2>3
  <2>4. CASE dupCalls'[u] = IdleCall
    BY <2>1, <2>4, PayloadsType
  <2> QED
    BY <2>2, <2>3, <2>4
<1>2. DupType'
  BY <1>1 DEF DupInv, DupType
<1>3. OneHolder'
  BY <1>1 DEF DupInv, OneHolder, Holding
<1>4. CountsArePast'
  BY <1>1, Numbers DEF DupInv, CountsArePast
<1>5. Provenance'
  <2>1. ASSUME NEW u \in DupThreads PROVE Sourced(u)'
    <3>1. Sourced(u)
      BY DEF DupInv, Provenance
    <3> QED
      BY <1>1, <3>1 DEF Sourced, OfSocket, Told
  <2> QED
    BY <2>1 DEF DupInv, Provenance, OfSocket
<1>6. Undelivered'
  <2>1. ASSUME NEW u \in DupThreads PROVE Kept(u)'
    <3>1. Kept(u)
      BY DEF DupInv, Undelivered
    <3> QED
      BY <1>1, <3>1 DEF Kept, Fresh, NotReplayed, Received, Filed
  <2>2. OneBearer'
    BY <1>1 DEF DupInv, Undelivered, OneBearer, Received
  <2> QED
    BY <2>1, <2>2 DEF DupInv, Undelivered, Fresh, NotReplayed
<1>7. Delivered' /\ ReplaysAreOwn'
  BY DEF DupInv, Delivered, ReplaysAreOwn
<1> QED
  BY <1>2, <1>3, <1>4, <1>5, <1>6, <1>7 DEF DupInv

LEMMA RealCloseKeeps ==
  ASSUME DupInv, NEW t \in DupThreads, RealClose(t)
  PROVE  DupInv'
<1> DEFINE closed == dupCalls[t].fd
           Hit(u) == /\ dupCalls[u].fd = closed /\ dupCalls[u].pc \in {"blocked", "identify"}
                     /\ dupCalls[t].count <= dupCalls[u].count
<1>1. dupCalls[t].pc = "close" /\ closed \in DupFds /\ dupCalls[t].count <= dupSlot.closes
  BY DEF RealClose, At, DupInv, DupType, CountsArePast, Counting
<1>2. /\ dupFiles' = [dupFiles EXCEPT !.open[closed] = 0]
      /\ dupFiles' \in FilesType /\ dupFiles'.sent = dupFiles.sent
      /\ \A fd \in DupFds : fd # closed => dupFiles'.open[fd] = dupFiles.open[fd]
  BY <1>1 DEF RealClose, DupInv, DupType, FilesType
<1>3. dupCalls' = [u \in DupThreads |->
          IF u = t THEN IdleCall
          ELSE IF Hit(u) THEN [dupCalls[u] EXCEPT !.payload.loose = TRUE] ELSE dupCalls[u]]
  BY DEF RealClose, Loosened
<1>4. \A u \in DupThreads :
        /\ dupCalls[u] \in CallType /\ dupCalls'[u] \in CallType
        /\ u = t => dupCalls'[u] = IdleCall
        /\ u # t /\ Hit(u) => Loosens(u) /\ dupCalls'[u].payload.loose
        /\ u # t /\ ~Hit(u) => dupCalls'[u] = dupCalls[u]
  <2> TAKE u \in DupThreads
  <2>1. dupCalls[u] \in CallType
    BY DEF DupInv, DupType
  <2>2. [dupCalls[u] EXCEPT !.payload.loose = TRUE] \in CallType
        /\ [dupCalls[u] EXCEPT !.payload.loose = TRUE].payload.loose
    BY <2>1 DEF CallType, Payloads
  <2> QED
    BY <1>3, <2>1, <2>2, PayloadsType DEF Loosens
<1>5. dupCalls' \in [DupThreads -> CallType]
  BY <1>3, <1>4
<1>6. ASSUME NEW u \in DupThreads, dupCalls'[u].pc \in {"blocked", "identify"}
      PROVE  \/ dupCalls'[u].payload.loose
             \/ dupFiles'.open[dupCalls[u].fd] = dupFiles.open[dupCalls[u].fd]
             \/ Told(u)
  <2>1. CASE u = t \/ Hit(u)
    BY <1>4, <1>6, <2>1, PayloadsType
  <2>2. CASE u # t /\ ~Hit(u)
    <3>1. dupCalls[u].pc \in {"blocked", "identify"} /\ dupCalls[u].fd \in DupFds
      BY <1>4, <1>6, <2>2 DEF DupInv, DupType
    <3>2. CASE dupCalls[u].fd # closed
      BY <1>2, <3>1, <3>2
    <3>3. CASE dupCalls[u].fd = closed
      <4>1. ~(dupCalls[t].count <= dupCalls[u].count)
        BY <2>2, <3>1, <3>3
      <4>2. dupCalls[t].count \in Nat /\ dupCalls[u].count \in Nat /\ dupSlot.closes \in Nat
        BY <1>4, Numbers DEF CallType
      <4> QED
        BY <1>1, <4>1, <4>2 DEF Told
    <3> QED
      BY <3>2, <3>3
  <2> QED
    BY <2>1, <2>2
<1>7. \A u \in DupThreads : dupCalls'[u] = dupCalls[u] \/ dupCalls'[u] = IdleCall \/ Loosens(u)
  BY <1>4
<1>8. dupSlot' = dupSlot /\ dupReplays' = dupReplays
  BY DEF RealClose
<1> QED
  BY <1>2, <1>5, <1>6, <1>7, <1>8, FilesKeep

LEMMA OpenSocketKeeps ==
  ASSUME DupInv, NEW fd \in DupFds, OpenSocket(fd)
  PROVE  DupInv'
<1>1. /\ dupFiles' \in FilesType /\ dupFiles'.sent = dupFiles.sent /\ dupFiles.open[fd] = 0
      /\ \A g \in DupFds : g # fd => dupFiles'.open[g] = dupFiles.open[g]
  <2>1. dupFiles' = [dupFiles EXCEPT !.open = [@ EXCEPT ![fd] = dupFiles.created + 1], !.created = @ + 1]
    BY DEF OpenSocket
  <2>2. dupFiles \in FilesType /\ dupFiles.open[fd] = 0
    BY DEF OpenSocket, DupInv, DupType, Identity
  <2>3. dupFiles.created + 1 \in Nat /\ dupFiles.open \in [DupFds -> Nat]
    BY <2>2 DEF FilesType
  <2>4. [dupFiles.open EXCEPT ![fd] = dupFiles.created + 1] \in [DupFds -> Nat]
    BY <2>3
  <2> QED
    BY <2>1, <2>2, <2>3, <2>4 DEF FilesType
<1>2. UNCHANGED <<dupSlot, dupCalls, dupReplays>>
  BY DEF OpenSocket
<1>3. ASSUME NEW u \in DupThreads, dupCalls'[u].pc \in {"blocked", "identify"}
      PROVE  \/ dupCalls'[u].payload.loose
             \/ dupFiles'.open[dupCalls[u].fd] = dupFiles.open[dupCalls[u].fd]
             \/ Told(u)
  <2>1. dupCalls[u].fd \in DupFds /\ Sourced(u)
    BY <1>2, <1>3 DEF DupInv, DupType, Provenance
  <2> QED
    BY <1>1, <1>2, <1>3, <2>1 DEF Sourced, OfSocket
<1>4. dupCalls' \in [DupThreads -> CallType]
  BY <1>2 DEF DupInv, DupType
<1> QED
  BY <1>1, <1>2, <1>3, <1>4, FilesKeep

LEMMA ReplaceSocketKeeps ==
  ASSUME DupInv, NEW fd \in DupFds, ReplaceSocket(fd)
  PROVE  DupInv'
<1> DEFINE Hit(u) == dupCalls[u].fd = fd /\ dupCalls[u].pc \in {"blocked", "identify"}
<1>1. /\ dupFiles' \in FilesType /\ dupFiles'.sent = dupFiles.sent
      /\ \A g \in DupFds : g # fd => dupFiles'.open[g] = dupFiles.open[g]
  <2>1. dupFiles' = [dupFiles EXCEPT !.open = [@ EXCEPT ![fd] = dupFiles.created + 1], !.created = @ + 1,
                                    !.replaced = @ + 1]
    BY DEF ReplaceSocket
  <2>2. dupFiles \in FilesType
    BY DEF DupInv, DupType
  <2>3. /\ dupFiles.created + 1 \in Nat /\ dupFiles.replaced + 1 \in Nat
        /\ dupFiles.open \in [DupFds -> Nat]
    BY <2>2 DEF FilesType
  <2>4. [dupFiles.open EXCEPT ![fd] = dupFiles.created + 1] \in [DupFds -> Nat]
    BY <2>3
  <2> QED
    BY <2>1, <2>2, <2>3, <2>4 DEF FilesType
<1>2. dupCalls' = [u \in DupThreads |->
          IF Hit(u) THEN [dupCalls[u] EXCEPT !.payload.loose = TRUE] ELSE dupCalls[u]]
  BY DEF ReplaceSocket, Loosened
<1>3. \A u \in DupThreads :
        /\ dupCalls'[u] \in CallType
        /\ Hit(u) => Loosens(u) /\ dupCalls'[u].payload.loose
        /\ ~Hit(u) => dupCalls'[u] = dupCalls[u]
  <2> TAKE u \in DupThreads
  <2>1. dupCalls[u] \in CallType
    BY DEF DupInv, DupType
  <2>2. [dupCalls[u] EXCEPT !.payload.loose = TRUE] \in CallType
        /\ [dupCalls[u] EXCEPT !.payload.loose = TRUE].payload.loose
    BY <2>1 DEF CallType, Payloads
  <2> QED
    BY <1>2, <2>1, <2>2 DEF Loosens
<1>4. dupCalls' \in [DupThreads -> CallType]
  BY <1>2, <1>3
<1>5. ASSUME NEW u \in DupThreads, dupCalls'[u].pc \in {"blocked", "identify"}
      PROVE  \/ dupCalls'[u].payload.loose
             \/ dupFiles'.open[dupCalls[u].fd] = dupFiles.open[dupCalls[u].fd]
             \/ Told(u)
  <2>1. CASE Hit(u)
    BY <1>3, <2>1
  <2>2. CASE ~Hit(u)
    <3>1. dupCalls[u].pc \in {"blocked", "identify"} /\ dupCalls[u].fd \in DupFds
      BY <1>3, <1>5, <2>2 DEF DupInv, DupType
    <3> QED
      BY <1>1, <2>2, <3>1
  <2> QED
    BY <2>1, <2>2
<1>6. \A u \in DupThreads : dupCalls'[u] = dupCalls[u] \/ dupCalls'[u] = IdleCall \/ Loosens(u)
  BY <1>3
<1>7. dupSlot' = dupSlot /\ dupReplays' = dupReplays
  BY DEF ReplaceSocket
<1> QED
  BY <1>1, <1>4, <1>5, <1>6, <1>7, FilesKeep

LEMMA ForkDupKeeps ==
  ASSUME DupInv, NEW t \in DupThreads, ForkDup(t)
  PROVE  DupInv'
<1>1. dupCalls' \in [DupThreads -> CallType]
      /\ \A u \in DupThreads : dupCalls'[u].pc \in {"idle", "gone"} /\ dupCalls'[u].count = 0
  BY PayloadsType DEF ForkDup
<1>2. /\ dupSlot' \in SlotType /\ dupSlot'.fd = dupSlot.fd /\ dupSlot'.data = dupSlot.data
      /\ dupSlot'.socket = dupSlot.socket /\ dupSlot'.closes = dupSlot.closes
      /\ dupFiles' \in FilesType /\ dupFiles'.sent = dupFiles.sent /\ dupReplays' = dupReplays
  BY DEF ForkDup, DupInv, DupType, SlotType, FilesType
<1>3. DupType'
  BY <1>1, <1>2 DEF DupInv, DupType
<1>4. OneHolder' /\ CountsArePast'
  BY <1>1, <1>2, Numbers DEF OneHolder, CountsArePast, Holding
<1>5. Provenance'
  BY <1>1, <1>2 DEF DupInv, Provenance, Sourced, OfSocket
<1>6. Undelivered'
  BY <1>1, <1>2 DEF DupInv, Undelivered, Kept, OneBearer, Received, Fresh, NotReplayed
<1>7. Delivered' /\ ReplaysAreOwn'
  BY <1>2 DEF DupInv, Delivered, ReplaysAreOwn
<1> QED
  BY <1>3, <1>4, <1>5, <1>6, <1>7 DEF DupInv

LEMMA DupInvNext == DupInv /\ [DupNext]_dupVars => DupInv'
<1> SUFFICES ASSUME DupInv, [DupNext]_dupVars PROVE DupInv'
  OBVIOUS
<1>1. CASE UNCHANGED dupVars
  <2>1. DupType' /\ OneHolder' /\ CountsArePast'
    BY <1>1 DEF dupVars, DupInv, DupType, OneHolder, CountsArePast
  <2>2. Provenance' /\ Undelivered'
    BY <1>1 DEF dupVars, DupInv, Provenance, Sourced, OfSocket, Told, Undelivered, Kept, OneBearer,
       Fresh, NotReplayed
  <2>3. Delivered' /\ ReplaysAreOwn'
    BY <1>1 DEF dupVars, DupInv, Delivered, ReplaysAreOwn
  <2> QED
    BY <2>1, <2>2, <2>3 DEF DupInv
<1>2. ASSUME NEW t \in DupThreads,
             \/ Receive(t) \/ LockToReplay(t) \/ CheckTag(t) \/ CheckIdentity(t) \/ Deliver(t)
             \/ SampleCloses(t) \/ EnterReceive(t) \/ ReturnFromReceive(t) \/ IdentifyReceived(t)
             \/ LockToStore(t) \/ CheckCloses(t) \/ CopyPayload(t) \/ TagSlot(t) \/ RecheckCloses(t)
             \/ CountClose(t) \/ UntagClosed(t) \/ RealClose(t) \/ ForkDup(t)
      PROVE  DupInv'
  BY <1>2, ReceiveKeeps, LockToReplayKeeps, CheckTagKeeps, CheckIdentityKeeps, DeliverKeeps,
     SampleClosesKeeps, EnterReceiveKeeps, ReturnFromReceiveKeeps, IdentifyReceivedKeeps,
     LockToStoreKeeps, CheckClosesKeeps, CopyPayloadKeeps, TagSlotKeeps, RecheckClosesKeeps,
     CountCloseKeeps, UntagClosedKeeps, RealCloseKeeps, ForkDupKeeps
<1>3. ASSUME NEW fd \in DupFds, OpenSocket(fd) \/ ReplaceSocket(fd)
      PROVE  DupInv'
  BY <1>3, OpenSocketKeeps, ReplaceSocketKeeps
<1> QED
  BY <1>1, <1>2, <1>3 DEF DupNext

(* A replayed payload is the descriptor's own and is replayed once, but for *)
(* the payloads marked loose: chaos_net_dup_replay's checks of the tag and  *)
(* of the socket's identity and chaos_net_dup_store's two looks at the      *)
(* close count suffice for any number of threads and descriptors.           *)
THEOREM ReplaysStayOwn == DupSpec => []ReplaysAreOwn
<1>1. DupInv => ReplaysAreOwn
  BY DEF DupInv
<1> QED
  BY <1>1, DupBegins, DupInvNext, PTL DEF DupSpec
=============================================================================
