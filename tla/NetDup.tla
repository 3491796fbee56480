------------------------------- MODULE NetDup -------------------------------
(***************************************************************************)
(* libchaos-net's DUP: the last payload a receive returned is kept in the  *)
(* slot of its descriptor (fd % 64) and delivered once more by a later     *)
(* receive (src/net/chaos_net_socket.c).                                   *)
(*                                                                         *)
(* One slot, shared by the descriptors DupFds.  Nobody waits for it: its   *)
(* lock is a try-lock, and close() only counts itself and clears the tag   *)
(* by CAS.  A descriptor number can name another socket at any moment:     *)
(* closed and opened again, which the library sees, or replaced by dup2(), *)
(* which it does not.  A payload is [from, n, loose]: the socket it came   *)
(* from, its number, and (ghost) whether it was stored in one of the two   *)
(* windows the code leaves open (see Loosened) or left torn by a fork().   *)
(***************************************************************************)
EXTENDS Naturals, Sequences

CONSTANTS
    DupThreads,     \* threads of the process
    DupFds,         \* descriptors that share the slot; positive numbers
    DupSockets,     \* sockets the run may create: 1 .. DupSockets
    MaxMessages,    \* bound: payloads the peers send
    MaxReplaces     \* bound: dup2() calls onto a descriptor

ASSUME DupAssumption ==
    /\ DupFds \subseteq Nat \ {0}
    /\ DupSockets \in Nat /\ MaxMessages \in Nat /\ MaxReplaces \in Nat

VARIABLES
    dupSlot,        \* the slot: is the table mapped, lock, fd (tag), closes, socket, data
    dupFiles,       \* the kernel: open, the socket (0: none) of each fd; created; sent; replaced; forked
    dupCalls,       \* per thread: where it is in a receive or a close
    dupReplays      \* every delivery of a kept payload, in order (history)

dupVars == <<dupSlot, dupFiles, dupCalls, dupReplays>>

NoOwner == 0
NoPayload == [from |-> 0, n |-> 0, loose |-> FALSE]
Torn == [from |-> 0, n |-> 0, loose |-> TRUE]

\* count: the close count sampled by a receive, or the one a close made it.
IdleCall == [pc |-> "idle", fd |-> NoOwner, count |-> 0, socket |-> 0, payload |-> NoPayload]

DupInit ==
    /\ dupSlot = [mapped |-> FALSE, lock |-> 0, fd |-> NoOwner, closes |-> 0,
                  socket |-> 0, data |-> NoPayload]
    /\ dupFiles = [open |-> [fd \in DupFds |-> IF \A g \in DupFds : fd <= g THEN 1 ELSE 0],
                   created |-> 1, sent |-> 0, replaced |-> 0, forked |-> FALSE]
    /\ dupCalls = [t \in DupThreads |-> IdleCall]
    /\ dupReplays = <<>>

(* Identity of the socket behind a descriptor (fstat); 0 when it is closed. *)
Identity(fd) == dupFiles.open[fd]

At(t, pc) == dupCalls[t].pc = pc
Goes(t, pc) == dupCalls' = [dupCalls EXCEPT ![t].pc = pc]
Ends(t) == dupCalls' = [dupCalls EXCEPT ![t] = IdleCall]
KernelKeeps == UNCHANGED <<dupFiles, dupReplays>>

-----------------------------------------------------------------------------
(* A receive a DUP rule matched: chaos_net_dup_replay first.               *)

Receive(t) ==
    /\ At(t, "idle")
    /\ \E fd \in DupFds :
        /\ Identity(fd) # 0
        /\ dupCalls' = [dupCalls EXCEPT ![t].pc = "replay", ![t].fd = fd]
    /\ KernelKeeps /\ UNCHANGED dupSlot

LockToReplay(t) ==
    /\ At(t, "replay")
    /\ KernelKeeps
    /\ \/ /\ ~dupSlot.mapped \/ dupSlot.lock = 1
          /\ Goes(t, "sample") /\ UNCHANGED dupSlot
       \/ /\ dupSlot.mapped /\ dupSlot.lock = 0
          /\ dupSlot' = [dupSlot EXCEPT !.lock = 1]
          /\ Goes(t, "tag")

CheckTag(t) ==
    /\ At(t, "tag")
    /\ KernelKeeps
    /\ IF dupSlot.fd = dupCalls[t].fd
       THEN Goes(t, "identity") /\ UNCHANGED dupSlot
       ELSE Goes(t, "sample") /\ dupSlot' = [dupSlot EXCEPT !.lock = 0]

(* Mutant: the tag alone is trusted.                                       *)
AssumeIdentity(t) ==
    /\ At(t, "identity")
    /\ dupCalls' = [dupCalls EXCEPT ![t].pc = "deliver", ![t].socket = Identity(dupCalls[t].fd)]
    /\ KernelKeeps /\ UNCHANGED dupSlot

CheckIdentity(t) ==
    /\ At(t, "identity")
    /\ KernelKeeps
    /\ LET named == Identity(dupCalls[t].fd)
       IN IF dupSlot.socket = named
          THEN /\ dupCalls' = [dupCalls EXCEPT ![t].pc = "deliver", ![t].socket = named]
               /\ UNCHANGED dupSlot
          ELSE /\ Goes(t, "sample")
               /\ dupSlot' = [dupSlot EXCEPT !.fd = NoOwner, !.lock = 0]

(* The rule is asked last; a delivery empties the slot.                    *)
Deliver(t) ==
    /\ At(t, "deliver")
    /\ UNCHANGED dupFiles
    /\ \/ /\ dupReplays' = Append(dupReplays, [payload |-> dupSlot.data, to |-> dupCalls[t].socket])
          /\ dupSlot' = [dupSlot EXCEPT !.fd = NoOwner, !.lock = 0]
          /\ Ends(t)
       \/ /\ dupSlot' = [dupSlot EXCEPT !.lock = 0]
          /\ Goes(t, "sample") /\ UNCHANGED dupReplays

-----------------------------------------------------------------------------
(* Nothing was replayed: the real receive, then chaos_net_dup_store.       *)

(* chaos_net_dup_generation also maps the table.                           *)
SampleCloses(t) ==
    /\ At(t, "sample")
    /\ dupSlot' = [dupSlot EXCEPT !.mapped = TRUE]
    /\ dupCalls' = [dupCalls EXCEPT ![t].pc = "call", ![t].count = dupSlot.closes]
    /\ KernelKeeps

(* The kernel holds on to the socket the descriptor named on entry.        *)
EnterReceive(t) ==
    /\ At(t, "call")
    /\ IF Identity(dupCalls[t].fd) = 0
       THEN Ends(t)
       ELSE dupCalls' = [dupCalls EXCEPT ![t].pc = "blocked",
                                         ![t].payload.from = Identity(dupCalls[t].fd)]
    /\ KernelKeeps /\ UNCHANGED dupSlot

ReturnFromReceive(t) ==
    /\ At(t, "blocked")
    /\ UNCHANGED <<dupSlot, dupReplays>>
    /\ \/ Ends(t) /\ UNCHANGED dupFiles                  \* an error, end of stream
       \/ /\ dupFiles.sent < MaxMessages
          /\ dupFiles' = [dupFiles EXCEPT !.sent = @ + 1]
          /\ dupCalls' = [dupCalls EXCEPT ![t].pc = "identify", ![t].payload.n = dupFiles.sent + 1]

IdentifyReceived(t) ==
    /\ At(t, "identify")
    /\ IF Identity(dupCalls[t].fd) = 0
       THEN Ends(t)
       ELSE dupCalls' = [dupCalls EXCEPT ![t].pc = "store", ![t].socket = Identity(dupCalls[t].fd)]
    /\ KernelKeeps /\ UNCHANGED dupSlot

LockToStore(t) ==
    /\ At(t, "store")
    /\ KernelKeeps
    /\ IF dupSlot.lock = 1
       THEN Ends(t) /\ UNCHANGED dupSlot
       ELSE Goes(t, "counted") /\ dupSlot' = [dupSlot EXCEPT !.lock = 1]

(* A descriptor of this slot was closed since the sample: drop.  Otherwise *)
(* the copy begins, over whatever the slot held.                           *)
CheckCloses(t) ==
    /\ At(t, "counted")
    /\ KernelKeeps
    /\ IF dupSlot.closes # dupCalls[t].count
       THEN Ends(t) /\ dupSlot' = [dupSlot EXCEPT !.lock = 0]
       ELSE Goes(t, "copy") /\ dupSlot' = [dupSlot EXCEPT !.data = Torn]

CopyPayload(t) ==
    /\ At(t, "copy")
    /\ dupSlot' = [dupSlot EXCEPT !.data = dupCalls[t].payload, !.socket = dupCalls[t].socket]
    /\ Goes(t, "label") /\ KernelKeeps

TagSlot(t) ==
    /\ At(t, "label")
    /\ dupSlot' = [dupSlot EXCEPT !.fd = dupCalls[t].fd]
    /\ Goes(t, "recheck") /\ KernelKeeps

RecheckCloses(t) ==
    /\ At(t, "recheck")
    /\ dupSlot' = [dupSlot EXCEPT !.lock = 0,
                                  !.fd = IF dupSlot.closes = dupCalls[t].count THEN @ ELSE NoOwner]
    /\ Ends(t) /\ KernelKeeps

-----------------------------------------------------------------------------
(* close(): chaos_net_dup_forget, without the lock, then the real close.   *)

CountClose(t) ==
    /\ At(t, "idle")
    /\ KernelKeeps
    /\ \E fd \in DupFds :
        /\ Identity(fd) # 0
        /\ ~\E u \in DupThreads : dupCalls[u].fd = fd /\ dupCalls[u].pc \in {"untag", "close"}
        /\ IF dupSlot.mapped
           THEN /\ dupSlot' = [dupSlot EXCEPT !.closes = @ + 1]
                /\ dupCalls' = [dupCalls EXCEPT ![t].pc = "untag", ![t].fd = fd,
                                                ![t].count = dupSlot.closes + 1]
           ELSE /\ dupCalls' = [dupCalls EXCEPT ![t].pc = "close", ![t].fd = fd]
                /\ UNCHANGED dupSlot

UntagClosed(t) ==
    /\ At(t, "untag")
    /\ dupSlot' = [dupSlot EXCEPT !.fd = IF @ = dupCalls[t].fd THEN NoOwner ELSE @]
    /\ Goes(t, "close") /\ KernelKeeps

(* Ghost: the receives on fd that run now, or have returned and not yet    *)
(* identified their socket, when fd stops naming it and the count they     *)
(* sampled does not tell.                                                  *)
Loosened(calls, fd, Untold(_)) ==
    [t \in DupThreads |->
        IF calls[t].fd = fd /\ calls[t].pc \in {"blocked", "identify"} /\ Untold(calls[t].count)
        THEN [calls[t] EXCEPT !.payload.loose = TRUE] ELSE calls[t]]

RealClose(t) ==
    /\ At(t, "close")
    /\ dupFiles' = [dupFiles EXCEPT !.open[dupCalls[t].fd] = 0]
    /\ LET Before(sampled) == dupCalls[t].count <= sampled
       IN dupCalls' = [Loosened(dupCalls, dupCalls[t].fd, Before) EXCEPT ![t] = IdleCall]
    /\ UNCHANGED <<dupSlot, dupReplays>>

-----------------------------------------------------------------------------
(* What the kernel does under the library.                                 *)

(* socket() or accept() returns a descriptor number that is free.          *)
OpenSocket(fd) ==
    /\ Identity(fd) = 0
    /\ dupFiles.created < DupSockets
    /\ dupFiles' = [dupFiles EXCEPT !.open[fd] = dupFiles.created + 1, !.created = @ + 1]
    /\ UNCHANGED <<dupSlot, dupCalls, dupReplays>>

(* dup2() of a new socket onto fd, or a raw close and a reuse.             *)
ReplaceSocket(fd) ==
    /\ Identity(fd) # 0
    /\ dupFiles.created < DupSockets /\ dupFiles.replaced < MaxReplaces
    /\ dupFiles' = [dupFiles EXCEPT !.open[fd] = dupFiles.created + 1, !.created = @ + 1,
                                    !.replaced = @ + 1]
    /\ LET Always(sampled) == TRUE
       IN dupCalls' = Loosened(dupCalls, fd, Always)
    /\ UNCHANGED <<dupSlot, dupReplays>>

(* The child of a fork() by an idle thread: chaos_net_dup_after_fork frees *)
(* the lock of a thread that is gone; the tag and the data stay.           *)
ForkDup(t) ==
    /\ At(t, "idle") /\ ~dupFiles.forked
    /\ dupFiles' = [dupFiles EXCEPT !.forked = TRUE]
    /\ dupSlot' = [dupSlot EXCEPT !.lock = 0]
    /\ dupCalls' = [u \in DupThreads |-> IF u = t THEN IdleCall ELSE [IdleCall EXCEPT !.pc = "gone"]]
    /\ UNCHANGED dupReplays

DupNext ==
    \/ \E t \in DupThreads :
        \/ Receive(t) \/ LockToReplay(t) \/ CheckTag(t) \/ CheckIdentity(t) \/ Deliver(t)
        \/ SampleCloses(t) \/ EnterReceive(t) \/ ReturnFromReceive(t) \/ IdentifyReceived(t)
        \/ LockToStore(t) \/ CheckCloses(t) \/ CopyPayload(t) \/ TagSlot(t) \/ RecheckCloses(t)
        \/ CountClose(t) \/ UntagClosed(t) \/ RealClose(t) \/ ForkDup(t)
    \/ \E fd \in DupFds : OpenSocket(fd) \/ ReplaceSocket(fd)

-----------------------------------------------------------------------------
DupSpec == DupInit /\ [][DupNext]_dupVars

(* A duplicate is a real one: what a receive is given again came from the  *)
(* very socket its descriptor named when the replay looked, and no payload *)
(* is given again twice, whatever receives, stores and closes of the       *)
(* slot's descriptors run meanwhile.  (chaos_net_dup_replay;               *)
(* chaos_net_dup_store's two looks at the close count; the lock-free       *)
(* chaos_net_dup_forget.)  Exempt are the payloads marked loose.           *)
ReplaysAreOwn ==
    /\ \A i \in DOMAIN dupReplays :
        dupReplays[i].payload.loose \/ dupReplays[i].payload.from = dupReplays[i].to
    /\ \A i, j \in DOMAIN dupReplays :
        i # j => dupReplays[i].payload.n # dupReplays[j].payload.n \/ dupReplays[i].payload.loose
=============================================================================
