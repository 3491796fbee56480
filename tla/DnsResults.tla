------------------------------ MODULE DnsResults ------------------------------
(***************************************************************************)
(* libchaos-dns: who owns the list of addresses a lookup returns           *)
(* (src/dns/chaos_dns_lookup.c, chaos_dns_actions.c, chaos_dns_owned.c).   *)
(*                                                                         *)
(* A list comes from the C library, node by node, or is the copy an        *)
(* OVERRIDE made: one block of the library's own, entered in a small       *)
(* table, whose nodes are only ever freed together.  FILTER_FAMILY and     *)
(* LIMIT drop nodes, SHUFFLE permutes them, and the program frees what it  *)
(* was given.  A node is [call, part, at, family]: the lookup that made    *)
(* it, 0 or the OVERRIDE literal it stands for, its place, its family.     *)
(* A lookup is one step: its list is its thread's alone, and the table is  *)
(* used under a lock that is held for one scan.                            *)
(***************************************************************************)
EXTENDS Naturals, Sequences, FiniteSets, SequencesExt, BagsExt

CONSTANTS
    MaxLookups,     \* bound: lookups of a run
    MaxNodes,       \* bound: addresses in an answer
    MaxOwned        \* blocks alive at once (256 in the code)

VARIABLES
    dnsHeld,        \* the lists the program holds: nodes, names (the nodes that bear a
                    \* canonical name), asked (AI_CANONNAME)
    dnsTable,       \* the registered blocks, each the set of its nodes
    dnsMade,        \* every node allocated so far, the lookups made (history)
    dnsFreed        \* a bag: how often each node was freed (history)

dnsVars == <<dnsHeld, dnsTable, dnsMade, dnsFreed>>

Families == {4, 6}
Answers == UNION {[1 .. n -> Families] : n \in 1 .. MaxNodes}
Nodes(call, part, families) ==
    [i \in DOMAIN families |-> [call |-> call, part |-> part, at |-> i, family |-> families[i]]]

DnsResultsInit ==
    /\ dnsHeld = {} /\ dnsTable = {} /\ dnsFreed = EmptyBag
    /\ dnsMade = [nodes |-> {}, lookups |-> 0]

-----------------------------------------------------------------------------
(* A list in the making is [nodes, names, freed].                          *)

OwnedContains(table, node) == node \in UNION table

(* Mutant: a node of a block is freed by itself.                           *)
FreeRealAlways(table, nodes) == SetToBag(ToSet(nodes))

(* The real freeaddrinfo walks the list; a node of a block is left to its  *)
(* block.                                                                  *)
FreeReal(table, nodes) ==
    IF nodes = <<>> \/ OwnedContains(table, nodes[1]) THEN EmptyBag
    ELSE SetToBag(ToSet(nodes))

(* Each node of another family is unlinked, isolated and freed, after its  *)
(* canonical name was handed to the next node that has none.               *)
FilterResultList(table, list, family) ==
    LET Visit(acc, i) ==
          LET node == list.nodes[i]
              next == list.nodes[i + 1]
              hands == node \in acc.names /\ i < Len(list.nodes) /\ next \notin acc.names
          IN  IF node.family = family THEN [acc EXCEPT !.nodes = Append(@, node)]
              ELSE [acc EXCEPT !.names = IF hands THEN (@ \ {node}) \cup {next} ELSE @,
                               !.freed = @ (+) FreeReal(table, <<node>>)]
    IN  FoldLeftDomain(Visit, [list EXCEPT !.nodes = <<>>], list.nodes)

(* Mutant: the canonical name stays with the old head.                     *)
ShuffleWithoutName(list) == {[list EXCEPT !.nodes = order] : order \in SetToSeqs(ToSet(list.nodes))}

(* Any order of two or more nodes; old and new head swap canonical names.  *)
ShuffleResultList(list) ==
    LET Swapped(old, new) == {IF n = old THEN new ELSE IF n = new THEN old ELSE n : n \in list.names}
    IN  {[list EXCEPT !.nodes = order, !.names = Swapped(list.nodes[1], order[1])] :
            order \in SetToSeqs(ToSet(list.nodes))}

(* The tail is cut off and freed in one call.                              *)
LimitResultList(table, list, limit) ==
    IF Len(list.nodes) <= limit THEN list
    ELSE [list EXCEPT !.nodes = SubSeq(@, 1, limit),
                      !.freed = @ (+) FreeReal(table, SubSeq(list.nodes, limit + 1, Len(list.nodes)))]

(* What the three effects, each loaded and firing or not, make of a list.  *)
(* A list FILTER_FAMILY empties goes no further.                           *)
Shapes(table, list) ==
    LET filtered == {list} \cup {FilterResultList(table, list, f) : f \in Families}
        left == {l \in filtered : l.nodes # <<>>}
    IN  (filtered \ left)
        \cup {LimitResultList(table, l, n) :
                l \in left \cup UNION {ShuffleResultList(m) : m \in left}, n \in 1 .. MaxNodes}

-----------------------------------------------------------------------------
(* OVERRIDE: the literals the caller's hints allow are resolved one by one *)
(* (good of them before one fails), copied into a block if the table has   *)
(* room, and their own answers freed whatever came of it.                  *)

ApplyOverride(call, table, literals, good, asked) ==
    LET partials == UNION {ToSet(Nodes(call, i, <<literals[i]>>)) : i \in 1 .. good}
        copy == Nodes(call, 0, literals)
        rc == CASE good < Len(literals)          -> "EAI_FAIL"
                [] good = 0                      -> "EAI_NONAME"
                [] Cardinality(table) = MaxOwned -> "EAI_MEMORY"
                [] OTHER                         -> "ok"
    IN  [rc |-> rc,
         made |-> partials \cup (IF rc \in {"ok", "EAI_MEMORY"} THEN ToSet(copy) ELSE {}),
         list |-> [nodes |-> IF rc = "ok" THEN copy ELSE <<>>,
                   names |-> IF rc = "ok" /\ asked THEN {copy[1]} ELSE {},
                   freed |-> SetToBag(IF rc = "EAI_MEMORY" THEN partials \cup ToSet(copy) ELSE partials)]]

Resolved(call, families, asked) ==
    LET nodes == Nodes(call, 0, families)
    IN  [rc |-> "ok", made |-> ToSet(nodes),
         list |-> [nodes |-> nodes, names |-> IF asked THEN {nodes[1]} ELSE {}, freed |-> EmptyBag]]

(* freeaddrinfo: a node of a block frees the whole block, else the real    *)
(* one walks the list.                                                     *)
BlocksOf(table, nodes) == {block \in table : nodes # <<>> /\ nodes[1] \in block}
FreeAnswer(table, nodes) ==
    IF BlocksOf(table, nodes) # {} THEN SetToBag(UNION BlocksOf(table, nodes))
    ELSE SetToBag(ToSet(nodes))

(* The end of a lookup.  A list that was emptied takes its block (owned)   *)
(* with it; the hostent family copies the list out and frees it at once.   *)
EndLookup(answer, owned, hostent, asked) ==
    LET table == dnsTable \cup owned
    IN  \E shaped \in (IF answer.rc = "ok" THEN Shapes(table, answer.list) ELSE {answer.list}) :
        /\ dnsMade' = [nodes |-> dnsMade.nodes \cup answer.made, lookups |-> dnsMade.lookups + 1]
        /\ IF shaped.nodes = <<>>
           THEN /\ dnsTable' = dnsTable /\ dnsHeld' = dnsHeld
                /\ dnsFreed' = dnsFreed (+) shaped.freed (+) SetToBag(UNION owned)
           ELSE IF hostent
           THEN /\ dnsTable' = table \ BlocksOf(table, shaped.nodes) /\ dnsHeld' = dnsHeld
                /\ dnsFreed' = dnsFreed (+) shaped.freed (+) FreeAnswer(table, shaped.nodes)
           ELSE /\ dnsTable' = table
                /\ dnsHeld' = dnsHeld \cup {[nodes |-> shaped.nodes, names |-> shaped.names, asked |-> asked]}
                /\ dnsFreed' = dnsFreed (+) shaped.freed

(* getaddrinfo(), or gethostbyname(), which always asks for the name.      *)
Lookup ==
    /\ dnsMade.lookups < MaxLookups
    /\ \E families \in Answers, asked \in BOOLEAN, hostent \in BOOLEAN :
        /\ hostent => asked
        /\ \/ EndLookup(Resolved(dnsMade.lookups + 1, families, asked), {}, hostent, asked)
           \/ \E hint \in SUBSET Families \ {{}}, good \in 0 .. MaxNodes :
                LET literals == SelectSeq(families, LAMBDA f : f \in hint)
                IN /\ good <= Len(literals)
                   /\ \E answer \in {ApplyOverride(dnsMade.lookups + 1, dnsTable, literals, good, asked)} :
                        EndLookup(answer, IF answer.rc = "ok" THEN {ToSet(answer.list.nodes)} ELSE {},
                                  hostent, asked)

Freeaddrinfo ==
    /\ UNCHANGED dnsMade
    /\ \E result \in dnsHeld :
        /\ dnsHeld' = dnsHeld \ {result}
        /\ dnsTable' = dnsTable \ BlocksOf(dnsTable, result.nodes)
        /\ dnsFreed' = dnsFreed (+) FreeAnswer(dnsTable, result.nodes)

DnsResultsNext == Lookup \/ Freeaddrinfo

-----------------------------------------------------------------------------
(* Every node is freed once, by whoever owns it: none twice, none while    *)
(* the program still holds it, none never, and no block stays in the table *)
(* when no list of it is held, whichever of OVERRIDE, FILTER_FAMILY,       *)
(* SHUFFLE and LIMIT the list went through and whatever failed on the way. *)
(* (chaos_dns_filter_result_list, chaos_dns_limit_result_list,             *)
(* chaos_dns_apply_override, chaos_dns_resolve_with_rules, freeaddrinfo.)  *)
FreedOnce ==
    LET held == UNION {ToSet(result.nodes) : result \in dnsHeld}
    IN  /\ \A node \in BagToSet(dnsFreed) : CopiesIn(node, dnsFreed) = 1
        /\ held \cap BagToSet(dnsFreed) = {}
        /\ dnsMade.nodes = BagToSet(dnsFreed) \cup held \cup UNION dnsTable
        /\ \A block \in dnsTable : \E result \in dnsHeld : result.nodes[1] \in block

(* A list that reaches the program is whole: it has an address, and the    *)
(* canonical name the program asked for is on its first node and on no     *)
(* other, although the node that bore it may be gone or have been moved.   *)
(* (The hand-over in chaos_dns_filter_result_list, the swap in             *)
(* chaos_dns_shuffle_result_list, chaos_dns_owned_copy.)                   *)
ResultsAreWhole ==
    \A result \in dnsHeld :
        /\ result.nodes # <<>>
        /\ result.names \cap ToSet(result.nodes) = IF result.asked THEN {result.nodes[1]} ELSE {}
=============================================================================
