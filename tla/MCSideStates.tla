---------------------------- MODULE MCSideStates ----------------------------
(* Two threads on one DUP slot with two descriptors, two threads reading a  *)
(* regressing clock over two rules of one slot, two lookups, two threads    *)
(* that need the real functions at once; and three traced pids over a table *)
(* of two entries, while the second rule comes and the first goes.          *)
EXTENDS SideStates

CONSTANTS t1, t2
MCThreads == {t1, t2}
MCFds == {3, 67}
MCFiles == <<{"a"}, {"a", "b"}>>
MCScenes == {"dup", "regress", "results", "symbols", "tracees"}
=============================================================================
