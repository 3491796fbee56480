----------------------------- MODULE MCHitsFile -----------------------------
(* Two threads of one process; or one of them and a process with the same   *)
(* pid in another container; or one of them and the thread of its child.    *)
EXTENDS HitsFile

MCProcOf == [t \in Threads |-> CASE t \in {"t1", "t2"} -> "app" [] t = "u1" -> "twin" [] OTHER -> "child"]
MCPid    == [p \in Procs |-> IF p = "child" THEN 2 ELSE 1]
Scene(cast, refused, n) == [cast |-> cast, faults |-> refused, reloads |-> n]
MCScenes == {Scene({"t1", "t2"}, {}, 2), Scene({"t1", "u1"}, {}, 1), Scene({"t1", "c1"}, {}, 1),
             Scene({"t1", "u1"}, {"space", "links", "sticky"}, 0)}

MCPair   == {Scene({"t1", "t2"}, {}, 1)}

MCTwo    == {<<"a">>, <<"a", "b">>}

=============================================================================
