----------------------------- MODULE MCHitSlots -----------------------------
(* Instances of HitSlots for TLC. *)
EXTENDS HitSlots, TLC

CONSTANTS a, b, t1, t2

\* A process that does not fork, whose slots are kept, freed, handed on and
\* shared by a line written twice; one that forks at any moment of a reload,
\* with the smallest pool the sizing rule allows; and one whose child reads a
\* file that names a new rule before one it has.
Edited == [files |-> {<<>>, <<a>>, <<b>>, <<a, b>>, <<b, a>>, <<a, a>>}, pool |-> 4, forks |-> 0]
Forked == [files |-> {<<>>, <<a>>, <<b>>}, pool |-> 2, forks |-> 2]
Caught == [files |-> {<<a>>, <<b>>, <<b, a>>}, pool |-> 4, forks |-> 1]
All == {Edited, Forked, Caught}
OnlyCaught == {Caught}

\* One rule whose allowance is soon used up, one whose claims fill their field.
FirstMix == (a :> 1) @@ (b :> 5)
Symmetric == Permutations({t1, t2})
=============================================================================
