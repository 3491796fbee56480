---------------------------- MODULE SideStates ----------------------------
(***************************************************************************)
(* Small states kept beside the rules: the payload slot of DUP, the state  *)
(* machine of REGRESS, the address lists of OVERRIDE, the pointers to the  *)
(* real functions, and chaos-init's table of traced processes. None shares *)
(* anything with another; a behaviour runs one.                            *)
(***************************************************************************)
EXTENDS NetDup, TimeRegress, DnsResults, Once, InitTracees

CONSTANT Scenes     \* the states a run looks at
VARIABLE scene

stateVars == <<scene, dupVars, rgVars, dnsVars, onceVars, traceeVars>>

Init ==
    /\ scene \in Scenes
    /\ DupInit /\ RegressInit /\ DnsResultsInit /\ OnceInit /\ TraceesInit

Next ==
    \/ scene = "dup"     /\ DupNext        /\ UNCHANGED <<scene, rgVars, dnsVars, onceVars, traceeVars>>
    \/ scene = "regress" /\ RegressNext    /\ UNCHANGED <<scene, dupVars, dnsVars, onceVars, traceeVars>>
    \/ scene = "results" /\ DnsResultsNext /\ UNCHANGED <<scene, dupVars, rgVars, onceVars, traceeVars>>
    \/ scene = "symbols" /\ OnceNext       /\ UNCHANGED <<scene, dupVars, rgVars, dnsVars, traceeVars>>
    \/ scene = "tracees" /\ TraceesNext    /\ UNCHANGED <<scene, dupVars, rgVars, dnsVars, onceVars>>

Spec == Init /\ [][Next]_stateVars
=============================================================================
