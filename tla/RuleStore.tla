------------------------------ MODULE RuleStore ------------------------------
(***************************************************************************)
(* What the reload protocol promises the wrappers, without snapshots,      *)
(* sequences or claims: a store of one rule set that is replaced as a      *)
(* whole.  A replacement takes effect somewhere between being prepared and *)
(* being published.  A call is answered by a rule of one rule set that was *)
(* in force, or on its way, since the call began, or by no rule; except    *)
(* that a call which began its copy in the instant a replacement was being *)
(* cleared may return anything (RuleReload!TornOnlyFromZero).              *)
(***************************************************************************)
EXTENDS Naturals

CONSTANTS Threads, Words, NoRules

VARIABLES
  rules,      \* the rule set in force
  next,       \* the replacement on its way: a set of at most one rule set
  offered,    \* per thread: rule sets its call may be answered from; {}: idle
  overtaken,  \* per thread: its copy began on a rule set being cleared
  answer      \* per thread: the two words of the rule it was last given

vars == <<rules, next, offered, overtaken, answer>>
NoCopy == <<NoRules, NoRules>>

Init ==
  /\ rules = NoRules /\ next = {}
  /\ offered = [t \in Threads |-> {}]
  /\ overtaken = [t \in Threads |-> FALSE]
  /\ answer = [t \in Threads |-> NoCopy]

Call(t) ==
  /\ offered[t] = {}
  /\ offered' = [offered EXCEPT ![t] = {rules} \cup next]
  /\ answer' = [answer EXCEPT ![t] = NoCopy]
  /\ UNCHANGED <<rules, next, overtaken>>

Prepare(w) ==
  /\ next = {}
  /\ next' = {w}
  /\ offered' = [t \in Threads |-> IF offered[t] = {} THEN {} ELSE offered[t] \cup {w}]
  /\ UNCHANGED <<rules, overtaken, answer>>

Publish ==
  /\ next # {}
  /\ rules' \in next
  /\ next' = {}
  /\ UNCHANGED <<offered, overtaken, answer>>

Overtake(readers) ==
  /\ \A t \in readers : offered[t] # {}
  /\ overtaken' = [t \in Threads |-> overtaken[t] \/ t \in readers]
  /\ UNCHANGED <<rules, next, offered, answer>>

Return(t) ==
  /\ offered[t] # {}
  /\ answer' \in {[answer EXCEPT ![t] = a] :
       a \in {NoCopy} \cup {<<w, w>> : w \in offered[t]}
               \cup (IF overtaken[t] THEN Words \X Words ELSE {})}
  /\ offered' = [offered EXCEPT ![t] = {}]
  /\ overtaken' = [overtaken EXCEPT ![t] = FALSE]
  /\ UNCHANGED <<rules, next>>

\* In a forked child every call is gone, and a replacement on its way too.
Fork ==
  /\ next' = {}
  /\ offered' = [t \in Threads |-> {}]
  /\ overtaken' = [t \in Threads |-> FALSE]
  /\ answer' = [t \in Threads |-> NoCopy]
  /\ UNCHANGED rules

Next ==
  \/ \E t \in Threads : Call(t) \/ Return(t)
  \/ \E w \in Words : Prepare(w)
  \/ \E readers \in SUBSET Threads : Overtake(readers)
  \/ Publish \/ Fork

Spec == Init /\ [][Next]_vars
=============================================================================
