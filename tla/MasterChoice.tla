---------------------------- MODULE MasterChoice ----------------------------
(****************************************************************************)
(* What the arbiter promises a duallive pair: for each version of the pair  *)
(* one side at most is ever named master, and both hosts are told the same. *)
(* The promise ends for good when something happens that excuses it.        *)
(****************************************************************************)
CONSTANTS Versions, Sides

VARIABLES
    named,      \* the sides that hosts were told are master, by version
    bound       \* the promise stands

Init ==
    /\ named = [v \in Versions |-> {}]
    /\ bound = TRUE

\* A host is told that side s is master of version v: the first to be told
\* fixes the choice, every later answer repeats it.
Tell(v, s) ==
    /\ bound
    /\ named[v] \subseteq {s}
    /\ named' = [named EXCEPT ![v] = {s}]
    /\ UNCHANGED bound

\* From here on hosts may be told anything.
Excused ==
    /\ bound' = FALSE
    /\ named' \in [Versions -> SUBSET Sides]

Next ==
    \/ \E v \in Versions, s \in Sides : Tell(v, s)
    \/ Excused

Spec == Init /\ [][Next]_<<named, bound>>
=============================================================================
