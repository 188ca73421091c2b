------------------------------ MODULE TaskOrder ------------------------------
(***************************************************************************)
(* What the task queue promises of a task, whatever is delivered twice,    *)
(* restarted or lost: the functions of its steps take effect in the order  *)
(* of their list, those of a step after its parent's, and its record says  *)
(* Success only when every function has returned without an error.         *)
(***************************************************************************)
EXTENDS Integers

CONSTANTS Tasks, N, End, Functions

VARIABLES done,     \* done[t]: the steps whose functions have succeeded
          outcome   \* outcome[t]: what the record of t says, if there is one

vars == <<done, outcome>>

(* The functions that must have succeeded before s's function is called:   *)
(* those of the earlier steps whose list s is in or below.                 *)
Before(s) == {r \in Functions : r < s /\ s <= End[r]}

Outcomes == {"none", "Pending", "Success", "Error"}

Init == /\ done = [t \in Tasks |-> {}]
        /\ outcome = [t \in Tasks |-> "none"]

Complete(t, s) ==
    /\ Before(s) \subseteq done[t]
    /\ done' = [done EXCEPT ![t] = @ \cup {s}]

Report(t, o) ==
    /\ o = "Success" => Functions \subseteq done[t]
    /\ outcome' = [outcome EXCEPT ![t] = o]

Step(t) ==
    /\ UNCHANGED done \/ \E s \in Functions : Complete(t, s)
    /\ UNCHANGED outcome \/ \E o \in Outcomes : Report(t, o)

Next == \E t \in Tasks : Step(t)

Spec == Init /\ [][Next]_vars
===============================================================================
