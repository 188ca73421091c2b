------------------------------ MODULE MCEdgeTask ------------------------------
(***************************************************************************)
(* Small instances of EdgeTask for TLC.                                    *)
(***************************************************************************)
EXTENDS EdgeTask, TLC

CONSTANTS A, x, y, v

Only(n, content) == [m \in Names |-> IF m = n THEN content ELSE Absent]

\* One task that is never edited.
OnceSpecs == {[cluster |-> A, resources |-> Only(x, v)]}

\* A task with two resources that loses one, or is spoiled.
EditSpecs ==
  {[cluster |-> A, resources |-> [n \in Names |-> v]],
   [cluster |-> A, resources |-> Only(x, v)],
   [cluster |-> A, resources |-> Unparsable]}
=============================================================================
