------------------------------- MODULE TaskLife -------------------------------
(***************************************************************************)
(* What the controller of an EdgeTask promises of the clusters, whatever   *)
(* fails: it touches them only while the task is held by its finalizer, so *)
(* that nothing is applied for a task that can vanish unseen, and nothing  *)
(* changes any more for a task that has gone.                              *)
(***************************************************************************)
CONSTANTS Clusters, Names, Contents, Absent

VARIABLES
  life,         \* "new", "held" or "gone"
  applied       \* the resources on every cluster

lvars == <<life, applied>>

Init ==
  /\ life = "new"
  /\ applied = [c \in Clusters |-> [n \in Names |-> Absent]]

Hold == life = "new" /\ life' = "held" /\ UNCHANGED applied

Write(c, n, content) ==
  /\ life = "held"
  /\ applied' = [applied EXCEPT ![c][n] = content]
  /\ UNCHANGED life

Go == life # "gone" /\ life' = "gone" /\ UNCHANGED applied

Next ==
  \/ Hold
  \/ Go
  \/ \E c \in Clusters, n \in Names, content \in Contents \cup {Absent} :
       Write(c, n, content)

Spec == Init /\ [][Next]_lvars
=============================================================================
