---------------------------- MODULE EdgeTask_proofs ----------------------------
(***************************************************************************)
(* What holds of every EdgeTask, however it is edited, whatever fails and  *)
(* however often the controller restarts.                                  *)
(***************************************************************************)
EXTENDS EdgeTask, TLAPS

-----------------------------------------------------------------------------
(* The inductive invariant.                                                *)

\* A status that is true of a version, with resources e on the clusters: it lists
\* what that version asks for and what is on its cluster, and Running is of the
\* version's resources.
TrueOf(e, status, o) ==
  /\ status.record \subseteq Rendered(o)
  /\ \A n \in status.record : e[o.spec.cluster][n] # Absent
  /\ status.phase = "Running" => status.hash = o.spec.resources

\* A version's status is of an older generation, or true of the version.
VersionOK(e, o) ==
  /\ o.status.observed <= o.generation
  /\ o.status.observed = o.generation => TrueOf(e, o.status, o)

VersionsOK == VersionOK(edge, task) /\ VersionOK(edge, cached) /\ VersionOK(edge, obj)

\* The worker applies only what it has read as not deleted and held by the
\* finalizer, and such a task cannot go under it: a deletion mark that the worker
\* has seen is in the cache, which does not go back.
HoldInv ==
  /\ cached.exists /\ cached.finalizer /\ ~cached.deleting
       => task.exists /\ task.finalizer
  /\ cached.deleting => task.deleting
  /\ pc # "idle" /\ obj.deleting => cached.deleting
  /\ pc \in {"cleaned", "unfinalize"} => obj.deleting
  /\ pc \in {"wait", "sync", "check"} =>
       /\ ~obj.deleting /\ obj.spec.resources # Unparsable
       /\ task.exists /\ task.finalizer

\* What the worker computes is true of the version in hand.
WorkInv ==
  /\ pc \notin {"idle", "finalizer"} =>
       st.observed = obj.generation /\ TrueOf(edge, st, obj)
  /\ pc = "check" => st.hash = obj.spec.resources
  /\ pc \in {"idle", "finalizer", "wait"} => managed = {} /\ todo = {} /\ ~failed
  /\ todo \subseteq {"create", "apply"} \X Names
  /\ pc = "sync" =>
       /\ managed \subseteq Rendered(obj)
       /\ \A item \in todo : item[2] \in Rendered(obj)
       /\ \A n \in managed : edge[Target][n] # Absent
       /\ \A item \in todo :
            item[1] = "apply" => edge[Target][item[2]] # Absent

Inv == TypeOK /\ VersionsOK /\ HoldInv /\ WorkInv

LEMMA NewTaskType ==
  ASSUME NEW s \in Specs
  PROVE  /\ NewTask(s) \in Task /\ ~NewTask(s).deleting
         /\ \A e : VersionOK(e, NewTask(s))
<1>1. NewStatus \in Status
  BY DEF NewStatus, Status
<1>2. NewTask(s) \in Task
  BY <1>1 DEF NewTask, Task
<1>3. NewTask(s).status.observed = 0 /\ NewTask(s).generation = 1
  BY DEF NewTask, NewStatus
<1> QED
  BY <1>2, <1>3 DEF VersionOK, NewTask

LEMMA NoTaskType ==
  /\ NoTask \in Task /\ ~NoTask.exists /\ ~NoTask.deleting
  /\ \A e : VersionOK(e, NoTask)
<1> DEFINE s == CHOOSE s \in Specs : TRUE
<1>1. s \in Specs
  BY EdgeTaskAssumption
<1>2. NewTask(s) \in Task /\ ~NewTask(s).deleting
  BY <1>1, NewTaskType
<1> HIDE DEF s
<1> DEFINE t == NewTask(s)
<1>3. /\ [t EXCEPT !.exists = FALSE] \in Task
      /\ ~[t EXCEPT !.exists = FALSE].exists
      /\ ~[t EXCEPT !.exists = FALSE].deleting
  BY <1>2 DEF Task
<1>4. t.status.observed = 0 /\ t.generation = 1
  BY DEF NewTask, NewStatus
<1>5. /\ [t EXCEPT !.exists = FALSE].status.observed = 0
      /\ [t EXCEPT !.exists = FALSE].generation = 1
  BY <1>2, <1>4 DEF Task
<1>6. \A e : VersionOK(e, [t EXCEPT !.exists = FALSE])
  BY <1>5 DEF VersionOK
<1>7. NoTask = [t EXCEPT !.exists = FALSE]
  BY DEF NoTask, s
<1> QED
  BY <1>3, <1>6, <1>7

LEMMA SpecType ==
  ASSUME NEW s \in Specs
  PROVE  /\ s.cluster \in Clusters /\ s.resources \in Manifests
         /\ s.resources # Unparsable => s.resources \in Content
  BY EdgeTaskAssumption DEF Manifests

LEMMA InitInv == Init => Inv
<1> SUFFICES ASSUME Init PROVE Inv
  OBVIOUS
<1>1. PICK s \in Specs : task = NewTask(s)
  BY DEF Init
<1>2. task \in Task /\ VersionOK(edge, task)
  BY <1>1, NewTaskType
<1>3. TypeOK
  <2>1. st \in Status
    BY DEF Init, NewStatus, Status
  <2>2. edge \in [Clusters -> Content]
    BY DEF Init, Content
  <2>3. left \in [{"edits", "faults", "lost", "flaps", "crashes"} -> Nat]
    <3>1. left = [edits |-> MaxEdits, faults |-> MaxFaults, lost |-> MaxLost,
                  flaps |-> MaxFlaps, crashes |-> MaxCrashes]
      BY DEF Init
    <3>2. /\ MaxEdits \in Nat /\ MaxFaults \in Nat /\ MaxLost \in Nat
          /\ MaxFlaps \in Nat /\ MaxCrashes \in Nat
      BY EdgeTaskAssumption
    <3> QED
      BY <3>1, <3>2
  <2>4. /\ phase \in [Clusters -> {"Missing", "Offline", "Online"}]
        /\ cache \in [Clusters -> Content \cup {NoCache}]
    BY DEF Init
  <2> QED
    BY <1>2, <2>1, <2>2, <2>3, <2>4, NoTaskType DEF Init, TypeOK, PCs
<1>4. VersionsOK
  BY <1>2, NoTaskType DEF Init, VersionsOK
<1>5. HoldInv /\ WorkInv
  BY NoTaskType DEF Init, HoldInv, WorkInv
<1> QED
  BY <1>3, <1>4, <1>5 DEF Inv

-----------------------------------------------------------------------------
(* Type correctness.  The resources of a version that is being applied are *)
(* not unparsable, hence HoldInv.                                          *)

LEMMA SpendType ==
  ASSUME TypeOK, NEW b \in {"edits", "faults", "lost", "flaps", "crashes"}, Spend(b)
  PROVE  left' \in [{"edits", "faults", "lost", "flaps", "crashes"} -> Nat]
  BY DEF TypeOK, Spend

LEMMA ResetType ==
  ASSUME NEW o \in Task
  PROVE  ResetStatus(o) \in Status
  BY DEF ResetStatus, Task, Status

LEMMA RestType ==
  ASSUME Rest
  PROVE  pc' \in PCs /\ obj' \in Task /\ st' \in Status /\ todo' = {}
         /\ managed' = {} /\ failed' \in BOOLEAN
  BY NoTaskType DEF Rest, PCs, NewStatus, Status

\* What SyncOne writes is the content the spec gives.
LEMMA ResultContent ==
  ASSUME Inv, pc = "sync", NEW item \in Due
  PROVE  /\ item[2] \in Rendered(obj) /\ item[1] \in {"create", "apply"}
         /\ Result(item) \in Contents /\ Result(item) # Absent
         /\ Result(item) = obj.spec.resources[item[2]]
         /\ item[2] \in Names /\ Target \in Clusters /\ item \in todo
<1>1. item \in todo /\ item \in {"create", "apply"} \X Names
  BY DEF Due, Inv, WorkInv
<1>2. item[2] \in Rendered(obj) /\ item[1] \in {"create", "apply"} /\ item[2] \in Names
  BY <1>1 DEF Inv, WorkInv
<1>3. obj.spec \in Specs
  BY DEF Inv, TypeOK, Task
<1>4. Target \in Clusters /\ obj.spec.resources \in Content
  BY <1>3, SpecType DEF Target, Inv, HoldInv
<1>5. Result(item) = obj.spec.resources[item[2]]
  BY <1>2 DEF Result
<1>6. obj.spec.resources[item[2]] \in Contents /\ obj.spec.resources[item[2]] # Absent
  BY <1>2, <1>4 DEF Rendered, Held, Content
<1> QED
  BY <1>1, <1>2, <1>4, <1>5, <1>6

LEMMA UserType ==
  ASSUME Inv, UserStep \/ WatchTask
  PROVE  TypeOK'
<1>1. ASSUME NEW s \in Specs, Edit(s) PROVE TypeOK'
  <2>1. left' \in [{"edits", "faults", "lost", "flaps", "crashes"} -> Nat]
    BY <1>1, SpendType DEF Edit, Inv
  <2>2. task.generation + 1 \in Nat
    BY DEF Inv, TypeOK, Task
  <2>3. task' \in Task
    BY <1>1, <2>2 DEF Edit, Inv, TypeOK, Task
  <2> QED
    BY <1>1, <2>1, <2>3 DEF Edit, Inv, TypeOK, worker, edges
<1>2. CASE Delete
  <2>1. task.generation + 1 \in Nat
    BY DEF Inv, TypeOK, Task
  <2>2. task' \in Task
    BY <1>2, <2>1 DEF Delete, Inv, TypeOK, Task
  <2> QED
    BY <1>2, <2>2 DEF Delete, Inv, TypeOK, worker, edges
<1>3. CASE WatchTask
  BY <1>3 DEF WatchTask, Inv, TypeOK, worker, edges
<1> QED
  BY <1>1, <1>2, <1>3 DEF UserStep

LEMMA ControlType ==
  ASSUME Inv, ControlStep
  PROVE  TypeOK'
<1> DEFINE Bounds == {"edits", "faults", "lost", "flaps", "crashes"}
<1>1. CASE Reconcile
  <2>1. ResetStatus(cached) \in Status /\ cached.status \in Status /\ cached \in Task
    BY ResetType DEF Inv, TypeOK, Task
  <2>2. /\ pc' \in PCs /\ obj' \in Task /\ st' \in Status
        /\ UNCHANGED <<todo, managed, failed>>
    BY <1>1, <2>1 DEF Reconcile, Begin, worker, Inv, TypeOK, PCs
  <2> QED
    BY <1>1, <2>2 DEF Reconcile, Inv, TypeOK, edges
<1>2. CASE AddFinalizer
  <2>1. task' \in Task
    BY <1>2 DEF AddFinalizer, Inv, TypeOK, Task
  <2>2. left' \in [Bounds -> Nat]
    BY <1>2, SpendType DEF AddFinalizer, Inv, TypeOK
  <2> QED
    BY <1>2, <2>1, <2>2, RestType DEF AddFinalizer, Inv, TypeOK, edges
<1>3. CASE WriteStatus
  <2>1. task' \in Task
    BY <1>3 DEF WriteStatus, Inv, TypeOK, Task
  <2>2. left' \in [Bounds -> Nat]
    BY <1>3, SpendType DEF WriteStatus, Inv, TypeOK
  <2> QED
    BY <1>3, <2>1, <2>2, RestType DEF WriteStatus, Inv, TypeOK, edges
<1>4. CASE WriteCleaned
  <2>1. task' \in Task /\ obj' \in Task
    BY <1>4 DEF WriteCleaned, Inv, TypeOK, Task
  <2>2. left' \in [Bounds -> Nat]
    BY <1>4, SpendType DEF WriteCleaned, Inv, TypeOK
  <2> QED
    BY <1>4, <2>1, <2>2 DEF WriteCleaned, Inv, TypeOK, edges, PCs
<1>5. CASE RemoveFinalizer
  <2>1. task' \in Task
    BY <1>5 DEF RemoveFinalizer, Inv, TypeOK, Task
  <2>2. left' \in [Bounds -> Nat]
    BY <1>5, SpendType DEF RemoveFinalizer, Inv, TypeOK
  <2>3. /\ pc' \in PCs /\ obj' \in Task /\ st' \in Status
        /\ todo' \subseteq Operations \X Names /\ managed' \subseteq Names
        /\ failed' \in BOOLEAN /\ queued' \in BOOLEAN
    BY <1>5, RestType DEF RemoveFinalizer, Fail, Inv, TypeOK, PCs
  <2> QED
    BY <1>5, <2>1, <2>2, <2>3 DEF RemoveFinalizer, Inv, TypeOK, edges
<1> QED
  BY <1>1, <1>2, <1>3, <1>4, <1>5 DEF ControlStep

LEMMA StageType ==
  ASSUME Inv, StageStep
  PROVE  TypeOK'
<1>0. Rendered(obj) \subseteq Names /\ st.record \subseteq Names
  BY DEF Rendered, Held, Inv, TypeOK, Status
<1>1. CASE WaitForCluster
  <2>1. Diff(st.record, Rendered(obj)) \subseteq Operations \X Names
    BY <1>0 DEF Diff, Operations
  <2>2. cache' \in [Clusters -> Content \cup {NoCache}]
    BY <1>1 DEF WaitForCluster, Inv, TypeOK
  <2>3. pc' \in PCs /\ failed' \in BOOLEAN /\ todo' \subseteq Operations \X Names
    BY <1>1, <2>1 DEF WaitForCluster, Fail, Inv, TypeOK, PCs
  <2> QED
    BY <1>1, <2>2, <2>3 DEF WaitForCluster, Inv, TypeOK
<1>2. CASE FillCache
  <2>1. obj.spec \in Specs
    BY DEF Inv, TypeOK, Task
  <2>2. Target \in Clusters
    BY <2>1, SpecType DEF Target
  <2> QED
    BY <1>2, <2>2 DEF FillCache, Inv, TypeOK, worker
<1>3. CASE SyncOne
  <2>1. PICK item \in Due, ok \in BOOLEAN, done \in BOOLEAN :
          /\ ok \/ Refused(item) => UNCHANGED left
          /\ ~ok /\ ~Refused(item) => Spend("faults")
          /\ edge' = IF done THEN [edge EXCEPT ![Target][item[2]] = Result(item)]
                     ELSE edge
          /\ todo' = todo \ {item}
          /\ managed' = managed \cup Noted(item, ok)
          /\ failed' = (failed \/ ~ok)
    BY <1>3 DEF SyncOne
  <2>2. pc = "sync"
    BY <1>3 DEF SyncOne
  <2>3. Result(item) \in Contents /\ item[2] \in Names
    BY <2>2, ResultContent
  <2>4. edge' \in [Clusters -> Content]
    BY <2>1, <2>3 DEF Inv, TypeOK, Content
  <2>5. left' \in [{"edits", "faults", "lost", "flaps", "crashes"} -> Nat]
    BY <2>1, SpendType DEF Inv, TypeOK
  <2>6. managed' \subseteq Names
    BY <2>1, <2>3 DEF Noted, Inv, TypeOK
  <2> QED
    BY <1>3, <2>1, <2>4, <2>5, <2>6 DEF SyncOne, Inv, TypeOK
<1>4. CASE SyncEnd
  <2>1. obj.spec \in Specs
    BY DEF Inv, TypeOK, Task
  <2>2. obj.spec.resources \in Manifests
    BY <2>1, SpecType
  <2>3. ASSUME st' = st PROVE st' \in Status
    BY <2>3 DEF Inv, TypeOK
  <2>4. ASSUME st' # st PROVE st' \in Status
    <3> DEFINE h == IF failed THEN st.hash ELSE obj.spec.resources
    <3>1. st' = [st EXCEPT !.record = managed, !.hash = h]
      BY <1>4, <2>4 DEF SyncEnd
    <3>2. st \in Status /\ managed \subseteq Names
      BY DEF Inv, TypeOK
    <3>3. h \in Manifests \cup {Absent}
      BY <2>2, <3>2 DEF Status
    <3> HIDE DEF h
    <3> QED
      BY <3>1, <3>2, <3>3 DEF Status
  <2>5. st' \in Status
    BY <2>3, <2>4
  <2> QED
    BY <1>4, <2>5 DEF SyncEnd, Inv, TypeOK, PCs, edges
<1>5. CASE CheckResources
  <2>1. st' \in Status
    BY <1>5 DEF CheckResources, Inv, TypeOK, Status
  <2> QED
    BY <1>5, <2>1 DEF CheckResources, Inv, TypeOK, PCs, edges
<1> QED
  BY <1>1, <1>2, <1>3, <1>4, <1>5 DEF StageStep

LEMMA EdgeType ==
  ASSUME Inv, Crash \/ \E c \in Clusters : EdgeStep(c)
  PROVE  TypeOK'
<1>1. CASE Crash
  <2>1. left' \in [{"edits", "faults", "lost", "flaps", "crashes"} -> Nat]
    BY <1>1, SpendType DEF Crash, Inv
  <2> QED
    BY <1>1, <2>1, RestType DEF Crash, Inv, TypeOK
<1>2. ASSUME NEW c \in Clusters, EdgeStep(c) PROVE TypeOK'
  <2>1. CASE EdgeEvent(c)
    BY <2>1 DEF EdgeEvent, Inv, TypeOK, worker
  <2>2. CASE Lose(c)
    <3>1. left' \in [{"edits", "faults", "lost", "flaps", "crashes"} -> Nat]
      BY <2>2, SpendType DEF Lose, Inv
    <3> QED
      BY <2>2, <3>1 DEF Lose, Inv, TypeOK, worker
  <2>3. CASE Regain(c)
    BY <2>3 DEF Regain, Inv, TypeOK, worker
  <2>4. CASE Register(c)
    BY <2>4 DEF Register, Inv, TypeOK, worker
  <2>5. CASE ClusterPhase(c)
    <3>1. Triggered(c) \in BOOLEAN
      BY DEF Triggered, Inv, TypeOK, Task
    <3> QED
      BY <2>5, <3>1 DEF ClusterPhase, Inv, TypeOK, worker
  <2> QED
    BY <1>2, <2>1, <2>2, <2>3, <2>4, <2>5 DEF EdgeStep
<1> QED
  BY <1>1, <1>2

LEMMA TypeStep == Inv /\ [Next]_vars => TypeOK'
<1> SUFFICES ASSUME Inv, [Next]_vars PROVE TypeOK'
  OBVIOUS
<1>1. CASE UNCHANGED vars
  BY <1>1 DEF vars, worker, edges, Inv, TypeOK
<1>2. CASE Next
  BY <1>2, UserType, ControlType, StageType, EdgeType DEF Next
<1> QED
  BY <1>1, <1>2

-----------------------------------------------------------------------------
(* What is on the clusters only grows, so a status stays true of a version. *)

Grown(e, f) == \A c \in Clusters, n \in Names : e[c][n] # Absent => f[c][n] # Absent

LEMMA TrueGrows ==
  ASSUME NEW e, NEW f, Grown(e, f), NEW o \in Task, NEW status \in Status,
         TrueOf(e, status, o)
  PROVE  TrueOf(f, status, o)
<1>1. o.spec \in Specs /\ status.record \subseteq Names
  BY DEF Task, Status
<1>2. o.spec.cluster \in Clusters
  BY <1>1, SpecType
<1> QED
  BY <1>1, <1>2 DEF TrueOf, Grown

LEMMA VersionGrows ==
  ASSUME NEW e, NEW f, Grown(e, f), NEW o \in Task, VersionOK(e, o)
  PROVE  VersionOK(f, o)
<1>1. o.status \in Status
  BY DEF Task
<1> QED
  BY <1>1, TrueGrows DEF VersionOK

\* The step of SyncOne, with what it chooses.
LEMMA SyncOneGrows ==
  ASSUME Inv, SyncOne
  PROVE  Grown(edge, edge')
<1>1. PICK item \in Due, done \in BOOLEAN :
        edge' = IF done THEN [edge EXCEPT ![Target][item[2]] = Result(item)] ELSE edge
  BY DEF SyncOne
<1>2. pc = "sync"
  BY DEF SyncOne
<1>3. Result(item) # Absent /\ item[2] \in Names /\ Target \in Clusters
  BY <1>2, ResultContent
<1>4. edge \in [Clusters -> Content]
  BY DEF Inv, TypeOK
<1>5. \A c \in Clusters, n \in Names : edge'[c][n] = edge[c][n] \/ edge'[c][n] = Result(item)
  BY <1>1, <1>3, <1>4 DEF Content
<1> QED
  BY <1>3, <1>5 DEF Grown

\* Only SyncOne writes to a cluster.
LEMMA EdgeWritten == [Next]_vars => SyncOne \/ edge' = edge
<1> SUFFICES ASSUME [Next]_vars, ~SyncOne PROVE edge' = edge
  OBVIOUS
<1>1. CASE UserStep \/ WatchTask
  BY <1>1 DEF UserStep, WatchTask, Edit, Delete, edges
<1>2. CASE ControlStep
  BY <1>2 DEF ControlStep, Reconcile, AddFinalizer, WriteStatus, WriteCleaned,
              RemoveFinalizer, edges
<1>3. CASE StageStep
  BY <1>3 DEF StageStep, WaitForCluster, FillCache, SyncEnd, CheckResources, edges
<1>4. CASE Crash \/ \E c \in Clusters : EdgeStep(c)
  BY <1>4 DEF Crash, EdgeStep, EdgeEvent, Lose, Regain, Register, ClusterPhase
<1>5. CASE UNCHANGED vars
  BY <1>5 DEF vars, edges
<1> QED
  BY <1>1, <1>2, <1>3, <1>4, <1>5 DEF Next

LEMMA StepGrows == Inv /\ [Next]_vars => Grown(edge, edge')
BY EdgeWritten, SyncOneGrows DEF Grown

-----------------------------------------------------------------------------
(* The versions stay true: a new generation makes a status an older one,   *)
(* and the worker stores what is true of the version in hand, which is the *)
(* newest.                                                                 *)

LEMMA SameVersion ==
  ASSUME NEW e, NEW o \in Task, NEW p \in Task, VersionOK(e, o),
         p.status = o.status, p.generation = o.generation,
         p.spec = o.spec, p.deleting = o.deleting
  PROVE  VersionOK(e, p)
BY DEF VersionOK, TrueOf, Rendered

LEMMA NewGeneration ==
  ASSUME NEW e, NEW o \in Task, NEW p \in Task, VersionOK(e, o),
         p.status = o.status, p.generation = o.generation + 1
  PROVE  VersionOK(e, p)
<1>1. o.status \in Status /\ o.generation \in Nat
  BY DEF Task
<1>2. o.status.observed \in Nat
  BY <1>1 DEF Status
<1> QED
  BY <1>1, <1>2 DEF VersionOK

\* What the worker stores.
LEMMA StoredStatus ==
  ASSUME Inv, pc \in {"status", "cleaned"}, Newest
  PROVE  VersionOK(edge, [task EXCEPT !.status = st])
<1> DEFINE p == [task EXCEPT !.status = st]
<1>1. task \in Task /\ st \in Status
  BY DEF Inv, TypeOK
<1>2. st.observed = obj.generation /\ TrueOf(edge, st, obj) /\ obj = task
  BY DEF Inv, WorkInv, Newest
<1>3. /\ p.status = st /\ p.generation = task.generation
      /\ p.spec = task.spec /\ p.deleting = task.deleting
  BY <1>1 DEF Task
<1>4. task.generation \in Nat
  BY <1>1 DEF Task
<1> HIDE DEF p
<1>5. TrueOf(edge, st, p)
  BY <1>2, <1>3 DEF TrueOf, Rendered
<1>6. VersionOK(edge, p)
  BY <1>2, <1>3, <1>4, <1>5 DEF VersionOK
<1> QED
  BY <1>6 DEF p

LEMMA TaskVersion == Inv /\ [Next]_vars => VersionOK(edge', task')
<1> SUFFICES ASSUME Inv, [Next]_vars PROVE VersionOK(edge', task')
  OBVIOUS
<1>0. task \in Task /\ VersionOK(edge, task) /\ task' \in Task
  BY TypeStep DEF Inv, TypeOK, VersionsOK
<1>1. CASE task' = task
  BY <1>0, <1>1, StepGrows, VersionGrows
<1>2. ASSUME NEW s \in Specs, Edit(s) PROVE VersionOK(edge', task')
  <2>1. task'.status = task.status /\ task'.generation = task.generation + 1
    BY <1>0, <1>2 DEF Edit, Task
  <2>2. edge' = edge
    BY <1>2 DEF Edit, edges
  <2> QED
    BY <1>0, <2>1, <2>2, NewGeneration
<1>3. CASE Delete
  <2>1. edge' = edge
    BY <1>3 DEF Delete, edges
  <2>2. CASE task.finalizer
    <3>1. task'.status = task.status /\ task'.generation = task.generation + 1
      BY <1>0, <1>3, <2>2 DEF Delete, Task
    <3> QED
      BY <1>0, <2>1, <3>1, NewGeneration
  <2>3. CASE ~task.finalizer
    <3>1. /\ task'.status = task.status /\ task'.generation = task.generation
          /\ task'.spec = task.spec /\ task'.deleting = task.deleting
      BY <1>0, <1>3, <2>3 DEF Delete, Task
    <3> QED
      BY <1>0, <2>1, <3>1, SameVersion
  <2> QED
    BY <2>2, <2>3
<1>4. CASE AddFinalizer /\ task' # task
  <2>1. /\ edge' = edge
        /\ task'.status = task.status /\ task'.generation = task.generation
        /\ task'.spec = task.spec /\ task'.deleting = task.deleting
    BY <1>0, <1>4 DEF AddFinalizer, edges, Task
  <2> QED
    BY <1>0, <2>1, SameVersion
<1>5. CASE (WriteStatus \/ WriteCleaned) /\ task' # task
  <2>1. /\ pc \in {"status", "cleaned"} /\ Newest /\ edge' = edge
        /\ task' = [task EXCEPT !.status = st]
    BY <1>5 DEF WriteStatus, WriteCleaned, edges
  <2> QED
    BY <2>1, StoredStatus
<1>6. CASE RemoveFinalizer /\ task' # task
  <2>1. /\ edge' = edge
        /\ task'.status = task.status /\ task'.generation = task.generation
        /\ task'.spec = task.spec /\ task'.deleting = task.deleting
    BY <1>0, <1>6 DEF RemoveFinalizer, edges, Task
  <2> QED
    BY <1>0, <2>1, SameVersion
<1>7. ASSUME StageStep \/ Crash \/ WatchTask \/ Reconcile
             \/ (\E c \in Clusters : EdgeStep(c)) \/ UNCHANGED vars
      PROVE  task' = task
  BY <1>7 DEF StageStep, WaitForCluster, FillCache, SyncOne, SyncEnd,
       CheckResources, Crash, WatchTask, Reconcile, EdgeStep, EdgeEvent, Lose,
       Regain, Register, ClusterPhase, vars
<1> QED
  BY <1>1, <1>2, <1>3, <1>4, <1>5, <1>6, <1>7 DEF Next, UserStep, ControlStep

LEMMA CachedFollows ==
  ASSUME [Next]_vars PROVE cached' \in {task, cached} /\ (cached' # cached => task' = task)
BY DEF Next, UserStep, ControlStep, StageStep, EdgeStep, Edit, Delete, WatchTask,
     Reconcile, AddFinalizer, WriteStatus, WriteCleaned, RemoveFinalizer,
     WaitForCluster, FillCache, SyncOne, SyncEnd, CheckResources, EdgeEvent, Lose,
     Regain, Register, ClusterPhase, Crash, vars

LEMMA HandFollows ==
  ASSUME [Next]_vars PROVE obj' \in {obj, cached, task', NoTask}
BY DEF Next, UserStep, ControlStep, StageStep, EdgeStep, Edit, Delete, WatchTask,
     Reconcile, Begin, AddFinalizer, WriteStatus, WriteCleaned, RemoveFinalizer, Rest,
     WaitForCluster, FillCache, SyncOne, SyncEnd, CheckResources, EdgeEvent, Lose,
     Regain, Register, ClusterPhase, Crash, vars, worker

LEMMA VersionsStep == Inv /\ [Next]_vars => VersionsOK'
<1> SUFFICES ASSUME Inv, [Next]_vars PROVE VersionsOK'
  OBVIOUS
<1>1. VersionOK(edge', task')
  BY TaskVersion
<1>2. /\ task \in Task /\ cached \in Task /\ obj \in Task
      /\ VersionOK(edge, task) /\ VersionOK(edge, cached) /\ VersionOK(edge, obj)
  BY DEF Inv, TypeOK, VersionsOK
<1>3. VersionOK(edge', task) /\ VersionOK(edge', cached) /\ VersionOK(edge', obj)
  BY <1>2, StepGrows, VersionGrows
<1>4. VersionOK(edge', NoTask)
  BY NoTaskType
<1> QED
  BY <1>1, <1>3, <1>4, CachedFollows, HandFollows DEF VersionsOK

-----------------------------------------------------------------------------
(* The task stays while the worker applies it.                             *)

LEMMA HoldUser ==
  ASSUME Inv, UserStep \/ WatchTask
  PROVE  HoldInv'
<1>0. task \in Task /\ cached \in Task
  BY DEF Inv, TypeOK
<1>1. ASSUME NEW s \in Specs, Edit(s) PROVE HoldInv'
  <2>1. /\ task'.exists = task.exists /\ task'.finalizer = task.finalizer
        /\ task'.deleting = task.deleting
    BY <1>0, <1>1 DEF Edit, Task
  <2> QED
    BY <1>1, <2>1 DEF Edit, Inv, HoldInv, worker
<1>2. CASE Delete
  <2>1. CASE task.finalizer
    <3>1. /\ task'.exists = task.exists /\ task'.finalizer = task.finalizer
          /\ task'.deleting
      BY <1>0, <1>2, <2>1 DEF Delete, Task
    <3> QED
      BY <1>2, <3>1 DEF Delete, Inv, HoldInv, worker
  <2>2. CASE ~task.finalizer
    <3>1. task'.deleting = task.deleting
      BY <1>0, <1>2, <2>2 DEF Delete, Task
    <3> QED
      BY <1>2, <2>2, <3>1 DEF Delete, Inv, HoldInv, worker
  <2> QED
    BY <2>1, <2>2
<1>3. CASE WatchTask
  BY <1>3 DEF WatchTask, Inv, HoldInv, worker
<1> QED
  BY <1>1, <1>2, <1>3 DEF UserStep

\* A version marked as deleted has nothing left to remove after its reset.
LEMMA DeletingIsClean ==
  ASSUME Inv, cached.deleting
  PROVE  ResetStatus(cached).record = {}
<1>1. cached \in Task /\ VersionOK(edge, cached)
  BY DEF Inv, TypeOK, VersionsOK
<1>2. cached.status \in Status
  BY <1>1 DEF Task
<1>3. CASE cached.status.observed = cached.generation
  BY <1>1, <1>3 DEF ResetStatus, VersionOK, TrueOf, Rendered
<1>4. CASE cached.status.observed # cached.generation
  BY <1>2, <1>4 DEF ResetStatus, Status
<1> QED
  BY <1>3, <1>4

LEMMA HoldControl ==
  ASSUME Inv, ControlStep
  PROVE  HoldInv'
<1>0. task \in Task /\ cached \in Task /\ obj \in Task
  BY DEF Inv, TypeOK
<1>1. CASE Reconcile
  <2>1. cached.deleting => ResetStatus(cached).record = {}
    BY DeletingIsClean
  <2>2. task' = task /\ cached' = cached
    BY <1>1 DEF Reconcile
  <2>3. CASE ~cached.exists
    BY <1>1, <2>2, <2>3 DEF Reconcile, Inv, HoldInv, worker
  <2>4. CASE cached.exists /\ cached.deleting
    <3>1. pc' = "cleaned" /\ obj' = cached
      BY <1>1, <2>1, <2>4 DEF Reconcile, Begin
    <3> QED
      BY <2>2, <2>4, <3>1 DEF Inv, HoldInv
  <2>5. CASE cached.exists /\ ~cached.deleting /\ ~cached.finalizer
    <3>1. pc' = "finalizer" /\ obj' = cached
      BY <1>1, <2>5 DEF Reconcile, Begin
    <3> QED
      BY <2>2, <2>5, <3>1 DEF Inv, HoldInv
  <2>6. CASE cached.exists /\ ~cached.deleting /\ cached.finalizer
    <3>1. /\ pc' = IF cached.spec.resources = Unparsable THEN "status" ELSE "wait"
          /\ obj' = cached
      BY <1>1, <2>6 DEF Reconcile, Begin
    <3> QED
      BY <2>2, <2>6, <3>1 DEF Inv, HoldInv
  <2> QED
    BY <2>3, <2>4, <2>5, <2>6
<1>2. CASE AddFinalizer
  <2>1. /\ task'.exists = task.exists /\ task'.deleting = task.deleting
        /\ task.finalizer => task'.finalizer
    BY <1>0, <1>2 DEF AddFinalizer, Task
  <2> QED
    BY <1>2, <2>1 DEF AddFinalizer, Rest, Inv, HoldInv
<1>3. CASE WriteStatus
  <2>1. /\ task'.exists = task.exists /\ task'.deleting = task.deleting
        /\ task'.finalizer = task.finalizer
    BY <1>0, <1>3 DEF WriteStatus, Task
  <2> QED
    BY <1>3, <2>1 DEF WriteStatus, Rest, Inv, HoldInv
<1>4. CASE WriteCleaned
  <2>1. /\ task'.exists = task.exists /\ task'.deleting = task.deleting
        /\ task'.finalizer = task.finalizer /\ obj'.deleting = obj.deleting
    BY <1>0, <1>4 DEF WriteCleaned, Newest, Task
  <2> QED
    BY <1>4, <2>1 DEF WriteCleaned, Inv, HoldInv
<1>5. CASE RemoveFinalizer
  <2>1. task'.deleting = task.deleting
    BY <1>0, <1>5 DEF RemoveFinalizer, Task
  <2>2. cached' = cached /\ cached.deleting
    BY <1>5 DEF RemoveFinalizer, Inv, HoldInv
  <2>3. pc' = "idle" \/ (pc' = "status" /\ obj' = obj)
    BY <1>5 DEF RemoveFinalizer, Rest, Fail
  <2> QED
    BY <2>1, <2>2, <2>3 DEF Inv, HoldInv
<1> QED
  BY <1>1, <1>2, <1>3, <1>4, <1>5 DEF ControlStep

LEMMA HoldStage ==
  ASSUME Inv, StageStep
  PROVE  HoldInv'
<1>1. UNCHANGED <<task, cached, obj>>
  BY DEF StageStep, WaitForCluster, FillCache, SyncOne, SyncEnd, CheckResources, worker
<1>2. pc' = pc \/ (~obj.deleting /\ pc' \in {"sync", "check", "status"}
                   /\ pc \in {"wait", "sync", "check"})
  BY DEF StageStep, WaitForCluster, FillCache, SyncOne, SyncEnd, CheckResources,
         worker, Fail, Inv, HoldInv
<1> QED
  BY <1>1, <1>2 DEF Inv, HoldInv

LEMMA HoldEdge ==
  ASSUME Inv, Crash \/ (\E c \in Clusters : EdgeStep(c)) \/ UNCHANGED vars
  PROVE  HoldInv'
<1>1. CASE Crash
  BY <1>1 DEF Crash, Rest, Inv, HoldInv
<1>2. CASE (\E c \in Clusters : EdgeStep(c)) \/ UNCHANGED vars
  BY <1>2 DEF EdgeStep, EdgeEvent, Lose, Regain, Register, ClusterPhase, vars,
              worker, Inv, HoldInv
<1> QED
  BY <1>1, <1>2

LEMMA HoldStep == Inv /\ [Next]_vars => HoldInv'
BY HoldUser, HoldControl, HoldStage, HoldEdge DEF Next

-----------------------------------------------------------------------------
(* What the worker computes stays true of the version in hand.             *)

\* The part of WorkInv that a step of others leaves alone.
LEMMA WorkOthers ==
  ASSUME Inv, UNCHANGED <<worker, edge>>
  PROVE  WorkInv'
BY DEF Inv, WorkInv, worker, Target, Rendered, TrueOf

LEMMA WorkRest ==
  ASSUME Rest
  PROVE  WorkInv'
BY DEF Rest, WorkInv

\* The reset makes the status one of the version.
LEMMA ResetTrue ==
  ASSUME NEW e, NEW o \in Task, VersionOK(e, o)
  PROVE  ResetStatus(o).observed = o.generation /\ TrueOf(e, ResetStatus(o), o)
<1>1. o.status \in Status /\ o.generation \in Nat
  BY DEF Task
<1>2. CASE o.status.observed = o.generation
  BY <1>2 DEF ResetStatus, VersionOK
<1>3. CASE o.status.observed # o.generation
  <2>1. /\ ResetStatus(o).observed = o.generation
        /\ ResetStatus(o).record = {} /\ ResetStatus(o).phase = ""
    BY <1>1, <1>3 DEF ResetStatus, Status
  <2> QED
    BY <2>1 DEF TrueOf
<1> QED
  BY <1>2, <1>3

LEMMA WorkControl ==
  ASSUME Inv, ControlStep
  PROVE  WorkInv'
<1>1. CASE Reconcile
  <2>1. cached \in Task /\ VersionOK(edge, cached)
    BY DEF Inv, TypeOK, VersionsOK
  <2>2. /\ ResetStatus(cached).observed = cached.generation
        /\ TrueOf(edge, ResetStatus(cached), cached)
    BY <2>1, ResetTrue
  <2>3. managed = {} /\ todo = {} /\ ~failed
    BY <1>1 DEF Reconcile, Inv, WorkInv
  <2>4. edge' = edge
    BY <1>1 DEF Reconcile, edges
  <2>5. CASE ~cached.exists
    BY <1>1, <2>4, <2>5, WorkOthers DEF Reconcile
  <2>6. CASE cached.exists /\ ~cached.deleting /\ ~cached.finalizer
    <3>1. pc' = "finalizer" /\ UNCHANGED <<managed, todo, failed>>
      BY <1>1, <2>6 DEF Reconcile, Begin
    <3> QED
      BY <2>3, <3>1 DEF WorkInv
  <2>7. CASE cached.exists /\ (cached.deleting \/ cached.finalizer)
    <3>1. /\ pc' \in {"cleaned", "wait", "status"} /\ obj' = cached
          /\ st' = ResetStatus(cached) /\ UNCHANGED <<managed, todo, failed>>
      BY <1>1, <2>7 DEF Reconcile, Begin
    <3> QED
      BY <2>2, <2>3, <2>4, <3>1 DEF WorkInv
  <2> QED
    BY <2>5, <2>6, <2>7
<1>2. CASE AddFinalizer \/ WriteStatus
  BY <1>2, WorkRest DEF AddFinalizer, WriteStatus
<1>3. CASE WriteCleaned
  <2>0. pc = "cleaned" /\ obj \in Task /\ st \in Status
    BY <1>3 DEF WriteCleaned, Inv, TypeOK
  <2>1. st.observed = obj.generation /\ TrueOf(edge, st, obj)
    BY <2>0 DEF Inv, WorkInv
  <2>2. /\ obj'.generation = obj.generation /\ obj'.spec = obj.spec
        /\ obj'.deleting = obj.deleting
    BY <1>3, <2>0 DEF WriteCleaned, Newest, Task
  <2>3. pc' = "unfinalize" /\ UNCHANGED <<st, todo, managed, edge>>
    BY <1>3 DEF WriteCleaned, edges
  <2>4. TrueOf(edge, st, obj')
    BY <2>1, <2>2 DEF TrueOf, Rendered
  <2> QED
    BY <2>1, <2>2, <2>3, <2>4 DEF WorkInv, Inv
<1>4. CASE RemoveFinalizer
  <2>1. CASE Rest
    BY <2>1, WorkRest
  <2>2. CASE ~Rest
    <3>1. pc = "unfinalize" /\ pc' = "status" /\ UNCHANGED <<obj, st, todo, managed, edge>>
      BY <1>4, <2>2 DEF RemoveFinalizer, Fail, edges
    <3> QED
      BY <3>1 DEF WorkInv, Inv
  <2> QED
    BY <2>1, <2>2
<1> QED
  BY <1>1, <1>2, <1>3, <1>4 DEF ControlStep

\* SyncDiff notes only what is wanted and, once its call has been made, there.
LEMMA WorkSync ==
  ASSUME Inv, SyncOne
  PROVE  WorkInv'
<1>1. PICK item \in Due, ok \in BOOLEAN, done \in BOOLEAN :
        /\ ok => done
        /\ edge' = IF done THEN [edge EXCEPT ![Target][item[2]] = Result(item)]
                   ELSE edge
        /\ todo' = todo \ {item}
        /\ managed' = managed \cup Noted(item, ok)
  BY DEF SyncOne
<1>2. pc = "sync" /\ pc' = "sync" /\ UNCHANGED <<obj, st>>
  BY DEF SyncOne
<1>3. /\ item[2] \in Rendered(obj) /\ item[1] \in {"create", "apply"}
      /\ Result(item) # Absent
      /\ item[2] \in Names /\ Target \in Clusters /\ item \in todo
  BY <1>2, ResultContent
<1>4. Grown(edge, edge')
  BY SyncOneGrows
<1>5. st.observed = obj.generation /\ TrueOf(edge', st, obj)
  <2>1. st.observed = obj.generation /\ TrueOf(edge, st, obj)
    BY <1>2 DEF Inv, WorkInv
  <2> QED
    BY <1>4, <2>1, TrueGrows DEF Inv, TypeOK
<1>6. Noted(item, ok) \subseteq {item[2]}
  BY DEF Noted
<1>7. Noted(item, ok) # {} => edge'[Target][item[2]] # Absent
  <2>1. CASE item[1] = "apply"
    <3>1. edge[Target][item[2]] # Absent
      BY <1>2, <1>3, <2>1 DEF Inv, WorkInv
    <3> QED
      BY <1>3, <1>4, <3>1 DEF Grown
  <2>2. CASE item[1] = "create" /\ ok
    <3>1. edge' = [edge EXCEPT ![Target][item[2]] = Result(item)]
      BY <1>1, <2>2
    <3> QED
      BY <1>3, <3>1 DEF Inv, TypeOK, Content
  <2>3. CASE item[1] = "create" /\ ~ok
    BY <2>3 DEF Noted
  <2> QED
    BY <1>3, <2>1, <2>2, <2>3
<1>8. /\ todo \subseteq {"create", "apply"} \X Names
      /\ managed \subseteq Rendered(obj) /\ managed \subseteq Names
      /\ \A i \in todo : i[2] \in Rendered(obj)
      /\ \A n \in managed : edge[Target][n] # Absent
      /\ \A i \in todo : i[1] = "apply" => edge[Target][i[2]] # Absent
  BY <1>2 DEF Inv, WorkInv, TypeOK
<1>9. /\ todo' \subseteq {"create", "apply"} \X Names
      /\ managed' \subseteq Rendered(obj)
      /\ \A i \in todo' : i[2] \in Rendered(obj)
  BY <1>1, <1>3, <1>6, <1>8
<1>10. \A n \in managed' : edge'[Target][n] # Absent
  BY <1>1, <1>3, <1>4, <1>6, <1>7, <1>8 DEF Grown
<1>11. \A i \in todo' : i[1] = "apply" => edge'[Target][i[2]] # Absent
  <2>1. \A i \in todo : i[2] \in Names
    BY <1>8
  <2> QED
    BY <1>1, <1>3, <1>4, <1>8, <2>1 DEF Grown
<1>12. Rendered(obj)' = Rendered(obj) /\ Target' = Target
  BY <1>2 DEF Rendered, Target
<1>13. TrueOf(edge, st, obj)'
  BY <1>2, <1>5
<1> QED
  BY <1>2, <1>5, <1>9, <1>10, <1>11, <1>12, <1>13 DEF WorkInv

LEMMA WorkStage ==
  ASSUME Inv, StageStep
  PROVE  WorkInv'
<1>0. obj \in Task /\ st \in Status /\ Rendered(obj) \subseteq Names
  BY DEF Inv, TypeOK, Rendered, Held
<1>1. CASE WaitForCluster
  <2>1. /\ pc = "wait" /\ st.observed = obj.generation /\ TrueOf(edge, st, obj)
        /\ managed = {} /\ todo = {}
    BY <1>1 DEF WaitForCluster, Inv, WorkInv
  <2>2. UNCHANGED <<obj, st, managed, edge>>
    BY <1>1 DEF WaitForCluster
  <2>3. TrueOf(edge, st, obj)' /\ st'.observed = obj'.generation
    BY <2>1, <2>2
  <2>4. CASE pc' = "status" /\ todo' = todo
    BY <2>1, <2>2, <2>3, <2>4 DEF WorkInv
  <2>5. CASE pc' = "check" /\ todo' = todo /\ st.hash = obj.spec.resources
    BY <2>1, <2>2, <2>3, <2>5 DEF WorkInv
  <2>6. CASE pc' = "sync" /\ todo' = Diff(st.record, Rendered(obj))
    <3>1. /\ todo' \subseteq {"create", "apply"} \X Names
          /\ \A item \in todo' : item[2] \in Rendered(obj)
      BY <1>0, <2>1, <2>6 DEF Diff, TrueOf
    <3>2. \A item \in todo' : item[1] = "apply" => item[2] \in st.record
      BY <2>6 DEF Diff
    <3>3. Rendered(obj)' = Rendered(obj) /\ Target' = Target
      BY <2>2 DEF Rendered, Target
    <3>4. \A item \in todo' : item[1] = "apply" => edge[Target][item[2]] # Absent
      BY <2>1, <3>2 DEF TrueOf, Target
    <3> QED
      BY <2>1, <2>2, <2>3, <2>6, <3>1, <3>3, <3>4 DEF WorkInv
  <2> QED
    BY <1>1, <2>4, <2>5, <2>6 DEF WaitForCluster, Fail
<1>2. CASE FillCache
  BY <1>2, WorkOthers DEF FillCache
<1>3. CASE SyncOne
  BY <1>3, WorkSync
<1>4. CASE SyncEnd
  <2>1. /\ pc = "sync" /\ todo = {} /\ UNCHANGED <<obj, todo, managed, failed, edge>>
    BY <1>4 DEF SyncEnd, edges
  <2>2. /\ ~obj.deleting /\ st.observed = obj.generation /\ TrueOf(edge, st, obj)
        /\ managed \subseteq Rendered(obj)
        /\ \A n \in managed : edge[Target][n] # Absent
    BY <2>1 DEF Inv, HoldInv, WorkInv
  <2>3. st' = [st EXCEPT !.record = managed,
                         !.hash = IF failed THEN @ ELSE obj.spec.resources]
    BY <1>4, <2>2 DEF SyncEnd
  <2>4. /\ st'.record = managed /\ st'.observed = st.observed /\ st'.phase = st.phase
        /\ st'.hash = IF failed THEN st.hash ELSE obj.spec.resources
    BY <1>0, <2>3 DEF Status
  <2>5. TrueOf(edge, st', obj)
    BY <2>2, <2>4 DEF TrueOf, Target
  <2>6. TrueOf(edge, st, obj)'
    BY <2>1, <2>5
  <2>7. pc' = "status" \/ (pc' = "check" /\ ~failed)
    BY <1>4, <2>2 DEF SyncEnd
  <2>8. pc' = "check" => st'.hash = obj'.spec.resources
    BY <2>1, <2>4, <2>7
  <2> QED
    BY <2>1, <2>2, <2>4, <2>6, <2>7, <2>8 DEF WorkInv
<1>5. CASE CheckResources
  <2>1. /\ pc = "check" /\ pc' = "status" /\ UNCHANGED <<obj, todo, managed, failed, edge>>
    BY <1>5 DEF CheckResources, edges
  <2>2. /\ st.observed = obj.generation /\ TrueOf(edge, st, obj)
        /\ st.hash = obj.spec.resources /\ todo \subseteq {"create", "apply"} \X Names
    BY <2>1 DEF Inv, WorkInv
  <2>3. st'.observed = st.observed /\ st'.record = st.record /\ st'.hash = st.hash
    BY <1>0, <1>5 DEF CheckResources, Status
  <2>4. TrueOf(edge, st', obj)
    BY <2>2, <2>3 DEF TrueOf
  <2>5. TrueOf(edge, st, obj)'
    BY <2>1, <2>4
  <2> QED
    BY <2>1, <2>2, <2>3, <2>5 DEF WorkInv
<1> QED
  BY <1>1, <1>2, <1>3, <1>4, <1>5 DEF StageStep

LEMMA WorkStep == Inv /\ [Next]_vars => WorkInv'
<1> SUFFICES ASSUME Inv, [Next]_vars PROVE WorkInv'
  OBVIOUS
<1>1. CASE UserStep \/ WatchTask
  BY <1>1, WorkOthers DEF UserStep, Edit, Delete, WatchTask, edges
<1>2. CASE Crash
  BY <1>2, WorkRest DEF Crash
<1>3. CASE (\E c \in Clusters : EdgeStep(c)) \/ UNCHANGED vars
  BY <1>3, WorkOthers DEF EdgeStep, EdgeEvent, Lose, Regain, Register, ClusterPhase,
                          vars, worker
<1> QED
  BY <1>1, <1>2, <1>3, WorkControl, WorkStage DEF Next

-----------------------------------------------------------------------------
(* The theorems.                                                           *)

\* Every state the controller and its surroundings reach satisfies the inductive
\* invariant (Reconcile and its stages, and all that happens around them).
THEOREM Invariance == Spec => []Inv
<1>1. Inv /\ [Next]_vars => Inv'
  BY TypeStep, VersionsStep, HoldStep, WorkStep DEF Inv
<1> QED
  BY InitInv, <1>1, PTL DEF Spec

\* Every variable of the controller keeps its type, in particular the phases
\* that Reconcile writes and the operations that SyncDiff makes.
THEOREM TypeCorrect == Spec => []TypeOK
BY Invariance, PTL DEF Inv

\* What the status lists for the current generation is on the cluster, whatever
\* failed half-way and however often the controller restarted (SyncDiff).
THEOREM RecordIsHonest == Spec => []RecordHonest
<1>1. Inv => RecordHonest
  BY DEF Inv, VersionsOK, VersionOK, TrueOf, RecordHonest, Current
<1> QED
  BY <1>1, Invariance, PTL

\* A task that is Running in its current generation has had the resources of its
\* spec applied as a whole (checkGenerationResetStatus and the conflicts of
\* Status().Update keep an older Running from surviving an edit).
THEOREM RunningOfSpec == Spec => []RunningIsOfSpec
<1>1. Inv => RunningIsOfSpec
  BY DEF Inv, VersionsOK, VersionOK, TrueOf, RunningIsOfSpec, Current
<1> QED
  BY <1>1, Invariance, PTL

-----------------------------------------------------------------------------
(* The controller implements TaskLife.                                     *)

LEMMA LifeInit == Init => Life!Init
<1> SUFFICES ASSUME Init PROVE Life!Init
  OBVIOUS
<1>1. PICK s \in Specs : task = NewTask(s)
  BY DEF Init
<1>2. task.exists /\ ~task.finalizer
  BY <1>1 DEF NewTask
<1> QED
  BY <1>2 DEF Init, Life!Init, Stage

\* A step that leaves the task's existence and finalizer and the clusters alone.
LEMMA LifeStutter ==
  ASSUME task'.exists = task.exists, task'.finalizer = task.finalizer, edge' = edge
  PROVE  UNCHANGED Life!lvars
BY DEF Life!lvars, Stage

LEMMA LifeStep == Inv /\ [Next]_vars => [Life!Next]_(Life!lvars)
<1> SUFFICES ASSUME Inv, [Next]_vars PROVE Life!Next \/ UNCHANGED Life!lvars
  OBVIOUS
<1>0. task \in Task
  BY DEF Inv, TypeOK
<1>1. ASSUME NEW s \in Specs, Edit(s) PROVE UNCHANGED Life!lvars
  <2>1. task'.exists = task.exists /\ task'.finalizer = task.finalizer
    BY <1>0, <1>1 DEF Edit, Task
  <2> QED
    BY <1>1, <2>1, LifeStutter DEF Edit, edges
<1>2. CASE Delete
  <2>1. task.exists /\ edge' = edge
    BY <1>2 DEF Delete, edges
  <2>2. CASE task.finalizer
    <3>1. task'.exists = task.exists /\ task'.finalizer = task.finalizer
      BY <1>0, <1>2, <2>2 DEF Delete, Task
    <3> QED
      BY <2>1, <3>1, LifeStutter
  <2>3. CASE ~task.finalizer
    <3>1. ~task'.exists
      BY <1>0, <1>2, <2>3 DEF Delete, Task
    <3>2. Life!Go
      BY <2>1, <3>1 DEF Life!Go, Stage
    <3> QED
      BY <3>2 DEF Life!Next
  <2> QED
    BY <2>2, <2>3
<1>3. CASE AddFinalizer
  <2>1. edge' = edge
    BY <1>3 DEF AddFinalizer, edges
  <2>2. CASE task' = task
    BY <2>1, <2>2, LifeStutter
  <2>3. CASE task' # task
    <3>1. task.exists /\ task'.exists /\ task'.finalizer
      BY <1>0, <1>3, <2>3 DEF AddFinalizer, Newest, Task
    <3>2. task.finalizer => UNCHANGED Life!lvars
      BY <2>1, <3>1, LifeStutter
    <3>3. ~task.finalizer => Life!Hold
      BY <2>1, <3>1 DEF Life!Hold, Stage
    <3> QED
      BY <3>2, <3>3 DEF Life!Next
  <2> QED
    BY <2>2, <2>3
<1>4. CASE WriteStatus \/ WriteCleaned
  <2>1. /\ task'.exists = task.exists /\ task'.finalizer = task.finalizer
        /\ edge' = edge
    BY <1>0, <1>4 DEF WriteStatus, WriteCleaned, edges, Task
  <2> QED
    BY <2>1, LifeStutter
<1>5. CASE RemoveFinalizer
  <2>1. edge' = edge
    BY <1>5 DEF RemoveFinalizer, edges
  <2>2. CASE task' = task
    BY <2>1, <2>2, LifeStutter
  <2>3. CASE task' # task
    <3>1. task.exists /\ ~task'.exists
      BY <1>0, <1>5, <2>3 DEF RemoveFinalizer, Newest, Task
    <3>2. Life!Go
      BY <2>1, <3>1 DEF Life!Go, Stage
    <3> QED
      BY <3>2 DEF Life!Next
  <2> QED
    BY <2>2, <2>3
<1>6. CASE SyncOne
  <2>1. PICK item \in Due, done \in BOOLEAN :
          edge' = IF done THEN [edge EXCEPT ![Target][item[2]] = Result(item)]
                  ELSE edge
    BY <1>6 DEF SyncOne
  <2>2. pc = "sync" /\ task' = task
    BY <1>6 DEF SyncOne
  <2>3. /\ Result(item) \in Contents \cup {Absent} /\ item[2] \in Names
        /\ Target \in Clusters
    BY <2>2, ResultContent
  <2>4. Stage = "held" /\ Stage' = "held"
    BY <2>2 DEF Inv, HoldInv, Stage
  <2>5. CASE done
    <3>1. Life!Write(Target, item[2], Result(item))
      BY <2>1, <2>4, <2>5 DEF Life!Write
    <3> QED
      BY <2>3, <3>1 DEF Life!Next
  <2>6. CASE ~done
    BY <2>1, <2>4, <2>6 DEF Life!lvars
  <2> QED
    BY <2>5, <2>6
<1>7. CASE WatchTask \/ Reconcile \/ Crash \/ UNCHANGED vars
  BY <1>7, LifeStutter DEF WatchTask, Reconcile, Crash, edges, vars
<1>8. CASE WaitForCluster \/ FillCache \/ SyncEnd \/ CheckResources
  BY <1>8, LifeStutter DEF WaitForCluster, FillCache, SyncEnd, CheckResources, edges
<1>9. CASE \E c \in Clusters : EdgeStep(c)
  BY <1>9, LifeStutter DEF EdgeStep, EdgeEvent, Lose, Regain, Register, ClusterPhase
<1> QED
  BY <1>1, <1>2, <1>3, <1>4, <1>5, <1>6, <1>7, <1>8, <1>9
     DEF Next, UserStep, ControlStep, StageStep

\* The clusters are touched only while the task is held by its finalizer, and
\* never again once it is gone: every step of the controller is one of TaskLife
\* or leaves its state alone (the finalizer of Reconcile and remove).
THEOREM LifeImplemented == Spec => ImplementsLife
<1> QED
  BY LifeInit, LifeStep, Invariance, PTL DEF Spec, ImplementsLife, Life!Spec
-----------------------------------------------------------------------------
(* Until a task is edited, every version of it asks for the same resources. *)

\* All that the task asks for is on its cluster, as it asks for it.
There ==
  /\ task.spec.resources # Unparsable
  /\ \A n \in Held(task.spec.resources) :
       edge[task.spec.cluster][n] = task.spec.resources[n]

\* A status whose hash is that of the resources is one of a task they are there for.
Says(status) == status.hash = task.spec.resources => There

\* While the task is of its first generation, its hash is stored when everything has
\* been applied; until a resource fails, SyncDiff has applied what it has not left.
FirstInv ==
  /\ task.generation # 0
  /\ task.generation = 1 =>
       /\ cached.exists => cached.spec = task.spec /\ Says(cached.status)
       /\ pc # "idle" => obj.spec = task.spec /\ Says(st)
       /\ Says(task.status)
       /\ pc = "sync" /\ ~failed =>
            \A n \in Rendered(obj) : \/ edge[Target][n] = obj.spec.resources[n]
                                     \/ \E item \in todo : item[2] = n

LEMMA FirstInit == Init => FirstInv
<1> SUFFICES ASSUME Init PROVE FirstInv
  OBVIOUS
<1>1. PICK s \in Specs : task = NewTask(s)
  BY DEF Init
<1>2. task.spec.resources \in Manifests
  BY <1>1, SpecType DEF NewTask
<1>3. task.generation = 1 /\ task.status.hash = Absent
  BY <1>1 DEF NewTask, NewStatus
<1>4. Says(task.status)
  BY <1>2, <1>3, EdgeTaskAssumption DEF Says
<1> QED
  BY <1>3, <1>4, NoTaskType DEF Init, FirstInv

\* A step that leaves the versions, the worker and the clusters alone.
LEMMA FirstOthers ==
  ASSUME FirstInv, UNCHANGED <<task, worker, edge>>, cached' \in {task, cached}
  PROVE  FirstInv'
BY DEF FirstInv, Says, There, Rendered, Held, Target, worker

\* What has been applied of the first generation stays, since only that is applied.
LEMMA ThereStays ==
  ASSUME Inv, FirstInv, [Next]_vars, task.generation = 1, There,
         task'.spec = task.spec
  PROVE  There'
<1>1. CASE edge' = edge
  BY <1>1 DEF There, Held
<1>2. CASE SyncOne
  <2>1. PICK item \in Due, done \in BOOLEAN :
          edge' = IF done THEN [edge EXCEPT ![Target][item[2]] = Result(item)] ELSE edge
    BY <1>2 DEF SyncOne
  <2>2. pc = "sync" /\ obj.spec = task.spec
    BY <1>2 DEF SyncOne, FirstInv
  <2>3. /\ Result(item) = task.spec.resources[item[2]] /\ item[2] \in Names
        /\ Target \in Clusters /\ Target = task.spec.cluster
    BY <2>2, ResultContent DEF Target
  <2>4. \A n \in Names : \/ edge'[Target][n] = edge[Target][n]
                         \/ edge'[Target][n] = task.spec.resources[n]
    <3>1. edge \in [Clusters -> Content]
      BY DEF Inv, TypeOK
    <3>2. CASE ~done
      BY <2>1, <3>2
    <3>3. CASE done
      <4>1. edge'[Target] = [edge[Target] EXCEPT ![item[2]] = Result(item)]
        BY <2>1, <2>3, <3>1, <3>3
      <4>2. edge[Target] \in [Names -> Contents \cup {Absent}]
        BY <2>3, <3>1 DEF Content
      <4> QED
        BY <2>3, <4>1, <4>2
    <3> QED
      BY <3>2, <3>3
  <2> QED
    BY <2>3, <2>4 DEF There, Held
<1>3. edge' = edge \/ SyncOne
  BY EdgeWritten
<1> QED
  BY <1>1, <1>2, <1>3

\* A step keeps the first generation if what it stores and takes into its hand comes
\* from where that was already said, or rests on what it has applied.
LEMMA FirstCarried ==
  ASSUME Inv, FirstInv, [Next]_vars,
         task'.generation = task.generation, task'.spec = task.spec,
         \/ task'.status.hash = task.status.hash
         \/ pc # "idle" /\ task'.status.hash = st.hash,
         cached' = cached \/ cached' = task,
         pc' # "idle" =>
           \/ pc # "idle" /\ obj'.spec = obj.spec /\ st'.hash = st.hash
           \/ cached.exists /\ obj'.spec = cached.spec /\ st'.hash = cached.status.hash
           \/ pc # "idle" /\ obj'.spec = obj.spec /\ (task.generation = 1 => There),
         task.generation = 1 /\ pc' = "sync" /\ ~failed' =>
           \A n \in Rendered(obj)' : \/ edge'[Target'][n] = obj'.spec.resources[n]
                                     \/ \E item \in todo' : item[2] = n
  PROVE  FirstInv'
<1> SUFFICES ASSUME task.generation = 1 PROVE FirstInv'
  BY DEF FirstInv
<1>1. There => There'
  BY ThereStays
<1>2. Says(task.status)'
  BY <1>1 DEF FirstInv, Says
<1>3. cached'.exists => cached'.spec = task'.spec /\ Says(cached.status)'
  BY <1>1 DEF FirstInv, Says
<1>4. pc' # "idle" => obj'.spec = task'.spec /\ Says(st)'
  BY <1>1 DEF FirstInv, Says
<1> QED
  BY <1>2, <1>3, <1>4 DEF FirstInv

LEMMA FirstUser ==
  ASSUME Inv, FirstInv, UserStep
  PROVE  FirstInv'
<1>0. task \in Task /\ task.generation \in Nat /\ task.generation # 0
  BY DEF Inv, TypeOK, Task, FirstInv
<1>1. ASSUME NEW s \in Specs, Edit(s) PROVE task'.generation = task.generation + 1
  BY <1>0, <1>1 DEF Edit, Task
<1>2. ASSUME Delete, task.finalizer PROVE task'.generation = task.generation + 1
  BY <1>0, <1>2 DEF Delete, Task
<1>3. ASSUME Delete, ~task.finalizer PROVE FirstInv'
  <2>1. /\ task'.generation = task.generation /\ task'.spec = task.spec
        /\ task'.status = task.status
    BY <1>0, <1>3 DEF Delete, Task
  <2>2. UNCHANGED <<cached, worker, edge>>
    BY <1>3 DEF Delete, edges
  <2> QED
    BY <2>1, <2>2 DEF FirstInv, Says, There, Rendered, Held, Target, worker
<1>4. task'.generation = task.generation + 1 => FirstInv'
  BY <1>0 DEF FirstInv
<1> QED
  BY <1>1, <1>2, <1>3, <1>4 DEF UserStep

LEMMA FirstControl ==
  ASSUME Inv, FirstInv, ControlStep
  PROVE  FirstInv'
<1>0. task \in Task /\ cached \in Task /\ obj \in Task /\ st \in Status /\ [Next]_vars
  BY DEF Inv, TypeOK, Next
<1>1. CASE Reconcile
  <2>1. cached.status \in Status
    BY <1>0 DEF Task
  <2>2. ResetStatus(cached).hash = cached.status.hash
    BY <2>1 DEF ResetStatus, Status
  <2>3. pc = "idle" /\ UNCHANGED <<task, cached>>
    BY <1>1 DEF Reconcile
  <2>4. pc' # "sync"
    BY <1>1 DEF Reconcile, Begin, worker
  <2>5. pc' # "idle" => cached.exists /\ obj' = cached /\ st'.hash = cached.status.hash
    BY <1>1, <2>2, <2>3 DEF Reconcile, Begin, worker
  <2> QED
    BY <1>0, <2>3, <2>4, <2>5, FirstCarried
<1>2. CASE AddFinalizer
  <2>1. /\ task'.generation = task.generation /\ task'.spec = task.spec
        /\ task'.status = task.status
    BY <1>0, <1>2 DEF AddFinalizer, Task
  <2>2. cached' = cached /\ pc' = "idle"
    BY <1>2 DEF AddFinalizer, Rest
  <2> QED
    BY <1>0, <2>1, <2>2, FirstCarried
<1>3. CASE WriteStatus
  <2>1. /\ task'.generation = task.generation /\ task'.spec = task.spec
        /\ task'.status = task.status \/ task'.status = st
    BY <1>0, <1>3 DEF WriteStatus, Task
  <2>2. cached' = cached /\ pc' = "idle" /\ pc # "idle"
    BY <1>3 DEF WriteStatus, Rest
  <2> QED
    BY <1>0, <2>1, <2>2, FirstCarried
<1>4. CASE WriteCleaned
  <2>1. /\ task'.generation = task.generation /\ task'.spec = task.spec
        /\ task'.status = task.status \/ task'.status = st
        /\ obj'.spec = obj.spec
    BY <1>0, <1>4 DEF WriteCleaned, Newest, Task
  <2>2. cached' = cached /\ pc' = "unfinalize" /\ pc # "idle" /\ st' = st
    BY <1>4 DEF WriteCleaned
  <2> QED
    BY <1>0, <2>1, <2>2, FirstCarried
<1>5. CASE RemoveFinalizer
  <2>1. /\ task'.generation = task.generation /\ task'.spec = task.spec
        /\ task'.status = task.status
    BY <1>0, <1>5 DEF RemoveFinalizer, Task
  <2>2. /\ cached' = cached /\ pc' # "sync" /\ pc # "idle"
        /\ pc' # "idle" => obj' = obj /\ st' = st
    BY <1>5 DEF RemoveFinalizer, Rest, Fail
  <2> QED
    BY <1>0, <2>1, <2>2, FirstCarried
<1> QED
  BY <1>1, <1>2, <1>3, <1>4, <1>5 DEF ControlStep

\* SyncDiff counts every resource of the first generation in until it has applied it.
LEMMA FirstSync ==
  ASSUME Inv, FirstInv, SyncOne
  PROVE  FirstInv'
<1>0. [Next]_vars /\ edge \in [Clusters -> Content]
  BY DEF Next, StageStep, Inv, TypeOK
<1>1. PICK item \in Due, ok \in BOOLEAN, done \in BOOLEAN :
        /\ ok => done
        /\ edge' = IF done THEN [edge EXCEPT ![Target][item[2]] = Result(item)] ELSE edge
        /\ todo' = todo \ {item}
        /\ failed' = (failed \/ ~ok)
  BY DEF SyncOne
<1>2. pc = "sync" /\ pc' = "sync" /\ UNCHANGED <<task, cached, obj, st>>
  BY DEF SyncOne
<1>3. /\ item[2] \in Names /\ Target \in Clusters
      /\ Result(item) = obj.spec.resources[item[2]]
  BY <1>2, ResultContent
<1>4. ASSUME task.generation = 1, ~failed', NEW n \in Rendered(obj)
      PROVE  edge'[Target][n] = obj.spec.resources[n] \/ \E i \in todo' : i[2] = n
  <2>1. ~failed /\ ok
    BY <1>1, <1>4
  <2>2. edge'[Target] = [edge[Target] EXCEPT ![item[2]] = Result(item)]
    BY <1>0, <1>1, <1>3, <2>1
  <2>3. edge[Target] \in [Names -> Contents \cup {Absent}]
    BY <1>0, <1>3 DEF Content
  <2>4. n \in Names
    BY <1>4 DEF Rendered, Held
  <2>5. CASE n = item[2]
    BY <1>3, <2>2, <2>3, <2>5
  <2>6. CASE n # item[2]
    <3>1. edge'[Target][n] = edge[Target][n]
      BY <2>2, <2>3, <2>4, <2>6
    <3>2. edge[Target][n] = obj.spec.resources[n] \/ \E i \in todo : i[2] = n
      BY <1>2, <1>4, <2>1 DEF FirstInv
    <3> QED
      BY <1>1, <2>6, <3>1, <3>2
  <2> QED
    BY <2>5, <2>6
<1>5. Rendered(obj)' = Rendered(obj) /\ Target' = Target
  BY <1>2 DEF Rendered, Held, Target
<1> QED
  BY <1>0, <1>2, <1>4, <1>5, FirstCarried

LEMMA FirstStage ==
  ASSUME Inv, FirstInv, StageStep
  PROVE  FirstInv'
<1>0. [Next]_vars /\ st \in Status /\ obj \in Task
  BY DEF Next, Inv, TypeOK
<1>1. CASE WaitForCluster
  <2>1. /\ pc = "wait" /\ UNCHANGED <<task, cached, obj, st, edge>>
        /\ pc' = "sync" => todo' = Diff(st.record, Rendered(obj))
    BY <1>1 DEF WaitForCluster, Fail
  <2>2. ASSUME pc' = "sync", NEW n \in Rendered(obj)' PROVE \E item \in todo' : item[2] = n
    <3>1. n \in Rendered(obj)
      BY <2>1 DEF Rendered, Held
    <3>2. <<"create", n>> \in todo' \/ <<"apply", n>> \in todo'
      BY <2>1, <2>2, <3>1 DEF Diff
    <3> QED
      BY <3>2
  <2> QED
    BY <1>0, <2>1, <2>2, FirstCarried
<1>2. CASE FillCache
  BY <1>2, FirstOthers DEF FillCache
<1>3. CASE SyncOne
  BY <1>3, FirstSync
<1>4. CASE SyncEnd
  <2>1. /\ pc = "sync" /\ todo = {} /\ pc' \notin {"sync", "idle"}
        /\ UNCHANGED <<task, cached, obj, edge>>
    BY <1>4 DEF SyncEnd, edges
  <2>2. ~obj.deleting /\ obj.spec.resources # Unparsable
    BY <2>1 DEF Inv, HoldInv
  <2>3. failed => st'.hash = st.hash
    BY <1>0, <1>4, <2>2 DEF SyncEnd, Status
  <2>4. ASSUME ~failed, task.generation = 1 PROVE There
    <3>1. obj.spec = task.spec
      BY <2>1, <2>4 DEF FirstInv
    <3>2. \A n \in Rendered(obj) : edge[Target][n] = obj.spec.resources[n]
      BY <2>1, <2>4 DEF FirstInv
    <3> QED
      BY <2>2, <3>1, <3>2 DEF There, Rendered, Target
  <2> QED
    BY <1>0, <2>1, <2>3, <2>4, FirstCarried
<1>5. CASE CheckResources
  <2>1. /\ pc = "check" /\ pc' = "status" /\ UNCHANGED <<task, cached, obj>>
    BY <1>5 DEF CheckResources
  <2>2. st'.hash = st.hash
    BY <1>0, <1>5 DEF CheckResources, Status
  <2> QED
    BY <1>0, <2>1, <2>2, FirstCarried
<1> QED
  BY <1>1, <1>2, <1>3, <1>4, <1>5 DEF StageStep

LEMMA FirstStep == Inv /\ FirstInv /\ [Next]_vars => FirstInv'
<1> SUFFICES ASSUME Inv, FirstInv, [Next]_vars PROVE FirstInv'
  OBVIOUS
<1>1. CASE WatchTask \/ (\E c \in Clusters : EdgeStep(c)) \/ UNCHANGED vars
  BY <1>1, FirstOthers DEF WatchTask, EdgeStep, EdgeEvent, Lose, Regain, Register,
                           ClusterPhase, vars, edges, worker
<1>2. CASE Crash
  BY <1>2, FirstCarried DEF Crash, Rest
<1> QED
  BY <1>1, <1>2, FirstUser, FirstControl, FirstStage DEF Next

\* Until a task is edited, Running in its current generation means that all it asks
\* for is on its cluster with the content it asks for (stageApplyResources stores the
\* hash only when nothing failed, and nothing else is ever applied).
THEOREM UneditedIsThere == Spec => []UneditedRunningMeansThere
<1>1. Inv /\ FirstInv => UneditedRunningMeansThere
  BY DEF Inv, VersionsOK, VersionOK, TrueOf, Current, FirstInv, Says, There,
         UneditedRunningMeansThere
<1> QED
  BY <1>1, FirstInit, FirstStep, Invariance, PTL DEF Spec

-----------------------------------------------------------------------------
(* A task that is not done is not forgotten while its cluster is away.     *)

\* The worker that was not called again has the newest version the cache knows, or an
\* error to report.  So, unless status writes are lost, a task at rest is as its last
\* reconciliation left it, with the status of its current generation.
OnlineInv ==
  /\ left["lost"] <= MaxLost
  /\ cached.generation <= task.generation
  /\ left["lost"] = MaxLost =>
       /\ pc \notin {"idle", "unfinalize"} /\ ~queued /\ ~failed => obj = cached
       /\ pc = "idle" /\ ~queued /\ cached = task /\ task.exists
            => task.status.observed = task.generation

LEMMA OnlineInit == Init => OnlineInv
<1> SUFFICES ASSUME Init PROVE OnlineInv
  OBVIOUS
<1>1. PICK s \in Specs : task = NewTask(s)
  BY DEF Init
<1>2. task.generation = 1 /\ task.exists
  BY <1>1 DEF NewTask
<1>3. left["lost"] = MaxLost /\ MaxLost \in Nat
  BY EdgeTaskAssumption DEF Init
<1>4. NoTask.generation = 1 /\ ~NoTask.exists
  BY NoTaskType DEF NoTask, NewTask
<1> QED
  BY <1>2, <1>3, <1>4 DEF Init, OnlineInv

\* No bound grows.
LEMMA LeftFalls ==
  ASSUME Inv, [Next]_vars
  PROVE  left["lost"] \in Nat /\ left'["lost"] \in Nat /\ left'["lost"] <= left["lost"]
<1>1. left \in [{"edits", "faults", "lost", "flaps", "crashes"} -> Nat]
  BY DEF Inv, TypeOK
<1>2. ASSUME NEW b \in {"edits", "faults", "lost", "flaps", "crashes"}, Spend(b)
      PROVE  left'["lost"] \in Nat /\ left'["lost"] <= left["lost"]
  BY <1>1, <1>2 DEF Spend
<1>3. \/ UNCHANGED left
      \/ \E b \in {"edits", "faults", "lost", "flaps", "crashes"} : Spend(b)
  <2>1. CASE UserStep \/ WatchTask \/ Crash \/ UNCHANGED vars
    BY <2>1 DEF UserStep, Edit, Delete, WatchTask, Crash, vars
  <2>2. CASE ControlStep
    BY <2>2 DEF ControlStep, Reconcile, AddFinalizer, WriteStatus, WriteCleaned,
                RemoveFinalizer
  <2>3. CASE StageStep
    BY <2>3 DEF StageStep, WaitForCluster, FillCache, SyncOne, SyncEnd, CheckResources
  <2>4. CASE \E c \in Clusters : EdgeStep(c)
    BY <2>4 DEF EdgeStep, EdgeEvent, Lose, Regain, Register, ClusterPhase
  <2> QED
    BY <2>1, <2>2, <2>3, <2>4 DEF Next
<1> QED
  BY <1>1, <1>2, <1>3

LEMMA GenerationGrows ==
  ASSUME Inv, OnlineInv, [Next]_vars
  PROVE  cached'.generation <= task'.generation
<1>0. /\ task \in Task /\ task.generation \in Nat
      /\ cached \in Task /\ cached.generation \in Nat
  BY DEF Inv, TypeOK, Task
<1>1. task'.generation \in {task.generation, task.generation + 1}
  <2>1. ASSUME NEW s \in Specs, Edit(s) PROVE task'.generation = task.generation + 1
    BY <1>0, <2>1 DEF Edit, Task
  <2>2. CASE Delete
    BY <1>0, <2>2 DEF Delete, Task
  <2>3. CASE ControlStep
    BY <1>0, <2>3 DEF ControlStep, Reconcile, AddFinalizer, WriteStatus, WriteCleaned,
                      RemoveFinalizer, Task
  <2>4. CASE WatchTask \/ StageStep \/ Crash \/ (\E c \in Clusters : EdgeStep(c)) \/ UNCHANGED vars
    BY <2>4 DEF WatchTask, StageStep, WaitForCluster, FillCache, SyncOne, SyncEnd,
                CheckResources, Crash, EdgeStep, EdgeEvent, Lose, Regain, Register,
                ClusterPhase, vars
  <2> QED
    BY <2>1, <2>2, <2>3, <2>4 DEF Next, UserStep
<1> QED
  BY <1>0, <1>1, CachedFollows DEF OnlineInv

\* Whoever edits or deletes a task makes a version that no cache holds.
LEMMA OnlineUser ==
  ASSUME Inv, OnlineInv, UserStep, left'["lost"] = left["lost"]
  PROVE  OnlineInv'
<1>0. /\ task \in Task /\ task.generation \in Nat
      /\ cached \in Task /\ cached.generation \in Nat
  BY DEF Inv, TypeOK, Task
<1>1. UNCHANGED <<cached, queued, pc, obj, failed>>
  BY DEF UserStep, Edit, Delete, worker
<1>2. \/ task'.generation = task.generation + 1
      \/ task'.generation = task.generation /\ ~task'.exists
  <2>1. ASSUME NEW s \in Specs, Edit(s) PROVE task'.generation = task.generation + 1
    BY <1>0, <2>1 DEF Edit, Task
  <2>2. CASE Delete
    BY <1>0, <2>2 DEF Delete, Task
  <2> QED
    BY <2>1, <2>2 DEF UserStep
<1>3. cached' # task' \/ ~task'.exists
  BY <1>0, <1>1, <1>2 DEF OnlineInv
<1>4. cached'.generation <= task'.generation
  BY <1>0, <1>1, <1>2 DEF OnlineInv
<1> QED
  BY <1>1, <1>3, <1>4 DEF OnlineInv

LEMMA OnlineControl ==
  ASSUME Inv, OnlineInv, ControlStep, left'["lost"] = left["lost"]
  PROVE  OnlineInv'
<1>0. task \in Task /\ cached \in Task /\ left["lost"] \in Nat
  BY DEF Inv, TypeOK
<1>1. CASE Reconcile
  <2>1. UNCHANGED <<task, cached>> /\ pc = "idle"
    BY <1>1 DEF Reconcile
  <2>2. \/ ~cached.exists /\ UNCHANGED worker
        \/ pc' # "idle" /\ obj' = cached
    BY <1>1 DEF Reconcile, Begin
  <2> QED
    BY <2>1, <2>2 DEF OnlineInv, worker
<1>2. CASE AddFinalizer
  <2>1. task'.generation = task.generation /\ cached' = cached /\ queued' /\ pc' = "idle"
    BY <1>0, <1>2 DEF AddFinalizer, Rest, Task
  <2> QED
    BY <2>1 DEF OnlineInv
<1>3. CASE WriteStatus
  <2>1. /\ task'.generation = task.generation /\ cached' = cached /\ pc' = "idle"
        /\ pc = "status" /\ (~queued' => ~queued /\ ~failed)
    BY <1>0, <1>3 DEF WriteStatus, Rest, Task
  <2>2. CASE Newest /\ task' = [task EXCEPT !.status = st]
    <3>1. task'.status = st /\ st.observed = task'.generation
      BY <1>0, <2>1, <2>2 DEF Newest, Inv, WorkInv, Task
    <3> QED
      BY <2>1, <3>1 DEF OnlineInv
  <2>3. CASE ~Newest /\ task' = task
    <3>1. task.exists => obj # task
      BY <2>3 DEF Newest
    <3> QED
      BY <2>1, <2>3, <3>1 DEF OnlineInv
  <2>4. ~Spend("lost")
    <3>1. left \in [{"edits", "faults", "lost", "flaps", "crashes"} -> Nat]
      BY DEF Inv, TypeOK
    <3> QED
      BY <3>1 DEF Spend
  <2> QED
    BY <1>3, <2>2, <2>3, <2>4 DEF WriteStatus
<1>4. CASE WriteCleaned
  <2>1. task'.generation = task.generation /\ cached' = cached /\ pc' = "unfinalize"
    BY <1>0, <1>4 DEF WriteCleaned, Task
  <2> QED
    BY <2>1 DEF OnlineInv
<1>5. CASE RemoveFinalizer
  <2>1. task'.generation = task.generation /\ cached' = cached
    BY <1>0, <1>5 DEF RemoveFinalizer, Task
  <2>2. (pc' = "idle" /\ ~task'.exists) \/ (pc' = "status" /\ failed')
    BY <1>0, <1>5 DEF RemoveFinalizer, Rest, Fail, Task
  <2> QED
    BY <2>1, <2>2 DEF OnlineInv
<1> QED
  BY <1>1, <1>2, <1>3, <1>4, <1>5 DEF ControlStep

LEMMA OnlineStage ==
  ASSUME Inv, OnlineInv, StageStep, left'["lost"] = left["lost"]
  PROVE  OnlineInv'
<1>1. UNCHANGED <<task, cached, obj>>
  BY DEF StageStep, WaitForCluster, FillCache, SyncOne, SyncEnd, CheckResources, worker
<1>2. queued => queued'
  BY DEF StageStep, WaitForCluster, FillCache, SyncOne, SyncEnd, CheckResources
<1>3. failed => failed'
  BY DEF StageStep, WaitForCluster, Fail, FillCache, SyncOne, SyncEnd, CheckResources, worker
<1>4. pc \notin {"idle", "unfinalize"} /\ pc' # "idle"
  <2>1. pc \in {"wait", "sync", "check"}
    BY DEF StageStep, WaitForCluster, FillCache, NeedsCache, SyncOne, SyncEnd, CheckResources
  <2>2. pc' = pc \/ pc' \in {"status", "check", "sync", "cleaned"}
    BY DEF StageStep, WaitForCluster, Fail, FillCache, SyncOne, SyncEnd, CheckResources, worker
  <2> QED
    BY <2>1, <2>2
<1> QED
  BY <1>1, <1>2, <1>3, <1>4 DEF OnlineInv

LEMMA OnlineStep == Inv /\ OnlineInv /\ [Next]_vars => OnlineInv'
<1> SUFFICES ASSUME Inv, OnlineInv, [Next]_vars PROVE OnlineInv'
  OBVIOUS
<1>0. left'["lost"] <= MaxLost
  BY LeftFalls, EdgeTaskAssumption DEF OnlineInv
<1>1. CASE left'["lost"] # left["lost"]
  <2>1. left'["lost"] # MaxLost
    BY <1>1, LeftFalls, EdgeTaskAssumption DEF OnlineInv
  <2>2. cached'.generation <= task'.generation
    BY GenerationGrows
  <2> QED
    BY <1>0, <2>1, <2>2 DEF OnlineInv
<1>2. CASE left'["lost"] = left["lost"]
  <2>1. CASE WatchTask \/ Crash
    <3>1. cached' = task /\ task' = task /\ queued'
      BY <2>1 DEF WatchTask, Crash
    <3>2. task.generation <= task.generation
      BY DEF Inv, TypeOK, Task
    <3> QED
      BY <1>0, <3>1, <3>2 DEF OnlineInv
  <2>2. CASE (\E c \in Clusters : EdgeStep(c)) \/ UNCHANGED vars
    <3>1. UNCHANGED <<task, cached, worker>>
      BY <2>2 DEF EdgeStep, EdgeEvent, Lose, Regain, Register, ClusterPhase, vars, worker
    <3>2. queued => queued'
      BY <2>2 DEF EdgeStep, EdgeEvent, Lose, Regain, Register, ClusterPhase, vars
    <3> QED
      BY <1>2, <3>1, <3>2 DEF OnlineInv, worker
  <2> QED
    BY <1>2, <2>1, <2>2, OnlineUser, OnlineControl, OnlineStage DEF Next
<1> QED
  BY <1>1, <1>2

\* A task that is not Running in its current generation is queued when its cluster
\* comes online, once its changes have been delivered and nobody has it in hand,
\* unless a status write was lost (EdgeClusterTrigger, which looks at the cache).
THEOREM TriggersOnline == Spec => OnlineTriggers
<1> DEFINE Comes(c) == phase[c] = "Offline" /\ phase'[c] = "Online"
<1>1. ASSUME Inv, OnlineInv, [Next]_vars, NEW c \in Clusters, Comes(c),
             task.exists, task.spec.cluster = c,
             ~(Current /\ task.status.phase = "Running"),
             cached = task, pc = "idle", left.lost = MaxLost
      PROVE  queued'
  <2>1. phase' = phase \/ (\E d \in Clusters : Register(d)) \/ \E d \in Clusters : ClusterPhase(d)
    BY <1>1 DEF Next, UserStep, ControlStep, StageStep, EdgeStep, Edit, Delete, WatchTask,
                Reconcile, AddFinalizer, WriteStatus, WriteCleaned, RemoveFinalizer,
                WaitForCluster, FillCache, SyncOne, SyncEnd, CheckResources, EdgeEvent,
                Lose, Regain, Crash, vars, edges
  <2>2. phase \in [Clusters -> {"Missing", "Offline", "Online"}]
    BY <1>1 DEF Inv, TypeOK
  <2>3. ClusterPhase(c)
    BY <1>1, <2>1, <2>2 DEF Register, ClusterPhase
  <2>4. queued \/ task.status.observed = task.generation
    BY <1>1 DEF OnlineInv
  <2> QED
    BY <1>1, <2>3, <2>4 DEF ClusterPhase, Triggered, Current
<1>2. Inv /\ OnlineInv /\ [Next]_vars =>
        [ \A c \in Clusters :
            /\ phase[c] = "Offline" /\ phase'[c] = "Online"
            /\ task.exists /\ task.spec.cluster = c
            /\ ~(Current /\ task.status.phase = "Running")
            /\ cached = task /\ pc = "idle"
            /\ left.lost = MaxLost
            => queued' ]_vars
  BY <1>1
<1> QED
  BY <1>2, OnlineInit, OnlineStep, Invariance, PTL DEF Spec, OnlineTriggers
=============================================================================
