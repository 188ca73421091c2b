------------------------------- MODULE EdgeTask -------------------------------
(***************************************************************************)
(* The controller of one EdgeTask (Reconciler of pkg/edge/task): a user    *)
(* creates the task, edits it and deletes it at the api server; one worker *)
(* reconciles it, reading the task and its cluster from informer caches    *)
(* and writing resources to an edge cluster through a tunnel that comes    *)
(* and goes.  The worker does not see the task change under it: what it    *)
(* decides rests on the copy it read, and the api server refuses to write  *)
(* a copy that is not the newest.                                          *)
(*                                                                         *)
(* Abstractions: a manifest says of every resource its content or Absent,  *)
(* and stands for its own hash; a resource is ready once it exists; the    *)
(* kinds of one cluster share one cache; watches deliver the newest        *)
(* version of what they watch, late.                                       *)
(***************************************************************************)
EXTENDS Naturals

CONSTANTS
  Clusters,     \* edge clusters
  Names,        \* resources a task may hold
  Contents,     \* contents of a resource
  Absent,       \* no content
  Specs,        \* what users write in EdgeTask.spec
  Unparsable,   \* resources that ParseResources refuses
  NoCache,      \* an edge client whose cache has not been filled
  MaxEdits,     \* bound: edits of the task
  MaxFaults,    \* bound: calls that fail though their target can be reached
  MaxLost,      \* bound: status writes lost to other errors than conflicts
  MaxFlaps,     \* bound: losses of a tunnel
  MaxCrashes    \* bound: restarts of the controller

Content   == [Names -> Contents \cup {Absent}]
Manifests == Content \cup {Unparsable}

ASSUME EdgeTaskAssumption ==
  /\ Absent \notin Contents /\ Absent \notin Manifests
  /\ Unparsable \notin Content /\ NoCache \notin Content
  /\ Specs # {} /\ Specs \subseteq [cluster : Clusters, resources : Manifests]
  /\ MaxEdits \in Nat /\ MaxFaults \in Nat /\ MaxLost \in Nat
  /\ MaxFlaps \in Nat /\ MaxCrashes \in Nat

VARIABLES
  task,         \* the EdgeTask stored at the api server
  cached,       \* the copy of it in the controller's informer
  queued,       \* whether the workqueue holds the task
  pc,           \* where the worker is in Reconcile
  obj,          \* the version the worker holds
  st,           \* the status it is computing
  todo,         \* what SyncDiff has left: pairs of an operation and a name
  managed,      \* what SyncDiff has noted as managed
  failed,       \* whether the worker has met an error
  tunnel,       \* clusters that can be reached
  phase,        \* EdgeCluster.status.phase in the informer, or "Missing"
  edge,         \* the resources on each cluster
  cache,        \* the caches of the edge clients, EdgeClientsHolder.clients
  left          \* what is left of each bound

vars == <<task, cached, queued, pc, obj, st, todo, managed, failed, tunnel,
          phase, edge, cache, left>>
worker == <<pc, obj, st, todo, managed, failed>>
edges  == <<tunnel, phase, edge, cache>>

Status == [observed : Nat, phase : {"", "Waiting", "Running"},
           hash : Manifests \cup {Absent}, record : SUBSET Names]
Task   == [exists : BOOLEAN, deleting : BOOLEAN, finalizer : BOOLEAN,
           generation : Nat, spec : Specs, status : Status]

NewStatus == [observed |-> 0, phase |-> "", hash |-> Absent, record |-> {}]
NewTask(s) == [exists |-> TRUE, deleting |-> FALSE, finalizer |-> FALSE,
               generation |-> 1, spec |-> s, status |-> NewStatus]
NoTask == [NewTask(CHOOSE s \in Specs : TRUE) EXCEPT !.exists = FALSE]

Operations == {"create", "apply", "remove"}
PCs == {"idle", "finalizer", "wait", "sync", "check", "status", "cleaned",
        "unfinalize"}

TypeOK ==
  /\ task \in Task /\ cached \in Task /\ obj \in Task
  /\ queued \in BOOLEAN /\ failed \in BOOLEAN
  /\ pc \in PCs
  /\ st \in Status
  /\ todo \subseteq Operations \X Names /\ managed \subseteq Names
  /\ tunnel \subseteq Clusters
  /\ phase \in [Clusters -> {"Missing", "Offline", "Online"}]
  /\ edge \in [Clusters -> Content]
  /\ cache \in [Clusters -> Content \cup {NoCache}]
  /\ left \in [{"edits", "faults", "lost", "flaps", "crashes"} -> Nat]

Held(content) == {n \in Names : content[n] # Absent}
Target == obj.spec.cluster      \* the cluster of the version in hand
Spend(bound) == /\ left[bound] > 0
                /\ left' = [left EXCEPT ![bound] = @ - 1]

(* A task that has just been created, with nothing applied. *)
Init ==
  /\ \E s \in Specs : task = NewTask(s)
  /\ cached = NoTask /\ obj = NoTask
  /\ queued = FALSE /\ failed = FALSE
  /\ pc = "idle" /\ st = NewStatus /\ todo = {} /\ managed = {}
  /\ phase \in [Clusters -> {"Missing", "Online"}]
  /\ tunnel = Clusters
  /\ edge = [c \in Clusters |-> [n \in Names |-> Absent]]
  /\ cache = [c \in Clusters |-> NoCache]
  /\ left = [edits |-> MaxEdits, faults |-> MaxFaults, lost |-> MaxLost,
             flaps |-> MaxFlaps, crashes |-> MaxCrashes]

-----------------------------------------------------------------------------
(* The user, and what the api server does for him. *)

(* A change of the spec makes a new generation. *)
Edit(s) ==
  /\ task.exists /\ task.spec # s
  /\ Spend("edits")
  /\ task' = [task EXCEPT !.spec = s, !.generation = @ + 1]
  /\ UNCHANGED <<cached, queued, worker, edges>>

(* So does the deletion mark; without a finalizer the object goes at once. *)
Delete ==
  /\ task.exists /\ ~task.deleting
  /\ task' = IF task.finalizer
             THEN [task EXCEPT !.deleting = TRUE, !.generation = @ + 1]
             ELSE [task EXCEPT !.exists = FALSE]
  /\ UNCHANGED <<cached, queued, worker, edges, left>>

(* The informer's watch: every change of the task puts it into the queue. *)
WatchTask ==
  /\ cached # task
  /\ cached' = task /\ queued' = TRUE
  /\ UNCHANGED <<task, worker, edges, left>>

-----------------------------------------------------------------------------
(* The worker.  The api server refuses a version other than the newest.    *)

Newest == task.exists /\ obj = task

Rest == /\ pc' = "idle" /\ obj' = NoTask
        /\ st' = NewStatus /\ todo' = {} /\ managed' = {} /\ failed' = FALSE

Fail == pc' = "status" /\ failed' = TRUE

(* checkGenerationResetStatus. *)
ResetStatus(o) ==
  IF o.status.observed = o.generation THEN o.status
  ELSE [o.status EXCEPT !.phase = "", !.record = {}, !.observed = o.generation]

(* Reconcile up to its first call that is not a read. *)
Begin(to, status) ==
  /\ pc' = to /\ obj' = cached /\ st' = status
  /\ UNCHANGED <<todo, managed, failed>>

Reconcile ==
  /\ pc = "idle" /\ queued
  /\ queued' = FALSE
  /\ LET reset == ResetStatus(cached) IN
     CASE ~cached.exists -> UNCHANGED worker
       [] cached.exists /\ cached.deleting ->
            Begin(IF reset.record = {} THEN "cleaned" ELSE "wait", reset)
       [] cached.exists /\ ~cached.deleting /\ ~cached.finalizer ->
            Begin("finalizer", cached.status)
       [] OTHER ->
            Begin(IF cached.spec.resources = Unparsable THEN "status" ELSE "wait",
                  reset)
  /\ UNCHANGED <<task, cached, edges, left>>

(* Mutant: goes on without waiting for the finalizer to be stored. *)
FinalizerLater ==
  /\ pc = "finalizer"
  /\ task' = IF Newest THEN [task EXCEPT !.finalizer = TRUE] ELSE task
  /\ pc' = "wait" /\ st' = ResetStatus(obj)
  /\ UNCHANGED <<cached, queued, obj, todo, managed, failed, edges, left>>

(* The finalizer is added before anything else, and the task requeued, also *)
(* when the update fails.                                                   *)
AddFinalizer ==
  /\ pc = "finalizer"
  /\ \/ Newest /\ task' = [task EXCEPT !.finalizer = TRUE] /\ UNCHANGED left
     \/ ~Newest /\ UNCHANGED <<task, left>>
     \/ Spend("faults") /\ UNCHANGED task
  /\ queued' = TRUE
  /\ Rest
  /\ UNCHANGED <<cached, edges>>

(* Mutant: an error of the stages is swallowed with that of the write. *)
WriteForgetsError ==
  /\ pc = "status"
  /\ \/ Newest /\ task' = [task EXCEPT !.status = st]
     \/ ~Newest /\ UNCHANGED task
  /\ Rest
  /\ UNCHANGED <<cached, queued, edges, left>>

(* A status write that fails is ignored; only the stage's error requeues. *)
WriteStatus ==
  /\ pc = "status"
  /\ \/ Newest /\ task' = [task EXCEPT !.status = st] /\ UNCHANGED left
     \/ ~Newest /\ UNCHANGED <<task, left>>
     \/ Newest /\ Spend("lost") /\ UNCHANGED task
  /\ queued' = (queued \/ failed)
  /\ Rest
  /\ UNCHANGED <<cached, edges>>

(* remove: the status first, then the finalizer and with it the task. *)
WriteCleaned ==
  /\ pc = "cleaned"
  /\ \/ /\ Newest
        /\ task' = [task EXCEPT !.status = st] /\ obj' = task'
        /\ UNCHANGED left
     \/ ~Newest /\ UNCHANGED <<task, obj, left>>
     \/ Newest /\ Spend("lost") /\ UNCHANGED <<task, obj>>
  /\ pc' = "unfinalize"
  /\ UNCHANGED <<cached, queued, st, todo, managed, failed, edges>>

RemoveFinalizer ==
  /\ pc = "unfinalize"
  /\ \/ /\ Newest
        /\ task' = [task EXCEPT !.exists = FALSE]
        /\ Rest
        /\ UNCHANGED <<queued, left>>
     \/ /\ \/ ~Newest /\ UNCHANGED <<task, left>>
           \/ Spend("faults") /\ UNCHANGED task
           \/ Newest /\ Spend("faults") /\ task' = [task EXCEPT !.exists = FALSE]
        /\ Fail
        /\ UNCHANGED <<queued, obj, st, todo, managed>>
  /\ UNCHANGED <<cached, edges>>

-----------------------------------------------------------------------------
(* The stages.                                                             *)

Diff(record, names) ==
       {<<"create", n>> : n \in names \ record}
  \cup {<<"apply",  n>> : n \in names \cap record}
  \cup {<<"remove", n>> : n \in record \ names}

(* What a version of the task asks for on its cluster. *)
Rendered(o) == IF o.deleting \/ o.spec.resources = Unparsable THEN {}
               ELSE Held(o.spec.resources)

(* stageWaitForEdgeCluster, then the test of the hash. *)
WaitForCluster ==
  /\ pc = "wait"
  /\ \/ phase[Target] = "Missing" /\ Fail /\ UNCHANGED <<todo, cache>>
     \/ /\ phase[Target] = "Offline"
        /\ cache' = [cache EXCEPT ![Target] = NoCache]
        /\ pc' = "status"
        /\ UNCHANGED <<todo, failed>>
     \/ /\ phase[Target] = "Online"
        /\ IF ~obj.deleting /\ st.hash = obj.spec.resources
           THEN pc' = "check" /\ UNCHANGED todo
           ELSE pc' = "sync" /\ todo' = Diff(st.record, Rendered(obj))
        /\ UNCHANGED <<cache, failed>>
  /\ UNCHANGED <<task, cached, queued, obj, st, managed, tunnel, phase, edge, left>>

(* The worker's first read from an edge cluster waits until a cache of the *)
(* cluster has been filled, however long that takes.                       *)
NeedsCache ==
  \/ pc = "sync" /\ \E item \in todo : item[1] # "remove"
  \/ pc = "check" /\ st.record # {}

FillCache ==
  /\ NeedsCache
  /\ cache[Target] = NoCache /\ Target \in tunnel
  /\ cache' = [cache EXCEPT ![Target] = edge[Target]]
  /\ queued' = (queued \/ Held(edge[Target]) # {})
  /\ UNCHANGED <<task, cached, worker, tunnel, phase, edge, left>>

(* SyncDiff makes, then changes, then removes. *)
Rank(op) == CASE op = "create" -> 1 [] op = "apply" -> 2 [] op = "remove" -> 3
Due == {item \in todo : \A other \in todo : Rank(item[1]) <= Rank(other[1])}

(* ApplyResource creates what its cache does not hold, and patches the     *)
(* rest; to create what is there is an error.                              *)
Result(item) ==
  IF item[1] = "remove" THEN Absent ELSE obj.spec.resources[item[2]]
Refused(item) ==
  \/ Target \notin tunnel
  \/ /\ item[1] # "remove"
     /\ cache[Target][item[2]] = Absent /\ edge[Target][item[2]] # Absent

(* Mutant: notes what it tried. *)
NotedAnyway(item, ok) == {item[2]}

(* What is noted as managed: whatever was managed and is wanted, what has  *)
(* been created, and what could not be removed.                            *)
Noted(item, ok) ==
  IF item[1] = "apply" \/ (item[1] = "create") = ok THEN {item[2]} ELSE {}

SyncOne ==
  /\ pc = "sync"
  /\ NeedsCache => cache[Target] # NoCache
  /\ \E item \in Due, ok, done \in BOOLEAN :
       /\ ok => done
       /\ Refused(item) => ~done
       /\ ok \/ Refused(item) => UNCHANGED left
       /\ ~ok /\ ~Refused(item) => Spend("faults")
       /\ edge' = IF done THEN [edge EXCEPT ![Target][item[2]] = Result(item)]
                  ELSE edge
       /\ todo' = todo \ {item}
       /\ managed' = managed \cup Noted(item, ok)
       /\ failed' = (failed \/ ~ok)
  /\ UNCHANGED <<task, cached, queued, pc, obj, st, tunnel, phase, cache>>

(* Mutant: the hash is stored although some resources failed. *)
HashAnyway ==
  /\ pc = "sync" /\ todo = {}
  /\ st' = [st EXCEPT !.record = managed, !.hash = obj.spec.resources]
  /\ pc' = IF failed THEN "status" ELSE "check"
  /\ UNCHANGED <<task, cached, queued, obj, todo, managed, failed, edges, left>>

SyncEnd ==
  /\ pc = "sync" /\ todo = {}
  /\ IF obj.deleting THEN UNCHANGED st
     ELSE st' = [st EXCEPT !.record = managed,
                           !.hash = IF failed THEN @ ELSE obj.spec.resources]
  /\ pc' = CASE failed -> "status"
             [] ~failed /\ obj.deleting -> "cleaned"
             [] OTHER -> "check"
  /\ UNCHANGED <<task, cached, queued, obj, todo, managed, failed, edges, left>>

(* Mutant: a phase the controller has no use for. *)
CheckFails ==
  /\ pc = "check" /\ st' = [st EXCEPT !.phase = "Failed"] /\ pc' = "status"
  /\ UNCHANGED <<task, cached, queued, obj, todo, managed, failed, edges, left>>

(* stageCheckResource looks at what the status records, in the cache. *)
CheckResources ==
  /\ pc = "check"
  /\ NeedsCache => cache[Target] # NoCache
  /\ st' = [st EXCEPT !.phase =
              IF \A n \in st.record : cache[Target][n] # Absent
              THEN "Running" ELSE "Waiting"]
  /\ pc' = "status"
  /\ UNCHANGED <<task, cached, queued, obj, todo, managed, failed, edges, left>>

-----------------------------------------------------------------------------
(* The edge clusters and the controller's process.                         *)

(* A change of a resource that carries the task's annotation requeues it. *)
EdgeEvent(c) ==
  /\ cache[c] # NoCache /\ cache[c] # edge[c] /\ c \in tunnel
  /\ cache' = [cache EXCEPT ![c] = edge[c]]
  /\ queued' = TRUE
  /\ UNCHANGED <<task, cached, worker, tunnel, phase, edge, left>>

Lose(c) ==
  /\ c \in tunnel /\ Spend("flaps")
  /\ tunnel' = tunnel \ {c}
  /\ UNCHANGED <<task, cached, queued, worker, phase, edge, cache>>

Regain(c) ==
  /\ c \notin tunnel
  /\ tunnel' = tunnel \cup {c}
  /\ UNCHANGED <<task, cached, queued, worker, phase, edge, cache, left>>

(* A cluster is registered, with a phase that is not Online. *)
Register(c) ==
  /\ phase[c] = "Missing"
  /\ phase' = [phase EXCEPT ![c] = "Offline"]
  /\ UNCHANGED <<task, cached, queued, worker, tunnel, edge, cache, left>>

(* Mutant: only tasks that were found waiting are requeued. *)
TriggeredWaiting(c) ==
  cached.exists /\ cached.spec.cluster = c /\ cached.status.phase = "Waiting"

(* EdgeClusterTrigger: a change of phase requeues the tasks of the cluster *)
(* that are not Running, as the cache has them.                            *)
Triggered(c) ==
  cached.exists /\ cached.spec.cluster = c /\ cached.status.phase # "Running"

ClusterPhase(c) ==
  /\ phase[c] # "Missing"
  /\ phase[c] # IF c \in tunnel THEN "Online" ELSE "Offline"
  /\ phase' = [phase EXCEPT ![c] = IF c \in tunnel THEN "Online" ELSE "Offline"]
  /\ queued' = (queued \/ Triggered(c))
  /\ UNCHANGED <<task, cached, worker, tunnel, edge, cache, left>>

(* A restart forgets everything but what is stored, and lists it afresh. *)
Crash ==
  /\ Spend("crashes")
  /\ cached' = task /\ queued' = TRUE
  /\ Rest
  /\ cache' = [c \in Clusters |-> NoCache]
  /\ UNCHANGED <<task, tunnel, phase, edge>>

-----------------------------------------------------------------------------

UserStep    == (\E s \in Specs : Edit(s)) \/ Delete
ControlStep == Reconcile \/ AddFinalizer \/ WriteStatus \/ WriteCleaned
               \/ RemoveFinalizer
StageStep   == WaitForCluster \/ FillCache \/ SyncOne \/ SyncEnd
               \/ CheckResources
EdgeStep(c) == EdgeEvent(c) \/ Lose(c) \/ Regain(c) \/ Register(c)
               \/ ClusterPhase(c)

Next == \/ UserStep \/ WatchTask \/ ControlStep \/ StageStep \/ Crash
        \/ \E c \in Clusters : EdgeStep(c)

Spec == Init /\ [][Next]_vars

(* What is queued is reconciled, watches deliver, and the phase of a       *)
(* cluster follows its tunnel.  Users, tunnels and crashes owe nothing.    *)
Fairness ==
  /\ WF_vars(WatchTask) /\ WF_vars(ControlStep) /\ WF_vars(StageStep)
  /\ \A c \in Clusters : WF_vars(EdgeEvent(c)) /\ WF_vars(ClusterPhase(c))

FairSpec == Spec /\ Fairness

-----------------------------------------------------------------------------
(* Properties.                                                             *)

Current == task.exists /\ task.status.observed = task.generation

(* Until a task is edited, Running means that every resource of its spec   *)
(* is on its cluster with the content the spec gives it, though resources  *)
(* fail one by one: the hash is stored only when all have been applied     *)
(* (stageApplyResources).  An edit of the cluster alone breaks that: the   *)
(* stored hash does not cover it.                                          *)
UneditedRunningMeansThere ==
  Current /\ task.generation = 1 /\ task.status.phase = "Running" =>
    \A n \in Held(task.spec.resources) :
      edge[task.spec.cluster][n] = task.spec.resources[n]

(* What the status lists for the current generation is on the cluster,     *)
(* also after partial failures and restarts (SyncDiff's managed).          *)
RecordHonest ==
  Current =>
    \A n \in task.status.record : edge[task.spec.cluster][n] # Absent

(* A task is not Running for a spec whose resources were never applied as  *)
(* a whole, however edits and stale copies interleave: the hash stored is  *)
(* then that of the spec (checkGenerationResetStatus, Status().Update).    *)
RunningIsOfSpec ==
  Current /\ task.status.phase = "Running" =>
    task.status.hash = task.spec.resources

(* "once the edgecluster is coming online, we need to trigger the          *)
(* uncompleted tasks for it" (helper.go:62): a task that is not Running in *)
(* its current generation is queued when its cluster comes online, unless  *)
(* the worker has it in hand or a change of it is still to be delivered.   *)
(* A lost status write breaks this, hence the last condition.              *)
OnlineTriggers ==
  [][ \A c \in Clusters :
        /\ phase[c] = "Offline" /\ phase'[c] = "Online"
        /\ task.exists /\ task.spec.cluster = c
        /\ ~(Current /\ task.status.phase = "Running")
        /\ cached = task /\ pc = "idle"
        /\ left.lost = MaxLost
        => queued' ]_vars

(* What the status of a deleted task lists is off its cluster before the   *)
(* list is emptied or the task goes: removal is to "wait for the edge      *)
(* cluster to be online if managed resources not empty" and to "remove the *)
(* edge resources" (controller.go:115, :121).  But the deletion mark makes *)
(* a new generation, whose reset drops the list (controller.go:147), after *)
(* which there is nothing to wait for and nothing to remove.               *)
RecordedIsRemoved ==
  [][ /\ task.exists /\ task.deleting
      /\ ~task'.exists \/ task'.status.record = {}
      => \A n \in task.status.record : edge'[task.spec.cluster][n] = Absent ]_vars

(* When users, tunnels and the controller come to rest, with every cluster *)
(* registered and reachable, a task that was deleted goes, and any other   *)
(* ends up Running, or unparsable, in its current generation; unless a     *)
(* status write was lost, which is not tried again (controller.go:99).     *)
Settled ==
  \/ ~task.exists
  \/ /\ Current /\ ~task.deleting
     /\ task.status.phase = "Running" \/ task.spec.resources = Unparsable
Settles ==
  <>[](/\ left.lost = MaxLost
      /\ tunnel = Clusters /\ \A c \in Clusters : phase[c] # "Missing")
    => <>[]Settled

(* The task as its user may think of it: held by its finalizer before      *)
(* anything is applied, and at rest for good once it is gone.              *)
Stage == IF ~task.exists THEN "gone"
         ELSE IF task.finalizer THEN "held" ELSE "new"
Life == INSTANCE TaskLife WITH life <- Stage, applied <- edge
ImplementsLife == Life!Spec

=============================================================================
