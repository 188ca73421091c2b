------------------------------ MODULE Environment ------------------------------
(***************************************************************************)
(* The environments of a project on one member cluster.  The service keeps *)
(* a row per environment and, inside the transaction that writes it,       *)
(* creates, updates or deletes the Environment object of the cluster.  The *)
(* controller of that cluster binds the namespace the object names (label  *)
(* and owner), bounds it with a ResourceQuota, and releases it on          *)
(* deletion; the garbage collector deletes what an object that is gone     *)
(* owned, once the admission webhook allows it.                            *)
(*                                                                         *)
(* A request runs between the others' steps; rows are locked from the      *)
(* first write of a transaction to its end.  The project is one and so are *)
(* the tenant and the cluster; names of environments do not change.        *)
(***************************************************************************)
EXTENDS Naturals, FiniteSets

CONSTANTS Envs, Namespaces,
          Existing,     \* namespaces that are there before
          Requests,     \* requests to the service: a bound
          MaxFailures   \* calls that fail and crashes of the controller: a bound

(* The last two keep names apart from the marks used in their place. *)
ASSUME EnvironmentAssumption ==
    /\ Existing \subseteq Namespaces /\ Requests \subseteq Nat \ {0} /\ MaxFailures \in Nat
    /\ {"none", "absent"} \cap Envs = {}
    /\ "none" \notin Namespaces

VARIABLES db,       \* db[e]: the committed row of e
          project,  \* the row of the project is there
          req,      \* req[r]: how far a request is
          cr,       \* cr[e]: the Environment object
          born,     \* born[e]: objects of this name ever created
          nss,      \* nss[n]: the namespace, its owner and its label
          quota,    \* quota[n]: owner of the ResourceQuota, and whose limits it has
          seen,     \* seen[e]: the controller's and the webhook's copy of cr[e]
          queue,    \* environments to reconcile
          work,     \* the reconcile in progress
          failures, \* calls that have failed, and crashes
          apart,    \* history: environments whose row and object have parted
          bound     \* history: the namespace last bound for e without failure

vars == <<db, project, req, cr, born, nss, quota, seen, queue, work, failures,
          apart, bound>>
service == <<db, project, req>>
cluster == <<cr, born, nss, quota>>
controller == <<seen, queue, work>>

Policies == {"delNamespace", "delLabels"}
NoRow == [id |-> 0]
Row == [id : Requests, ns : Namespaces, policy : Policies]
NoObject == [uid |-> 0]
Object == [uid : Nat \ {0}, rev : Nat, ns : Namespaces, policy : Policies,
           deleting : BOOLEAN, fin : BOOLEAN]
None == [env |-> "none", uid |-> 0]
Owner == [env : Envs, uid : Nat \ {0}] \cup {None}
Absent == [owner |-> None, by |-> "absent"]

(* A namespace carries the label of an environment or none, a quota has the *)
(* limits of one.                                                           *)
Namespace == [owner : Owner, by : Envs \cup {"none"}]
Quota == [owner : Owner, by : Envs]

Ready == [pc |-> "ready"]
Begun == [pc : {"checked", "saved", "applied"}, op : {"post", "put", "delete", "project"},
          env : Envs, row : Row \cup {NoRow}, left : SUBSET Envs, hits : BOOLEAN]
Over == [pc |-> "over"]
Idle == [pc |-> "idle"]
Working == [pc : {"bind", "limit", "hold", "release", "unhold"}, env : Envs, copy : Object]

TypeOK ==
    /\ db \in [Envs -> Row \cup {NoRow}]
    /\ project \in BOOLEAN
    /\ req \in [Requests -> Begun \cup {Ready, Over}]
    /\ cr \in [Envs -> Object \cup {NoObject}]
    /\ born \in [Envs -> Nat]
    /\ nss \in [Namespaces -> Namespace \cup {Absent}]
    /\ quota \in [Namespaces -> Quota \cup {Absent}]
    /\ seen \in [Envs -> Object \cup {NoObject}]
    /\ queue \subseteq Envs
    /\ work \in Working \cup {Idle}
    /\ failures \in 0 .. MaxFailures
    /\ apart \subseteq Envs
    /\ bound \in [Envs -> Namespaces \cup {"none"}]

Init ==
    /\ db = [e \in Envs |-> NoRow]
    /\ project = TRUE
    /\ req = [r \in Requests |-> Ready]
    /\ cr = [e \in Envs |-> NoObject]
    /\ born = [e \in Envs |-> 0]
    /\ nss = [n \in Namespaces |-> IF n \in Existing THEN [owner |-> None, by |-> "none"]
                                                     ELSE Absent]
    /\ quota = [n \in Namespaces |-> Absent]
    /\ seen = [e \in Envs |-> NoObject]
    /\ queue = {}
    /\ work = Idle
    /\ failures = 0
    /\ apart = {}
    /\ bound = [e \in Envs |-> "none"]

Outcome(ok) ==
    /\ failures' = IF ok THEN failures ELSE failures + 1
    /\ failures' <= MaxFailures

-------------------------------------------------------------------------------
(* The service: one request *)

InTransaction(r) == req[r].pc \in {"saved", "applied"}

(* Mutant: the row is written without a transaction. *)
Unlocked(r, e) == FALSE

(* The rows that transactions other than r's hold locked.  A deletion is of *)
(* an id (handler.go:325): one of a former row of that name hits none, and  *)
(* waits for nobody who has written another.                                *)
Locked(r, e) ==
    LET held(q) == IF db[e] = NoRow THEN req[q].row.id ELSE db[e].id IN
    \E q \in Requests \ {r} :
        /\ InTransaction(q) /\ req[q].hits
        /\ req[q].op = "project" \/ req[q].env = e
        /\ req[r].op # "delete" \/ req[r].row.id = held(q)

(* ValidateEnvironmentNamespace asks the cluster, before the transaction. *)
MayBind(e, n) == nss[n].by \in {"absent", "none", e}

(* The row that r inserts is named after r. *)
Check(r, op, e, row, left) ==
    /\ req[r] = Ready
    /\ req' = [req EXCEPT ![r] = [pc |-> "checked", op |-> op, env |-> e, row |-> row,
                                  left |-> left, hits |-> FALSE]]
    /\ UNCHANGED <<db, project, cluster, controller, failures, apart, bound>>

PostProjectEnvironment(r, e, n, policy) ==
    /\ project /\ MayBind(e, n)
    /\ Check(r, "post", e, [id |-> r, ns |-> n, policy |-> policy], {})
PutEnvironment(r, e, n, policy) ==
    /\ db[e] # NoRow /\ MayBind(e, n)
    /\ Check(r, "put", e, [id |-> db[e].id, ns |-> n, policy |-> policy], {})
(* A row that is not found is answered at once, but the handler goes on;    *)
(* gorm refuses a deletion without an id, which changes nothing.            *)
DeleteEnvironment(r, e) ==
    db[e] # NoRow /\ Check(r, "delete", e, db[e], {})
DeleteProject(r) ==
    /\ project
    /\ \E e \in Envs : Check(r, "project", e, NoRow, {f \in Envs : db[f] # NoRow})

(* The transaction's first write, which waits for the rows: an insert fails *)
(* when the row is there, an update that finds none inserts, a deletion     *)
(* that finds none goes on; neither inserts without the project.            *)
Save(r) ==
    LET q == req[r]
        hits == q.op = "delete" => db[q.env].id = q.row.id
    IN
    /\ q.pc = "checked"
    /\ \A e \in Envs : e = q.env \/ q.op = "project" => ~Locked(r, e)
    /\ req' = [req EXCEPT ![r] =
                  IF q.op \in {"post", "put"} /\ (~project \/ (q.op = "post" /\ db[q.env] # NoRow))
                  THEN Over ELSE [q EXCEPT !.pc = "saved", !.hits = hits]]
    /\ UNCHANGED <<db, project, cluster, controller, failures, apart, bound>>

Names(obj, row) == obj.ns = row.ns /\ obj.policy = row.policy
Updated(obj, row) == IF Names(obj, row) THEN obj
                     ELSE [obj EXCEPT !.rev = @ + 1, !.ns = row.ns, !.policy = row.policy]

(* CreateOrUpdate of the object: a terminating one is updated like another. *)
(* A call may land although its answer is an error.                         *)
Apply(r, lands, ok) ==
    LET q == req[r]
        e == q.env
    IN
    /\ q.pc = "saved" /\ q.op \in {"post", "put"}
    /\ ok => lands
    /\ Outcome(ok)
    /\ req' = [req EXCEPT ![r] = IF ok THEN [q EXCEPT !.pc = "applied"] ELSE Over]
    /\ IF ~lands THEN UNCHANGED <<cr, born>>
       ELSE IF cr[e] = NoObject
       THEN /\ born' = [born EXCEPT ![e] = @ + 1]
            /\ cr' = [cr EXCEPT ![e] = [uid |-> born[e] + 1, rev |-> 0, ns |-> q.row.ns,
                                        policy |-> q.row.policy, deleting |-> FALSE,
                                        fin |-> FALSE]]
       ELSE cr' = [cr EXCEPT ![e] = Updated(@, q.row)] /\ UNCHANGED born
    /\ apart' = IF lands /\ (~ok \/ (cr[e] # NoObject /\ cr[e].deleting))
                THEN apart \cup {e} ELSE apart
    /\ UNCHANGED <<db, project, nss, quota, controller, bound>>

(* The api server's deletion: an object that is held is only marked. *)
Deleted(obj) == IF ~obj.fin THEN NoObject
                ELSE IF obj.deleting THEN obj
                ELSE [obj EXCEPT !.rev = @ + 1, !.deleting = TRUE]

(* afterEnvironmentDelete: an object that is not there is no error; that of *)
(* a new row is deleted like that of the row that was read.                 *)
DeleteObject(r, lands, ok) ==
    LET q == req[r]
        e == q.env
    IN
    /\ q.pc = "saved" /\ q.op = "delete"
    /\ ok => lands
    /\ Outcome(ok)
    /\ req' = [req EXCEPT ![r] = IF ok THEN [q EXCEPT !.pc = "applied"] ELSE Over]
    /\ cr' = IF lands /\ cr[e] # NoObject THEN [cr EXCEPT ![e] = Deleted(cr[e])] ELSE cr
    /\ apart' = IF lands /\ (~ok \/ (~q.hits /\ cr[e] # NoObject /\ ~cr[e].deleting))
                THEN apart \cup {e} ELSE apart
    /\ UNCHANGED <<db, project, born, nss, quota, controller, bound>>

(* afterProjectDelete takes the environments of its list one by one; one    *)
(* that is not there is an error, after which the others stay.              *)
DeleteObjectOf(r, e, lands, ok) ==
    LET q == req[r] IN
    /\ q.pc = "saved" /\ q.op = "project" /\ e \in q.left
    /\ ok => lands /\ cr[e] # NoObject
    /\ cr[e] = NoObject => ~lands
    /\ IF cr[e] = NoObject THEN UNCHANGED failures ELSE Outcome(ok)
    /\ cr' = IF lands THEN [cr EXCEPT ![e] = Deleted(cr[e])] ELSE cr
    /\ req' = [req EXCEPT ![r] = IF ok THEN [q EXCEPT !.left = @ \ {e}] ELSE Over]
    /\ apart' = IF ok THEN apart
                ELSE apart \cup {f \in Envs : db[f] # NoRow /\ (cr'[f] = NoObject \/ cr'[f].deleting)}
    /\ UNCHANGED <<db, project, born, nss, quota, controller, bound>>

(* What the transaction makes of e's row: an update of a row that has gone  *)
(* inserts it, a deletion takes the row that it has hit.                    *)
Written(q, e) ==
    IF q.op = "delete" THEN IF q.hits THEN NoRow ELSE db[e]
    ELSE IF db[e] = NoRow THEN q.row ELSE [q.row EXCEPT !.id = db[e].id]

(* The end of the transaction.  Rows of a project go with it, also those    *)
(* that were inserted after its list was read.                              *)
Commit(r, ok) ==
    LET q == req[r] IN
    /\ q.pc = "applied" \/ (q.pc = "saved" /\ q.op = "project" /\ q.left = {})
    /\ Outcome(ok)
    /\ req' = [req EXCEPT ![r] = Over]
    /\ IF ~ok THEN UNCHANGED <<db, project>>
       ELSE IF q.op = "project"
       THEN db' = [e \in Envs |-> NoRow] /\ project' = FALSE
       ELSE db' = [db EXCEPT ![q.env] = Written(q, q.env)] /\ UNCHANGED project
    /\ apart' = apart \cup
          IF ~ok THEN IF q.op = "project" THEN Envs ELSE {q.env}
          ELSE {e \in Envs : q.op = "project" /\ cr[e] # NoObject /\ ~cr[e].deleting}
    /\ UNCHANGED <<cluster, controller, bound>>

-------------------------------------------------------------------------------
(* The controller's cache and queue *)

Watch(e) ==
    /\ seen[e] # cr[e]
    /\ seen' = [seen EXCEPT ![e] = cr[e]]
    /\ queue' = queue \cup {e}
    /\ UNCHANGED <<service, cluster, work, failures, apart, bound>>

(* Every ten hours the cache queues what it has. *)
Resync(e) ==
    /\ seen[e] # NoObject /\ e \notin queue
    /\ queue' = queue \cup {e}
    /\ UNCHANGED <<service, cluster, seen, work, failures, apart, bound>>

(* Mutant: the error of reading the object is ignored. *)
ReconcileUnread(e) ==
    /\ work = Idle /\ e \in queue
    /\ queue' = queue \ {e}
    /\ work' = [pc |-> IF seen[e] # NoObject /\ seen[e].deleting THEN "release" ELSE "bind",
                env |-> e, copy |-> seen[e]]
    /\ UNCHANGED <<service, cluster, seen, failures, apart, bound>>

Reconcile(e) ==
    /\ work = Idle /\ e \in queue
    /\ queue' = queue \ {e}
    /\ work' = IF seen[e] = NoObject \/ (seen[e].deleting /\ ~seen[e].fin) THEN Idle
               ELSE [pc |-> IF seen[e].deleting THEN "release" ELSE "bind",
                     env |-> e, copy |-> seen[e]]
    /\ UNCHANGED <<service, cluster, seen, failures, apart, bound>>

Goto(pc) == work' = [work EXCEPT !.pc = pc]
Me == [env |-> work.env, uid |-> work.copy.uid]
Ns == work.copy.ns

(* Mutant: the namespaces bound before are not looked up. *)
NoFormer(e, n) == {}

(* Namespaces other than n that carry e's labels *)
Former(e, n) == {m \in Namespaces \ {n} : nss[m].by = e}
Free == [owner |-> None, by |-> "none"]

(* handleNamespace: the namespace is created, or labelled and, when nobody  *)
(* owns it, owned; namespaces the environment had before are freed.  All    *)
(* errors are ignored; after a failed creation nothing is freed.            *)
Bind(freed, ok) ==
    LET e == work.env
        old == Former(e, Ns)
        owner == IF nss[Ns].owner = None THEN Me ELSE nss[Ns].owner
        all == ok /\ freed = old
    IN
    /\ work.pc = "bind"
    /\ freed \subseteq old
    /\ ~ok /\ nss[Ns] = Absent => freed = {}
    /\ Outcome(all)
    /\ nss' = [n \in Namespaces |->
                  IF n = Ns /\ ok THEN [owner |-> owner, by |-> e]
                  ELSE IF n \in freed THEN Free ELSE nss[n]]
    /\ bound' = [bound EXCEPT ![e] = IF all THEN Ns ELSE "none"]
    /\ Goto("limit")
    /\ UNCHANGED <<service, cr, born, quota, seen, queue, apart>>

(* handleResourceQuota and, alike, handleLimitRange: an owner of the same   *)
(* name is replaced, another one stays; the limits are written all the same. *)
Limit(ok) ==
    /\ work.pc = "limit"
    /\ Outcome(ok)
    /\ quota' = IF ~ok \/ nss[Ns] = Absent THEN quota
                ELSE [quota EXCEPT ![Ns] =
                         [owner |-> IF @.owner.env \in {"none", work.env} THEN Me ELSE @.owner,
                          by |-> work.env]]
    /\ Goto("hold")
    /\ UNCHANGED <<service, cr, born, nss, seen, queue, apart, bound>>

Held(obj) == IF obj.fin THEN obj ELSE [obj EXCEPT !.rev = @ + 1, !.fin = TRUE]

(* Mutant: the finalizer is added to the copy only. *)
HoldUnsaved(ok) ==
    /\ work.pc = "hold"
    /\ work' = Idle
    /\ UNCHANGED <<service, cluster, seen, queue, failures, apart, bound>>

(* The finalizer comes last; the error of a stale copy is ignored too. *)
Hold(ok) ==
    /\ work.pc = "hold"
    /\ Outcome(ok)
    /\ cr' = IF ok /\ cr[work.env] = work.copy
             THEN [cr EXCEPT ![work.env] = Held(@)] ELSE cr
    /\ work' = Idle
    /\ UNCHANGED <<service, born, nss, quota, seen, queue, apart, bound>>

Retry == work' = Idle /\ queue' = queue \cup {work.env}

(* handleDelete: with delLabels the namespace is freed, whoever has it; one *)
(* that is not there cannot be updated, which is an error.                  *)
Release(ok) ==
    LET frees == work.copy.policy = "delLabels" IN
    /\ work.pc = "release"
    /\ IF frees /\ nss[Ns] = Absent THEN UNCHANGED failures /\ ~ok ELSE Outcome(ok)
    /\ nss' = IF ok /\ frees THEN [nss EXCEPT ![Ns] = Free] ELSE nss
    /\ IF ok THEN Goto("unhold") /\ UNCHANGED queue ELSE Retry
    /\ UNCHANGED <<service, cr, born, quota, seen, apart, bound>>

(* Without its finalizer the object goes. *)
Unhold(ok) ==
    /\ work.pc = "unhold"
    /\ Outcome(ok)
    /\ IF ok /\ cr[work.env] = work.copy
       THEN cr' = [cr EXCEPT ![work.env] = NoObject] /\ work' = Idle /\ UNCHANGED queue
       ELSE Retry /\ UNCHANGED cr
    /\ UNCHANGED <<service, born, nss, quota, seen, apart, bound>>

(* After a restart everything is listed anew. *)
Crash ==
    /\ Outcome(FALSE)
    /\ work' = Idle
    /\ seen' = cr
    /\ queue' = {e \in Envs : cr[e] # NoObject}
    /\ UNCHANGED <<service, cluster, apart, bound>>

-------------------------------------------------------------------------------
(* The garbage collector *)

Gone(owner) == owner # None /\ cr[owner.env].uid # owner.uid

(* A namespace whose owner is gone is deleted, unless the webhook knows an  *)
(* environment of that name.                                                *)
CollectNamespace(n) ==
    /\ Gone(nss[n].owner) /\ seen[nss[n].owner.env] = NoObject
    /\ nss' = [nss EXCEPT ![n] = Absent]
    /\ quota' = [quota EXCEPT ![n] = Absent]
    /\ UNCHANGED <<service, cr, born, controller, failures, apart, bound>>

CollectQuota(n) ==
    /\ Gone(quota[n].owner)
    /\ quota' = [quota EXCEPT ![n] = Absent]
    /\ UNCHANGED <<service, cr, born, nss, controller, failures, apart, bound>>

-------------------------------------------------------------------------------
Work ==
    \/ \E freed \in SUBSET Namespaces, ok \in BOOLEAN : Bind(freed, ok)
    \/ \E ok \in BOOLEAN : Limit(ok) \/ Hold(ok) \/ Release(ok) \/ Unhold(ok)

Serve(r) ==
    \/ \E e \in Envs, n \in Namespaces, policy \in Policies :
          PostProjectEnvironment(r, e, n, policy) \/ PutEnvironment(r, e, n, policy)
    \/ \E e \in Envs : DeleteEnvironment(r, e)
    \/ DeleteProject(r)
    \/ Save(r)
    \/ \E lands, ok \in BOOLEAN :
          \/ Apply(r, lands, ok) \/ DeleteObject(r, lands, ok)
          \/ \E e \in Envs : DeleteObjectOf(r, e, lands, ok)
    \/ \E ok \in BOOLEAN : Commit(r, ok)

Collect(n) == CollectNamespace(n) \/ CollectQuota(n)

Next ==
    \/ \E r \in Requests : Serve(r)
    \/ \E e \in Envs : Watch(e) \/ Resync(e) \/ Reconcile(e)
    \/ Work
    \/ Crash
    \/ \E n \in Namespaces : Collect(n)

Spec == Init /\ [][Next]_vars

(* Informer, worker and garbage collector run, the queue is first in first  *)
(* out, and the cache is resynchronised; nobody has to make a request.      *)
Fairness ==
    /\ \A e \in Envs : WF_vars(Watch(e)) /\ WF_vars(Resync(e)) /\ SF_vars(Reconcile(e))
    /\ WF_vars(Work)
    /\ \A n \in Namespaces : WF_vars(Collect(n))

FairSpec == Spec /\ Fairness

-------------------------------------------------------------------------------
Live(e) == cr[e] # NoObject /\ ~cr[e].deleting
Shared(e) == \E f \in Envs \ {e} : cr[f] # NoObject /\ cr[f].ns = cr[e].ns

(* Row and object agree outside a transaction, unless a call or a commit    *)
(* failed between them, the object was terminating when it was created      *)
(* again, the row went with the project after its list was read, or a       *)
(* deletion that had read a former row of that name took the object of the  *)
(* new one: no interleaving of requests parts them otherwise                *)
(* (handler.go:144-181, 305-362, handler_resources.go:670-721,              *)
(* handler_project.go:166-223).                                             *)
RowsAgree ==
    \A e \in Envs \ apart :
        ~(\E r \in Requests : InTransaction(r) /\ (req[r].op = "project" \/ req[r].env = e))
        => IF db[e] = NoRow THEN ~Live(e)
           ELSE Live(e) /\ Names(cr[e], db[e])

(* What still belongs to an environment when it goes is deleted with it *)
Takes(e, n) == /\ cr[e] # NoObject /\ cr'[e] = NoObject
               /\ nss[n].owner = [env |-> e, uid |-> cr[e].uid]

(* An environment whose namespace was bound without failure and that is     *)
(* held takes at most that namespace, and none with the policy delLabels,   *)
(* through stale copies, failed calls and edits while it is terminating.    *)
(* The exception is a namespace that another one has bound meanwhile: it    *)
(* changes the label by which namespaces are freed and leaves the owner     *)
(* (environment_controller.go:84-124, 161-181, 296-316).                    *)
TakesItsOwn ==
    [][\A e \in Envs, n \in Namespaces :
          Takes(e, n) /\ cr[e].fin /\ bound[e] = cr[e].ns
          => \/ n = cr[e].ns /\ cr[e].policy = "delNamespace"
             \/ nss[n].by \in Envs \ {e}]_vars

(* Once requests and failures have ended, an environment is bound, bounded  *)
(* and held, or it is gone; one of several that share a namespace may wait, *)
(* and one with delLabels whose namespace is not there stays terminating.   *)
Settles ==
    \A e \in Envs : <>[](
        \/ cr[e] = NoObject
        \/ Shared(e)
        \/ Live(e) /\ cr[e].fin /\ nss[cr[e].ns].by = e /\ quota[cr[e].ns].by = e
        \/ cr[e].deleting /\ cr[e].policy = "delLabels" /\ nss[cr[e].ns] = Absent)
===============================================================================
