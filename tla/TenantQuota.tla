------------------------------ MODULE TenantQuota ------------------------------
(***************************************************************************)
(* What a tenant may have of one member cluster.  The service keeps a row  *)
(* with the quota of the tenant and, inside the transaction that writes    *)
(* it, creates the Tenant object of the cluster and then writes the quota  *)
(* to its TenantResourceQuota; the controller of tenants creates the       *)
(* latter too, and owns it.  An environment takes part of the quota: the   *)
(* admission webhook compares what it asks for with the books of the       *)
(* TenantResourceQuota, which another controller keeps by adding up the    *)
(* ResourceQuotas that the controller of environments writes.              *)
(*                                                                         *)
(* Amounts are of one resource.  Environments are as in Environment, but   *)
(* for their controller, of which only the writing of the ResourceQuota is *)
(* left, and for their deletion, which is one step.                        *)
(***************************************************************************)
EXTENDS Naturals, FiniteSets, FiniteSetsExt

CONSTANTS Tenants, Envs, Spaces,
          TenantOf,   \* TenantOf[e]: the tenant of e
          SpaceOf,    \* SpaceOf[e]: the namespace that e binds
          Amounts,    \* what a tenant or an environment may be given
          Initial,    \* Initial[t]: the tenant's quota at first
          Capacity,   \* of the nodes
          Requests,   \* requests that the service handles at a time: a bound
          Kinds,      \* what they may be
          Cost,       \* Cost[k]: what a request or edit of that kind takes of MaxOps
          MaxOps,     \* requests and edits of environments: a bound
          MaxFaults   \* calls that fail and restarts: a bound

ASSUME TenantQuotaAssumption ==
    /\ IsFiniteSet(Envs) /\ IsFiniteSet(Spaces)
    /\ TenantOf \in [Envs -> Tenants] /\ SpaceOf \in [Envs -> Spaces]
    /\ Amounts \subseteq Nat \ {0} /\ Initial \in [Tenants -> Amounts]
    /\ Capacity \in Nat /\ MaxOps \in Nat /\ MaxFaults \in Nat
    /\ Cost \in [Kinds \cup {"edit"} -> Nat \ {0}]
    /\ Kinds \subseteq {"post", "put", "pass", "apply", "delete"}

VARIABLES row,      \* row[t]: the quota that the service has stored, 0: none
          key,      \* key[t]: the primary key of t's row, or of its last one
          req,      \* req[r]: how far a request is
          ten,      \* ten[t]: the Tenant object
          trq,      \* trq[t]: the TenantResourceQuota
          env,      \* env[e]: the Environment object
          rq,       \* rq[n]: the ResourceQuota of the namespace n
          tenSeen, trqSeen, rqSeen,  \* the informers' copies
          tenQueue, trqQueue,        \* tenants to reconcile
          due,      \* environments to reconcile
          tenWork, trqWork,          \* the reconciles in progress
          ops, faults,
          parted,   \* history: tenants whose row and object have parted
          hasty,    \* history: tenants with an admission before the books were done
          untold,   \* tenants whose books nobody was told to do again
          lost      \* environments that have no ResourceQuota of their own

service == <<row, key, req>>
cluster == <<ten, trq, env, rq>>
seen == <<tenSeen, trqSeen, rqSeen>>
queues == <<tenQueue, trqQueue, due>>
work == <<tenWork, trqWork>>
history == <<parted, hasty, untold, lost>>
vars == <<service, cluster, seen, queues, work, ops, faults, history>>

NoRow == 0
NoTenant == [uid |-> 0]
Tenant == [uid : Nat \ {0}, fin : BOOLEAN, deleting : BOOLEAN]
NoQuota == [is |-> "none"]
(* owner is the uid of the tenant, 0 when nobody owns it *)
TenantResourceQuota == [is : {"there"}, owner : Nat, hard : Amounts \cup {0}, alloc : Nat]
NoEnv == [id |-> 0]
Env == [id : Nat \ {0}, need : Amounts, label : BOOLEAN]
ResourceQuota == [is : {"there"}, tenant : Tenants, owner : Envs, id : Nat \ {0},
                  hard : Amounts, status : Amounts \cup {0}]

Ready == [pc |-> "ready"]
(* A request knows its row by the key that it has read, or is to insert; it *)
(* hits one that has that key, or that it writes.                           *)
Begun == [pc : {"checked", "saved", "tenant", "applied"}, op : Kinds, t : Tenants, c : Amounts,
          key : Nat, hits : BOOLEAN]
Idle == [pc |-> "idle"]
TenantWork == [pc : {"quota", "hold", "clear", "unhold"}, t : Tenants, copy : Tenant]
QuotaWork == [pc : {"write"}, t : Tenants, copy : TenantResourceQuota, sum : Nat]

TypeOK ==
    /\ row \in [Tenants -> Amounts \cup {NoRow}]
    /\ key \in [Tenants -> Nat] /\ req \in [Requests -> Begun \cup {Ready}]
    /\ ten \in [Tenants -> Tenant \cup {NoTenant}] /\ tenSeen \in [Tenants -> Tenant \cup {NoTenant}]
    /\ trq \in [Tenants -> TenantResourceQuota \cup {NoQuota}]
    /\ trqSeen \in [Tenants -> TenantResourceQuota \cup {NoQuota}]
    /\ env \in [Envs -> Env \cup {NoEnv}]
    /\ rq \in [Spaces -> ResourceQuota \cup {NoQuota}]
    /\ rqSeen \in [Spaces -> ResourceQuota \cup {NoQuota}]
    /\ tenQueue \subseteq Tenants /\ trqQueue \subseteq Tenants /\ due \subseteq Envs
    /\ tenWork \in TenantWork \cup {Idle} /\ trqWork \in QuotaWork \cup {Idle}
    /\ ops \in 0 .. MaxOps /\ faults \in 0 .. MaxFaults
    /\ parted \subseteq Tenants /\ hasty \subseteq Tenants
    /\ untold \subseteq Tenants /\ lost \subseteq Envs

(* Tenants that have been given their quota, and no environment *)
Init ==
    /\ row = Initial /\ key = [t \in Tenants |-> 0]
    /\ req = [r \in Requests |-> Ready]
    /\ ten = [t \in Tenants |-> [uid |-> 1, fin |-> TRUE, deleting |-> FALSE]]
    /\ trq = [t \in Tenants |-> [is |-> "there", owner |-> 1, hard |-> Initial[t], alloc |-> 0]]
    /\ env = [e \in Envs |-> NoEnv]
    /\ rq = [n \in Spaces |-> NoQuota]
    /\ tenSeen = ten /\ trqSeen = trq /\ rqSeen = rq
    /\ tenQueue = {} /\ trqQueue = {} /\ due = {}
    /\ tenWork = Idle /\ trqWork = Idle
    /\ ops = 0 /\ faults = 0
    /\ parted = {} /\ hasty = {} /\ untold = {} /\ lost = {}

Outcome(ok) ==
    /\ faults' = IF ok THEN faults ELSE faults + 1
    /\ faults' <= MaxFaults
Operate(kind) == ops + Cost[kind] <= MaxOps /\ ops' = ops + Cost[kind]

EnvsOf(t) == {e \in Envs : TenantOf[e] = t /\ env[e] # NoEnv}
Total(t) == MapThenSumSet(LAMBDA e : env[e].need, EnvsOf(t))

-------------------------------------------------------------------------------
(* Names of resources: a node's capacity is of cpu, and so are the rates of *)
(* a cluster that has none of its own; a tenant's quota, and the statistics *)
(* of a cluster, are of limits.cpu.                                         *)
Name == "limits.cpu"
NodeCapacity == [n \in {"cpu"} |-> Capacity]
ClusterCapacity == [n \in {"limits.cpu"} |-> Capacity]
OversoldRate == [n \in {"cpu"} |-> 1]
Rate(n) == IF n \in DOMAIN OversoldRate THEN OversoldRate[n] ELSE 0

AllHard == MapThenSumSet(LAMBDA t : IF trq[t] = NoQuota THEN 0 ELSE trq[t].hard, Tenants)

(* The service's check of a request *)
CheckOverSold(before, after) ==
    LET capacity == ClusterCapacity[Name] * Rate(Name) IN
    Rate(Name) # 0 /\ capacity # 0 => after + AllHard <= capacity + before

(* The webhook's check of a TenantResourceQuota; need is a difference *)
ResourceEnough(before, after) ==
    Name \in DOMAIN NodeCapacity => AllHard + after <= NodeCapacity[Name] + before

-------------------------------------------------------------------------------
(* The service: one request *)

InTransaction(r) == req[r].pc \in {"saved", "tenant", "applied"}

(* Mutant: the row is written outside the transaction. *)
NeverLocked(r) == FALSE

(* The rows that open transactions have written are locked.  A deletion is   *)
(* of a key (tenant.go:1011): one of a former row has written none, and      *)
(* waits for nobody who writes another.                                      *)
Locked(r) ==
    LET t == req[r].t
        held(q) == IF row[t] = NoRow THEN req[q].key ELSE key[t]
    IN
    \E q \in Requests \ {r} :
        /\ InTransaction(q) /\ req[q].t = t /\ req[q].hits
        /\ req[r].op # "delete" \/ req[r].key = held(q)

Mark(set, t, condition) == IF condition THEN set \cup {t} ELSE set

Begin(r, op, t, c) ==
    /\ req[r] = Ready /\ op \in Kinds /\ Operate(op)
    /\ req' = [req EXCEPT ![r] = [pc |-> "checked", op |-> op, t |-> t, c |-> c,
                                  key |-> IF op = "post" THEN ops + 1 ELSE key[t], hits |-> FALSE]]
    /\ UNCHANGED <<row, key, cluster, seen, queues, work, faults, history>>

PostTenantTenantResourceQuota(r, t, c) == Begin(r, "post", t, c)
PutTenantTenantResourceQuota(r, t, c) ==
    row[t] # NoRow /\ CheckOverSold(row[t], c) /\ Begin(r, "put", t, c)
(* An administrator passes what he likes, of an application *)
Pass(r, t, c) == row[t] # NoRow /\ Begin(r, "pass", t, c)
(* An application is stored together with the row as it was read. *)
CreateTenantResourceQuotaApply(r, t, c) ==
    row[t] # NoRow /\ CheckOverSold(row[t], c) /\ Begin(r, "apply", t, row[t])
DeleteTenantResourceQuota(r, t) == row[t] # NoRow /\ Begin(r, "delete", t, row[t])

(* The first write waits for the row.  An insert fails when it is there, an *)
(* update that finds none inserts the row it has, and a deletion that finds *)
(* none goes on.                                                            *)
Save(r) ==
    LET q == req[r]
        t == q.t
        hits == q.op = "delete" => row[t] # NoRow /\ key[t] = q.key
    IN
    /\ q.pc = "checked" /\ ~Locked(r)
    /\ IF q.op = "apply"
       THEN /\ row' = [row EXCEPT ![t] = q.c]
            /\ key' = IF row[t] = NoRow THEN [key EXCEPT ![t] = q.key] ELSE key
            /\ req' = [req EXCEPT ![r] = Ready]
            /\ parted' = Mark(parted, t, row[t] # q.c)
       ELSE /\ req' = [req EXCEPT ![r] = IF q.op = "post" /\ row[t] # NoRow THEN Ready
                                         ELSE [q EXCEPT !.pc = "saved", !.hits = hits]]
            /\ UNCHANGED <<row, key, parted>>
    /\ UNCHANGED <<cluster, seen, queues, work, ops, faults, hasty, untold, lost>>

(* A call may land although its answer is an error, upon which the          *)
(* transaction is rolled back.                                              *)
(* Mutant: a request that failed is not ended. *)
Linger(r, pc, ok) == req' = [req EXCEPT ![r].pc = IF ok THEN pc ELSE "failed"]
Proceed(r, pc, ok) == req' = [req EXCEPT ![r] = IF ok THEN [@ EXCEPT !.pc = pc] ELSE Ready]

(* A tenant's uid is none that anybody still knows of. *)
Born(t) ==
    LET known == {tenSeen[t].uid, IF trq[t] = NoQuota THEN 0 ELSE trq[t].owner,
                  IF tenWork = Idle THEN 0 ELSE tenWork.copy.uid}
    IN [uid |-> 1 + Max(known), fin |-> FALSE, deleting |-> FALSE]

(* CreateOrUpdateTenant changes nothing of a tenant that is there, also if  *)
(* it is terminating.                                                       *)
CreateOrUpdateTenant(r, lands, ok) ==
    LET t == req[r].t IN
    /\ req[r].pc = "saved" /\ req[r].op # "delete"
    /\ ok => lands
    /\ Outcome(ok)
    /\ Proceed(r, "tenant", ok)
    /\ ten' = IF lands /\ ten[t] = NoTenant THEN [ten EXCEPT ![t] = Born(t)] ELSE ten
    /\ parted' = Mark(parted, t, ten[t] # NoTenant /\ ten[t].deleting)
    /\ UNCHANGED <<row, key, trq, env, rq, seen, queues, work, ops, hasty, untold, lost>>

CreateOrUpdateTenantResourceQuota(r, lands, ok) ==
    LET t == req[r].t
        c == req[r].c
    IN
    /\ req[r].pc = "tenant"
    /\ ok => lands
    /\ lands => ResourceEnough(IF trq[t] = NoQuota THEN 0 ELSE trq[t].hard, c)
    /\ Outcome(ok)
    /\ Proceed(r, "applied", ok)
    /\ trq' = IF ~lands THEN trq
              ELSE IF trq[t] = NoQuota
              THEN [trq EXCEPT ![t] = [is |-> "there", owner |-> 0, hard |-> c, alloc |-> 0]]
              ELSE [trq EXCEPT ![t].hard = c]
    /\ parted' = Mark(parted, t, lands /\ ~ok)
    /\ hasty' = Mark(hasty, t, lands /\ c < Total(t))
    /\ UNCHANGED <<row, key, ten, env, rq, seen, queues, work, ops, untold, lost>>

(* A tenant that is held is only marked; one that is not there is an error. *)
(* Of a former row only the tenant is deleted.                              *)
DeleteTenant(r, lands, ok) ==
    LET t == req[r].t IN
    /\ req[r].pc = "saved" /\ req[r].op = "delete"
    /\ ok => lands
    /\ lands => ten[t] # NoTenant
    /\ IF ten[t] = NoTenant THEN UNCHANGED faults ELSE Outcome(ok)
    /\ Proceed(r, "applied", ok)
    /\ ten' = IF ~lands THEN ten
              ELSE [ten EXCEPT ![t] = IF @.fin THEN [@ EXCEPT !.deleting = TRUE] ELSE NoTenant]
    /\ parted' = Mark(parted, t, lands /\ (~ok \/ (~req[r].hits /\ ~ten[t].deleting)))
    /\ UNCHANGED <<row, key, trq, env, rq, seen, queues, work, ops, hasty, untold, lost>>

Commit(r, ok) ==
    LET q == req[r]
        t == q.t
    IN
    /\ q.pc = "applied"
    /\ Outcome(ok)
    /\ req' = [req EXCEPT ![r] = Ready]
    /\ row' = IF ok /\ q.hits THEN [row EXCEPT ![t] = IF q.op = "delete" THEN NoRow ELSE q.c]
              ELSE row
    /\ key' = IF ok /\ q.hits /\ row[t] = NoRow THEN [key EXCEPT ![t] = q.key] ELSE key
    /\ parted' = Mark(parted, t, ~ok)
    /\ UNCHANGED <<cluster, seen, queues, work, ops, hasty, untold, lost>>

-------------------------------------------------------------------------------
(* Environments, as users of the cluster ask for them *)

(* The controllers have nothing left to do for t's books. *)
Booked(t) ==
    /\ t \notin trqQueue \cup untold /\ trqWork = Idle
    /\ trqSeen[t] = trq[t]
    /\ \A e \in EnvsOf(t) : e \notin due \cup lost
    /\ \A n \in Spaces : rqSeen[n] = rq[n] /\ (rq[n] # NoQuota => rq[n].status = rq[n].hard)

(* Mutant: only the environment itself is compared with the quota. *)
EnoughAlone(t, old, need) == need <= trqSeen[t].hard
(* tenantResourceIsEnough: the books without what the environment had *)
Enough(t, old, need) == need + trqSeen[t].alloc <= trqSeen[t].hard + old

(* The tenant exists, and its quota, for the webhook. *)
MayAsk(t) == tenSeen[t] # NoTenant /\ trqSeen[t] # NoQuota

(* The service has checked that the namespace is free.  Events of           *)
(* environments also requeue the tenant.                                    *)
CreateEnvironment(e, need) ==
    LET t == TenantOf[e] IN
    /\ Operate("edit")
    /\ \A f \in Envs : SpaceOf[f] = SpaceOf[e] => env[f] = NoEnv
    /\ MayAsk(t) /\ Enough(t, 0, need)
    /\ env' = [env EXCEPT ![e] = [id |-> ops + 1, need |-> need, label |-> FALSE]]
    /\ due' = due \cup {e} /\ tenQueue' = tenQueue \cup {t}
    /\ hasty' = Mark(hasty, t, ~Booked(t))
    /\ UNCHANGED <<service, ten, trq, rq, seen, trqQueue, work, faults, parted, untold, lost>>

UpdateEnvironment(e, need) ==
    LET t == TenantOf[e] IN
    /\ Operate("edit")
    /\ env[e] # NoEnv /\ env[e].need # need
    /\ trqSeen[t] # NoQuota /\ Enough(t, env[e].need, need)
    /\ env' = [env EXCEPT ![e].need = need]
    /\ due' = due \cup {e}
    /\ hasty' = Mark(hasty, t, ~Booked(t))
    /\ UNCHANGED <<service, ten, trq, rq, seen, tenQueue, trqQueue, work, faults, parted,
                   untold, lost>>

DeleteEnvironment(e) ==
    /\ Operate("edit")
    /\ env[e] # NoEnv
    /\ env' = [env EXCEPT ![e] = NoEnv]
    /\ tenQueue' = tenQueue \cup {TenantOf[e]}
    /\ UNCHANGED <<service, ten, trq, rq, seen, trqQueue, due, work, faults, history>>

(* handleResourceQuota writes over the copy of the cache, the owner stays   *)
(* when it is another environment's.  The labels of the environment are     *)
(* written after it, whose event is another reconcile.  The errors of both  *)
(* are ignored.                                                             *)
Limit(e, ok, labels) ==
    LET n == SpaceOf[e]
        owner == IF rq[n] = NoQuota \/ rq[n].owner = e THEN <<e, env[e].id>>
                 ELSE <<rq[n].owner, rq[n].id>>
        done == ok /\ rqSeen[n] = rq[n]
    IN
    /\ e \in due
    /\ IF env[e] = NoEnv
       THEN due' = due \ {e} /\ UNCHANGED <<env, rq, faults, lost>>
       ELSE /\ env[e].label => labels
            /\ Outcome(ok /\ labels)
            /\ rq' = IF ~done THEN rq
                     ELSE [rq EXCEPT ![n] =
                              [is |-> "there", tenant |-> TenantOf[e], owner |-> owner[1],
                               id |-> owner[2], hard |-> env[e].need,
                               status |-> IF @ = NoQuota THEN 0 ELSE @.status]]
            /\ lost' = IF done THEN lost \ {e} ELSE lost \cup {e}
            /\ due' = IF labels /\ ~env[e].label THEN due ELSE due \ {e}
            /\ env' = [env EXCEPT ![e].label = labels]
    /\ UNCHANGED <<service, ten, trq, seen, tenQueue, trqQueue, work, ops, parted, hasty, untold>>

(* Kubernetes enforces the limits of a ResourceQuota. *)
Enforce(n) ==
    /\ rq[n] # NoQuota /\ rq[n].status # rq[n].hard
    /\ rq' = [rq EXCEPT ![n].status = rq[n].hard]
    /\ UNCHANGED <<service, ten, trq, env, seen, queues, work, ops, faults, history>>

-------------------------------------------------------------------------------
(* The controller of tenants *)

WatchTenant(t) ==
    /\ tenSeen[t] # ten[t]
    /\ tenSeen' = [tenSeen EXCEPT ![t] = ten[t]]
    /\ tenQueue' = tenQueue \cup {t}
    /\ UNCHANGED <<service, cluster, trqSeen, rqSeen, trqQueue, due, work, ops, faults, history>>

ReconcileTenant(t) ==
    /\ tenWork = Idle /\ t \in tenQueue
    /\ tenQueue' = tenQueue \ {t}
    /\ tenWork' = IF tenSeen[t] = NoTenant THEN Idle
                  ELSE [pc |-> IF tenSeen[t].deleting THEN "clear" ELSE "quota",
                        t |-> t, copy |-> tenSeen[t]]
    /\ UNCHANGED <<service, cluster, seen, trqQueue, due, trqWork, ops, faults, history>>

(* handleTenantResourceQuota: one that the cache does not have is created   *)
(* with nothing to give, one without an owner is owned; errors, also of a   *)
(* stale copy, are ignored.                                                 *)
HandleTenantResourceQuota(ok) ==
    LET t == tenWork.t
        owned == [trqSeen[t] EXCEPT !.owner = tenWork.copy.uid]
        creates == trqSeen[t] = NoQuota
        owns == ~creates /\ trqSeen[t].owner = 0
    IN
    /\ tenWork.pc = "quota"
    /\ IF creates \/ owns THEN Outcome(ok) ELSE ok /\ UNCHANGED faults
    /\ trq' = IF ~ok \/ trqSeen[t] # trq[t] THEN trq
              ELSE IF creates
              THEN [trq EXCEPT ![t] = [is |-> "there", owner |-> tenWork.copy.uid, hard |-> 0,
                                       alloc |-> 0]]
              ELSE IF owns THEN [trq EXCEPT ![t] = owned] ELSE trq
    /\ tenWork' = [tenWork EXCEPT !.pc = "hold"]
    /\ UNCHANGED <<service, ten, env, rq, seen, queues, trqWork, ops, history>>

AddFinalizers(ok) ==
    LET t == tenWork.t
        done == ok /\ ten[t] = tenWork.copy
    IN
    /\ tenWork.pc = "hold"
    /\ IF tenWork.copy.fin
       THEN ok /\ UNCHANGED <<ten, tenQueue, faults>>
       ELSE /\ Outcome(ok)
            /\ ten' = IF done THEN [ten EXCEPT ![t].fin = TRUE] ELSE ten
            /\ tenQueue' = IF done THEN tenQueue ELSE tenQueue \cup {t}
    /\ tenWork' = Idle
    /\ UNCHANGED <<service, trq, env, rq, seen, trqQueue, due, trqWork, ops, history>>

(* Deletion takes the environments that carry the tenant's label; the       *)
(* update of the quota, which sets a deletion mark, is refused.             *)
DeleteAllOf(ok) ==
    LET gone == {e \in EnvsOf(tenWork.t) : env[e].label} IN
    /\ tenWork.pc = "clear"
    /\ Outcome(ok)
    /\ env' = IF ok THEN [e \in Envs |-> IF e \in gone THEN NoEnv ELSE env[e]] ELSE env
    /\ tenQueue' = IF ok /\ gone # {} THEN tenQueue \cup {tenWork.t} ELSE tenQueue
    /\ tenWork' = [tenWork EXCEPT !.pc = "unhold"]
    /\ UNCHANGED <<service, ten, trq, rq, seen, trqQueue, due, trqWork, ops, history>>

(* Without its finalizers the tenant goes; an error is ignored. *)
RemoveFinalizers(ok) ==
    LET t == tenWork.t IN
    /\ tenWork.pc = "unhold"
    /\ Outcome(ok)
    /\ ten' = IF ok /\ ten[t] = tenWork.copy THEN [ten EXCEPT ![t] = NoTenant] ELSE ten
    /\ tenWork' = Idle
    /\ UNCHANGED <<service, trq, env, rq, seen, queues, trqWork, ops, history>>

-------------------------------------------------------------------------------
(* The controller of TenantResourceQuotas *)

(* The tenant is requeued for what has an owner or label, which come        *)
(* together, when it comes, goes, or changes its status.                    *)
WatchTenantResourceQuota(t) ==
    LET old == trqSeen[t]
        new == trq[t]
        tells == \/ old = NoQuota /\ new.owner # 0
                 \/ new = NoQuota /\ old.owner # 0
                 \/ old # NoQuota /\ new # NoQuota /\ old.alloc # new.alloc /\ new.owner # 0
    IN
    /\ old # new
    /\ trqSeen' = [trqSeen EXCEPT ![t] = new]
    /\ trqQueue' = trqQueue \cup {t}
    /\ tenQueue' = Mark(tenQueue, t, tells)
    /\ UNCHANGED <<service, cluster, tenSeen, rqSeen, due, work, ops, faults, history>>

(* Mutant: nobody is told of one that is gone. *)
ToldOfChanges(old, new) ==
    IF new # NoQuota /\ (old = NoQuota \/ old.status # new.status) THEN {new.tenant} ELSE {}
(* Whose books an event of a ResourceQuota has done again: those of the     *)
(* tenant that it belongs to now, and an update only when the status has    *)
(* changed.                                                                 *)
Told(old, new) ==
    IF new = NoQuota THEN {old.tenant}
    ELSE IF old = NoQuota \/ old.status # new.status THEN {new.tenant} ELSE {}

Touched(old, new) == {q.tenant : q \in {old, new} \ {NoQuota}}

WatchResourceQuota(n) ==
    LET old == rqSeen[n]
        new == rq[n]
    IN
    /\ old # new
    /\ rqSeen' = [rqSeen EXCEPT ![n] = new]
    /\ trqQueue' = trqQueue \cup Told(old, new)
    /\ untold' = IF Cardinality(Touched(old, new)) = 1 THEN untold
                 ELSE untold \cup (Touched(old, new) \ Told(old, new))
    /\ UNCHANGED <<service, cluster, tenSeen, trqSeen, tenQueue, due, work, ops, faults, parted,
                   hasty, lost>>

Sum(t) == MapThenSumSet(LAMBDA n : rqSeen[n].status,
                        {n \in Spaces : rqSeen[n] # NoQuota /\ rqSeen[n].tenant = t})

ReconcileTenantResourceQuota(t) ==
    /\ trqWork = Idle /\ t \in trqQueue
    /\ trqQueue' = trqQueue \ {t}
    /\ untold' = untold \ {t}
    /\ trqWork' = IF trqSeen[t] = NoQuota \/ trqSeen[t].alloc = Sum(t) THEN Idle
                  ELSE [pc |-> "write", t |-> t, copy |-> trqSeen[t], sum |-> Sum(t)]
    /\ UNCHANGED <<service, cluster, seen, tenQueue, due, tenWork, ops, faults, parted, hasty, lost>>

UpdateStatus(ok) ==
    LET t == trqWork.t
        done == ok /\ trq[t] = trqWork.copy
    IN
    /\ trqWork.pc = "write"
    /\ Outcome(ok)
    /\ trq' = IF done THEN [trq EXCEPT ![t].alloc = trqWork.sum] ELSE trq
    /\ trqQueue' = IF done THEN trqQueue ELSE trqQueue \cup {t}
    /\ trqWork' = Idle
    /\ UNCHANGED <<service, ten, env, rq, seen, tenQueue, due, tenWork, ops, history>>

(* After a restart everything is listed anew. *)
Restart ==
    /\ Outcome(FALSE)
    /\ tenSeen' = ten /\ trqSeen' = trq /\ rqSeen' = rq
    /\ tenQueue' = {t \in Tenants : ten[t] # NoTenant}
    /\ trqQueue' = {t \in Tenants : trq[t] # NoQuota}
    /\ due' = {e \in Envs : env[e] # NoEnv}
    /\ tenWork' = Idle /\ trqWork' = Idle
    /\ UNCHANGED <<service, cluster, ops, history>>

-------------------------------------------------------------------------------
(* The garbage collector *)

(* A TenantResourceQuota may go when the webhook knows no tenant of its     *)
(* owner's name.                                                            *)
MayGo(t) == tenSeen[t] = NoTenant

CollectTenantResourceQuota(t) ==
    /\ trq[t] # NoQuota /\ trq[t].owner # 0 /\ trq[t].owner # ten[t].uid
    /\ trqSeen[t] # NoQuota /\ (trqSeen[t].owner # 0 => MayGo(t))
    /\ trq' = [trq EXCEPT ![t] = NoQuota]
    /\ parted' = Mark(parted, t, \/ ten[t] # NoTenant /\ row[t] # NoRow
                                 \/ \E r \in Requests : req[r].pc = "applied" /\ req[r].t = t)
    /\ hasty' = Mark(hasty, t, Total(t) > 0)
    /\ UNCHANGED <<service, ten, env, rq, seen, queues, work, ops, faults, untold, lost>>

CollectResourceQuota(n) ==
    /\ rq[n] # NoQuota /\ env[rq[n].owner].id # rq[n].id
    /\ rq' = [rq EXCEPT ![n] = NoQuota]
    /\ lost' = lost \cup {e \in Envs : SpaceOf[e] = n /\ env[e] # NoEnv}
    /\ UNCHANGED <<service, ten, trq, env, seen, queues, work, ops, faults, parted, hasty, untold>>

-------------------------------------------------------------------------------
Ask(r) ==
    \/ \E t \in Tenants, c \in Amounts :
          \/ PostTenantTenantResourceQuota(r, t, c) \/ PutTenantTenantResourceQuota(r, t, c)
          \/ Pass(r, t, c) \/ CreateTenantResourceQuotaApply(r, t, c)
    \/ \E t \in Tenants : DeleteTenantResourceQuota(r, t)
Serve(r) ==
    \/ Save(r)
    \/ \E lands, ok \in BOOLEAN :
          \/ CreateOrUpdateTenant(r, lands, ok) \/ CreateOrUpdateTenantResourceQuota(r, lands, ok)
          \/ DeleteTenant(r, lands, ok)
    \/ \E ok \in BOOLEAN : Commit(r, ok)
Edit(e) ==
    \/ \E need \in Amounts : CreateEnvironment(e, need) \/ UpdateEnvironment(e, need)
    \/ DeleteEnvironment(e)
Watch ==
    \/ \E t \in Tenants : WatchTenant(t) \/ WatchTenantResourceQuota(t)
    \/ \E n \in Spaces : WatchResourceQuota(n)
WorkTenants ==
    \/ \E t \in Tenants : ReconcileTenant(t)
    \/ \E ok \in BOOLEAN : \/ HandleTenantResourceQuota(ok) \/ AddFinalizers(ok)
                           \/ DeleteAllOf(ok) \/ RemoveFinalizers(ok)
WorkQuotas ==
    \/ \E t \in Tenants : ReconcileTenantResourceQuota(t)
    \/ \E ok \in BOOLEAN : UpdateStatus(ok)
Collect ==
    \/ \E t \in Tenants : CollectTenantResourceQuota(t)
    \/ \E n \in Spaces : CollectResourceQuota(n)

Work ==
    \/ WorkTenants \/ WorkQuotas \/ Collect
    \/ \E e \in Envs, ok, labels \in BOOLEAN : Limit(e, ok, labels)
    \/ \E n \in Spaces : Enforce(n)

Next ==
    \/ \E r \in Requests : Ask(r) \/ Serve(r)
    \/ \E e \in Envs : Edit(e)
    \/ Watch \/ Work \/ Restart

Spec == Init /\ [][Next]_vars

(* Informers deliver; what there is to do for controllers and for kubernetes *)
(* is done.  Users owe nothing, nor does a request.                         *)
Fairness == WF_vars(Watch) /\ WF_vars(Work)

FairSpec == Spec /\ Fairness

-------------------------------------------------------------------------------
(* No order of requests, controllers and the garbage collector lets the    *)
(* TenantResourceQuota of a tenant differ from the row while nobody is     *)
(* writing it, but for what the code does itself to part them (parted): a  *)
(* failure after the call has landed, an application saved with the row as *)
(* it was read, a deletion that had read a former row and so deletes the   *)
(* tenant and no row, and a quota collected, or a tenant found             *)
(* terminating, because it was deleted before (tenant.go:835-860, 945-988, *)
(* 1000-1045).                                                             *)
HardIsRecorded ==
    \A t \in Tenants \ parted :
        row[t] # NoRow /\ ~(\E r \in Requests : InTransaction(r) /\ req[r].t = t)
        => trq[t] # NoQuota /\ trq[t].hard = row[t]

(* What a tenant's environments may use fits its quota whenever each was   *)
(* admitted on books that were done, and nobody has lowered the quota      *)
(* since (hasty): what one environment asks for, in v_environment.go:128,  *)
(* is in the books that the next is compared with, through its             *)
(* ResourceQuota, kubernetes' enforcing it, an event and a reconcile.      *)
EnvironmentsFit ==
    \A t \in Tenants \ hasty :
        EnvsOf(t) # {} => trq[t] # NoQuota /\ Total(t) <= trq[t].hard

Held(t) == MapThenSumSet(LAMBDA n : rq[n].status,
                         {n \in Spaces : rq[n] # NoQuota /\ rq[n].tenant = t})

(* Whatever fails or restarts, the books of a TenantResourceQuota come to  *)
(* be what the ResourceQuotas of its tenant enforce                        *)
(* (tenantresourcequota_controller.go:47-97), unless a ResourceQuota has   *)
(* passed to another tenant, of which the former is not told (:129-138).   *)
Settles ==
    \A t \in Tenants : <>[](trq[t] # NoQuota /\ t \notin untold => trq[t].alloc = Held(t))

(* "To check: ((Capacity * OversoldRate) - (AllTenantAllocated -           *)
(* CurrentTenantAllocated)) > NewTenantAllocated" (validate.go:52): the    *)
(* tenants' quotas fit the cluster.  The code's check looks up the rate by *)
(* a name that has none, and skips the resource; so does the webhook.      *)
WithinCapacity == AllHard <= Capacity
===============================================================================
