-------------------------- MODULE TenantQuota_proofs --------------------------
(***************************************************************************)
(* The quota on the cluster is the one recorded, and what environments are *)
(* admitted to use fits it, for any tenants, environments, namespaces,     *)
(* amounts, requests handled together, failures and restarts.              *)
(***************************************************************************)
EXTENDS TenantQuota, FiniteSetTheorems, WellFoundedInduction, TLAPS

-------------------------------------------------------------------------------
(* The quota that is recorded.  Of the objects only the shape matters: no  *)
(* amount is added up here.                                                *)

TenantLike(x) ==
    x = NoTenant \/ x = [uid |-> x.uid, fin |-> x.fin, deleting |-> x.deleting]
QuotaLike(x) ==
    x = NoQuota \/ x = [is |-> "there", owner |-> x.owner, hard |-> x.hard, alloc |-> x.alloc]

Objects ==
    /\ ten = [t \in Tenants |-> ten[t]] /\ trq = [t \in Tenants |-> trq[t]]
    /\ tenSeen = [t \in Tenants |-> tenSeen[t]] /\ trqSeen = [t \in Tenants |-> trqSeen[t]]
    /\ \A t \in Tenants : /\ TenantLike(ten[t]) /\ TenantLike(tenSeen[t])
                          /\ QuotaLike(trq[t]) /\ QuotaLike(trqSeen[t])

Service ==
    /\ row \in [Tenants -> Amounts \cup {NoRow}]
    /\ key \in [Tenants -> Nat] /\ req \in [Requests -> Begun \cup {Ready}]

\* What the controllers have in hand is an object; one that is being cleared
\* is terminating.
Controllers ==
    /\ tenWork # Idle =>
          /\ tenWork = [pc |-> tenWork.pc, t |-> tenWork.t, copy |-> tenWork.copy]
          /\ tenWork.t \in Tenants
          /\ TenantLike(tenWork.copy) /\ tenWork.copy # NoTenant
          /\ tenWork.pc \in {"quota", "hold"} \/ tenWork.copy.deleting
    /\ trqWork # Idle =>
          /\ trqWork.t \in Tenants
          /\ QuotaLike(trqWork.copy) /\ trqWork.copy # NoQuota

\* One transaction holds the row of a tenant at a time; only a deletion may be
\* of none.
Holds(r) == InTransaction(r) /\ req[r].hits = TRUE
Locks ==
    /\ \A q, r \in Requests : q # r /\ Holds(q) /\ Holds(r) => req[q].t # req[r].t
    /\ \A r \in Requests : InTransaction(r) /\ req[r].op # "delete" => Holds(r)
    /\ \A r \in Requests : req[r].pc = "tenant" => req[r].op # "delete"

Lives(t) == ten[t] # NoTenant /\ ~ten[t].deleting
HasQuota(t, c) == trq[t] # NoQuota /\ trq[t].hard = c
Reached(r, t) == Holds(r) /\ req[r].pc \in {"tenant", "applied"} /\ req[r].t = t
Deletes(r, t) == Reached(r, t) /\ req[r].pc = "applied" /\ req[r].op = "delete"
Writes(r, t) == Reached(r, t) /\ req[r].pc = "applied" /\ req[r].op # "delete"

\* What is on the cluster is what the row says, or will say when the
\* transaction that has written it is committed.  Its tenant lives, so that
\* the garbage collector spares it, until a deletion of that row is under way.
Agrees(t) ==
    /\ row[t] # NoRow => Lives(t) \/ \E r \in Requests : Deletes(r, t)
    /\ row[t] # NoRow => HasQuota(t, row[t]) \/ \E r \in Requests : Writes(r, t)
    /\ \A r \in Requests : Reached(r, t) /\ req[r].op # "delete" => Lives(t)
    /\ \A r \in Requests : Writes(r, t) => HasQuota(t, req[r].c)

Inv ==
    /\ Objects /\ Service /\ Controllers /\ Locks /\ ops \in Nat
    /\ \A t \in Tenants \ parted : Agrees(t)

-------------------------------------------------------------------------------
LEMMA InitInv == Init => Inv
<1> SUFFICES ASSUME Init PROVE Inv
  OBVIOUS
<1>1. Objects
  BY DEF Init, Objects, TenantLike, QuotaLike
<1>2. Service
  BY TenantQuotaAssumption DEF Init, Service
<1>3. Controllers
  BY DEF Init, Controllers
<1>4. Locks /\ ops \in Nat
  BY DEF Init, Locks, Holds, InTransaction, Ready
<1>5. \A t \in Tenants \ parted : Agrees(t)
  BY TenantQuotaAssumption
     DEF Init, Agrees, Lives, HasQuota, Holds, InTransaction, Reached, Deletes, Writes, Ready, NoTenant, NoQuota
<1>6. QED
  BY <1>1, <1>2, <1>3, <1>4, <1>5 DEF Inv

-------------------------------------------------------------------------------
(* Objects keep their shape *)

\* A tenant that is written over is one still.
LEMMA TenantChanged ==
  ASSUME NEW x, TenantLike(x), x # NoTenant, NEW c
  PROVE  /\ TenantLike([x EXCEPT !.fin = c]) /\ [x EXCEPT !.fin = c] # NoTenant
         /\ [x EXCEPT !.fin = c].deleting = x.deleting
         /\ TenantLike([x EXCEPT !.deleting = c])
<1>1. PICK u, f, d : x = [uid |-> u, fin |-> f, deleting |-> d]
  BY DEF TenantLike
<1>2. [x EXCEPT !.fin = c] = [uid |-> u, fin |-> c, deleting |-> d]
  BY <1>1
<1>3. [x EXCEPT !.deleting = c] = [uid |-> u, fin |-> f, deleting |-> c]
  BY <1>1
<1>4. ASSUME NEW g, NEW e
      PROVE  /\ TenantLike([uid |-> u, fin |-> g, deleting |-> e])
             /\ [uid |-> u, fin |-> g, deleting |-> e] # NoTenant
             /\ [uid |-> u, fin |-> g, deleting |-> e].deleting = e
  BY DEF TenantLike, NoTenant
<1>5. QED
  BY <1>1, <1>2, <1>3, <1>4

LEMMA QuotaChanged ==
  ASSUME NEW x, QuotaLike(x), x # NoQuota, NEW c
  PROVE  /\ QuotaLike([x EXCEPT !.hard = c]) /\ [x EXCEPT !.hard = c] # NoQuota
         /\ [x EXCEPT !.hard = c].hard = c
         /\ QuotaLike([x EXCEPT !.owner = c]) /\ [x EXCEPT !.owner = c] # NoQuota
         /\ [x EXCEPT !.owner = c].hard = x.hard
         /\ QuotaLike([x EXCEPT !.alloc = c]) /\ [x EXCEPT !.alloc = c] # NoQuota
         /\ [x EXCEPT !.alloc = c].hard = x.hard
  BY DEF QuotaLike, NoQuota

LEMMA TenantWritten ==
  ASSUME Objects, NEW t \in Tenants, NEW x, TenantLike(x), ten' = [ten EXCEPT ![t] = x],
         UNCHANGED <<trq, tenSeen, trqSeen>>
  PROVE  Objects'
  BY DEF Objects, TenantLike, QuotaLike

LEMMA QuotaWritten ==
  ASSUME Objects, NEW t \in Tenants, NEW x, QuotaLike(x), trq' = [trq EXCEPT ![t] = x],
         UNCHANGED <<ten, tenSeen, trqSeen>>
  PROVE  Objects'
  BY DEF Objects, TenantLike, QuotaLike

LEMMA ObjectsUnchanged ==
  ASSUME Objects, UNCHANGED <<ten, trq, tenSeen, trqSeen>>
  PROVE  Objects'
  BY DEF Objects, TenantLike, QuotaLike

LEMMA BornAlive ==
  ASSUME NEW t
  PROVE  TenantLike(Born(t)) /\ Born(t) # NoTenant /\ ~Born(t).deleting
<1>1. ASSUME NEW n
      PROVE  LET x == [uid |-> n, fin |-> FALSE, deleting |-> FALSE] IN
             TenantLike(x) /\ x # NoTenant /\ ~x.deleting
  BY DEF TenantLike, NoTenant
<1>2. QED
  BY <1>1 DEF Born

LEMMA RequestType ==
  ASSUME Service, NEW r \in Requests, req[r].pc # "ready"
  PROVE  req[r] \in Begun
  BY DEF Service, Ready

LEMMA ServeObjects ==
  ASSUME Objects, Service, NEW r \in Requests, Serve(r)
  PROVE  Objects'
<1>1. ASSUME Save(r) PROVE Objects'
  BY <1>1, ObjectsUnchanged DEF Save, cluster, seen
<1>2. ASSUME NEW lands \in BOOLEAN, NEW ok \in BOOLEAN, CreateOrUpdateTenant(r, lands, ok)
      PROVE  Objects'
  <2> DEFINE t == req[r].t
  <2>1. t \in Tenants
    BY <1>2, RequestType DEF CreateOrUpdateTenant, Begun
  <2>2. UNCHANGED <<trq, tenSeen, trqSeen>>
    BY <1>2 DEF CreateOrUpdateTenant, seen
  <2>3. CASE lands /\ ten[t] = NoTenant
    <3>1. ten' = [ten EXCEPT ![t] = Born(t)]
      BY <1>2, <2>3 DEF CreateOrUpdateTenant
    <3>2. QED
      BY <2>1, <2>2, <3>1, BornAlive, TenantWritten
  <2>4. CASE ~(lands /\ ten[t] = NoTenant)
    BY <1>2, <2>2, <2>4, ObjectsUnchanged DEF CreateOrUpdateTenant
  <2>5. QED
    BY <2>3, <2>4
<1>3. ASSUME NEW lands \in BOOLEAN, NEW ok \in BOOLEAN,
             CreateOrUpdateTenantResourceQuota(r, lands, ok)
      PROVE  Objects'
  <2> DEFINE t == req[r].t
             c == req[r].c
             new == [is |-> "there", owner |-> 0, hard |-> c, alloc |-> 0]
  <2>1. t \in Tenants
    BY <1>3, RequestType DEF CreateOrUpdateTenantResourceQuota, Begun
  <2>2. UNCHANGED <<ten, tenSeen, trqSeen>>
    BY <1>3 DEF CreateOrUpdateTenantResourceQuota, seen
  <2>3. CASE ~lands
    BY <1>3, <2>2, <2>3, ObjectsUnchanged DEF CreateOrUpdateTenantResourceQuota
  <2>4. CASE lands /\ trq[t] = NoQuota
    <3>1. trq' = [trq EXCEPT ![t] = new]
      BY <1>3, <2>4 DEF CreateOrUpdateTenantResourceQuota
    <3>2. QuotaLike(new)
      BY DEF QuotaLike
    <3>3. QED
      BY <2>1, <2>2, <3>1, <3>2, QuotaWritten
  <2>5. CASE lands /\ trq[t] # NoQuota
    <3>1. trq' = [trq EXCEPT ![t] = [trq[t] EXCEPT !.hard = c]]
      BY <1>3, <2>5 DEF CreateOrUpdateTenantResourceQuota
    <3>2. QuotaLike([trq[t] EXCEPT !.hard = c])
      BY <2>1, <2>5, QuotaChanged DEF Objects
    <3>3. QED
      BY <2>1, <2>2, <3>1, <3>2, QuotaWritten
  <2>6. QED
    BY <2>3, <2>4, <2>5
<1>4. ASSUME NEW lands \in BOOLEAN, NEW ok \in BOOLEAN, DeleteTenant(r, lands, ok)
      PROVE  Objects'
  <2> DEFINE t == req[r].t
             x == IF ten[t].fin THEN [ten[t] EXCEPT !.deleting = TRUE] ELSE NoTenant
  <2>1. t \in Tenants
    BY <1>4, RequestType DEF DeleteTenant, Begun
  <2>2. UNCHANGED <<trq, tenSeen, trqSeen>>
    BY <1>4 DEF DeleteTenant, seen
  <2>3. CASE ~lands
    BY <1>4, <2>2, <2>3, ObjectsUnchanged DEF DeleteTenant
  <2>4. CASE lands
    <3>1. ten' = [ten EXCEPT ![t] = x] /\ ten[t] # NoTenant
      BY <1>4, <2>4 DEF DeleteTenant
    <3>2. TenantLike(ten[t])
      BY <2>1 DEF Objects
    <3>3. \A c : TenantLike([ten[t] EXCEPT !.deleting = c])
      BY <3>1, <3>2, TenantChanged
    <3>4. TenantLike(x)
      BY <3>3 DEF TenantLike
    <3>5. QED
      BY <2>1, <2>2, <3>1, <3>4, TenantWritten
  <2>5. QED
    BY <2>3, <2>4
<1>5. ASSUME NEW ok \in BOOLEAN, Commit(r, ok) PROVE Objects'
  BY <1>5, ObjectsUnchanged DEF Commit, cluster, seen
<1>6. QED
  BY <1>1, <1>2, <1>3, <1>4, <1>5 DEF Serve

LEMMA WorkTenantsObjects ==
  ASSUME Objects, Controllers, WorkTenants
  PROVE  Objects'
<1>1. ASSUME NEW t \in Tenants, ReconcileTenant(t) PROVE Objects'
  BY <1>1, ObjectsUnchanged DEF ReconcileTenant, cluster, seen
<1>2. ASSUME NEW ok \in BOOLEAN, HandleTenantResourceQuota(ok) PROVE Objects'
  <2> DEFINE t == tenWork.t
             new == [is |-> "there", owner |-> tenWork.copy.uid, hard |-> 0, alloc |-> 0]
             owned == [trqSeen[t] EXCEPT !.owner = tenWork.copy.uid]
  <2>1. t \in Tenants
    BY <1>2 DEF HandleTenantResourceQuota, Controllers, Idle
  <2>2. UNCHANGED <<ten, tenSeen, trqSeen>>
    BY <1>2 DEF HandleTenantResourceQuota, seen
  <2>3. \/ trq' = trq
        \/ trq' = [trq EXCEPT ![t] = new]
        \/ trqSeen[t] # NoQuota /\ trq' = [trq EXCEPT ![t] = owned]
    BY <1>2 DEF HandleTenantResourceQuota
  <2>4. QuotaLike(new)
    BY DEF QuotaLike
  <2>5. trqSeen[t] # NoQuota => QuotaLike(owned)
    BY <2>1, QuotaChanged DEF Objects
  <2>6. QED
    BY <2>1, <2>2, <2>3, <2>4, <2>5, QuotaWritten, ObjectsUnchanged
<1>3. ASSUME NEW ok \in BOOLEAN, AddFinalizers(ok) PROVE Objects'
  <2> DEFINE t == tenWork.t
  <2>1. t \in Tenants /\ TenantLike(tenWork.copy) /\ tenWork.copy # NoTenant
    BY <1>3 DEF AddFinalizers, Controllers, Idle
  <2>2. UNCHANGED <<trq, tenSeen, trqSeen>>
    BY <1>3 DEF AddFinalizers, seen
  <2>3. CASE ten' = ten
    BY <2>2, <2>3, ObjectsUnchanged
  <2>4. CASE ten[t] = tenWork.copy /\ ten' = [ten EXCEPT ![t] = [ten[t] EXCEPT !.fin = TRUE]]
    <3>1. \A c : TenantLike([ten[t] EXCEPT !.fin = c])
      BY <2>1, <2>4, TenantChanged
    <3>2. QED
      BY <2>1, <2>2, <2>4, <3>1, TenantWritten
  <2>5. QED
    BY <1>3, <2>3, <2>4 DEF AddFinalizers
<1>4. ASSUME NEW ok \in BOOLEAN, DeleteAllOf(ok) PROVE Objects'
  BY <1>4, ObjectsUnchanged DEF DeleteAllOf, seen
<1>5. ASSUME NEW ok \in BOOLEAN, RemoveFinalizers(ok) PROVE Objects'
  <2> DEFINE t == tenWork.t
  <2>1. t \in Tenants
    BY <1>5 DEF RemoveFinalizers, Controllers, Idle
  <2>2. UNCHANGED <<trq, tenSeen, trqSeen>>
    BY <1>5 DEF RemoveFinalizers, seen
  <2>3. ten' = ten \/ ten' = [ten EXCEPT ![t] = NoTenant]
    BY <1>5 DEF RemoveFinalizers
  <2>4. TenantLike(NoTenant)
    BY DEF TenantLike
  <2>5. QED
    BY <2>1, <2>2, <2>3, <2>4, TenantWritten, ObjectsUnchanged
<1>6. QED
  BY <1>1, <1>2, <1>3, <1>4, <1>5 DEF WorkTenants

LEMMA WorkQuotasObjects ==
  ASSUME Objects, Controllers, WorkQuotas
  PROVE  Objects'
<1>1. ASSUME NEW t \in Tenants, ReconcileTenantResourceQuota(t) PROVE Objects'
  BY <1>1, ObjectsUnchanged DEF ReconcileTenantResourceQuota, cluster, seen
<1>2. ASSUME NEW ok \in BOOLEAN, UpdateStatus(ok) PROVE Objects'
  <2> DEFINE t == trqWork.t
  <2>1. t \in Tenants /\ QuotaLike(trqWork.copy) /\ trqWork.copy # NoQuota
    BY <1>2 DEF UpdateStatus, Controllers, Idle
  <2>2. UNCHANGED <<ten, tenSeen, trqSeen>>
    BY <1>2 DEF UpdateStatus, seen
  <2>3. CASE trq' = trq
    BY <2>2, <2>3, ObjectsUnchanged
  <2>4. CASE trq[t] = trqWork.copy
             /\ trq' = [trq EXCEPT ![t] = [trq[t] EXCEPT !.alloc = trqWork.sum]]
    <3>1. QuotaLike([trq[t] EXCEPT !.alloc = trqWork.sum])
      BY <2>1, <2>4, QuotaChanged
    <3>2. QED
      BY <2>1, <2>2, <2>4, <3>1, QuotaWritten
  <2>5. QED
    BY <1>2, <2>3, <2>4 DEF UpdateStatus
<1>3. QED
  BY <1>1, <1>2 DEF WorkQuotas

LEMMA OtherObjects ==
  ASSUME Objects,
         (\E r \in Requests : Ask(r)) \/ (\E e \in Envs : Edit(e)) \/ Watch \/ Restart \/ Collect
         \/ (\E e \in Envs, ok, labels \in BOOLEAN : Limit(e, ok, labels)) \/ (\E n \in Spaces : Enforce(n))
  PROVE  Objects'
<1>1. ASSUME NEW r \in Requests, Ask(r) PROVE Objects'
  BY <1>1, ObjectsUnchanged
     DEF Ask, Begin, PostTenantTenantResourceQuota, PutTenantTenantResourceQuota, Pass,
         CreateTenantResourceQuotaApply, DeleteTenantResourceQuota, cluster, seen
<1>2. ASSUME NEW e \in Envs, Edit(e) PROVE Objects'
  BY <1>2, ObjectsUnchanged DEF Edit, CreateEnvironment, UpdateEnvironment, DeleteEnvironment, seen
<1>3. CASE Watch
  <2>1. ASSUME NEW t \in Tenants, WatchTenant(t) PROVE Objects'
    BY <2>1 DEF WatchTenant, Objects, TenantLike, QuotaLike, cluster
  <2>2. ASSUME NEW t \in Tenants, WatchTenantResourceQuota(t) PROVE Objects'
    BY <2>2 DEF WatchTenantResourceQuota, Objects, TenantLike, QuotaLike, cluster
  <2>3. ASSUME NEW n \in Spaces, WatchResourceQuota(n) PROVE Objects'
    BY <2>3, ObjectsUnchanged DEF WatchResourceQuota, cluster
  <2>4. QED
    BY <1>3, <2>1, <2>2, <2>3 DEF Watch
<1>4. CASE Restart
  BY <1>4 DEF Restart, Objects, TenantLike, QuotaLike, cluster
<1>5. CASE Collect
  <2>1. ASSUME NEW t \in Tenants, CollectTenantResourceQuota(t) PROVE Objects'
    <3>1. QuotaLike(NoQuota)
      BY DEF QuotaLike
    <3>2. QED
      BY <2>1, <3>1, QuotaWritten DEF CollectTenantResourceQuota, seen
  <2>2. ASSUME NEW n \in Spaces, CollectResourceQuota(n) PROVE Objects'
    BY <2>2, ObjectsUnchanged DEF CollectResourceQuota, seen
  <2>3. QED
    BY <1>5, <2>1, <2>2 DEF Collect
<1>6. ASSUME NEW e \in Envs, NEW ok \in BOOLEAN, NEW labels \in BOOLEAN, Limit(e, ok, labels) PROVE Objects'
  BY <1>6, ObjectsUnchanged DEF Limit, seen
<1>7. ASSUME NEW n \in Spaces, Enforce(n) PROVE Objects'
  BY <1>7, ObjectsUnchanged DEF Enforce, seen
<1>8. QED
  BY <1>1, <1>2, <1>3, <1>4, <1>5, <1>6, <1>7

LEMMA ObjectsStep ==
  ASSUME Inv, [Next]_vars
  PROVE  Objects'
<1>1. CASE UNCHANGED vars
  BY <1>1, ObjectsUnchanged DEF Inv, vars, cluster, seen
<1>2. CASE Next
  BY <1>2, ServeObjects, WorkTenantsObjects, WorkQuotasObjects, OtherObjects DEF Inv, Next, Work
<1>3. QED
  BY <1>1, <1>2

-------------------------------------------------------------------------------
(* The controllers' hands *)

LEMMA ControllersUnchanged ==
  ASSUME Controllers, UNCHANGED work
  PROVE  Controllers'
  BY DEF Controllers, work, TenantLike, QuotaLike

LEMMA ControllersStep ==
  ASSUME Inv, [Next]_vars
  PROVE  Controllers'
<1> USE DEF Inv
<1>1. CASE UNCHANGED vars
  BY <1>1, ControllersUnchanged DEF vars
<1>2. ASSUME NEW r \in Requests, Ask(r) \/ Serve(r) PROVE Controllers'
  BY <1>2, ControllersUnchanged
     DEF Ask, Begin, PostTenantTenantResourceQuota, PutTenantTenantResourceQuota, Pass,
         CreateTenantResourceQuotaApply, DeleteTenantResourceQuota, Serve, Save,
         CreateOrUpdateTenant, CreateOrUpdateTenantResourceQuota, DeleteTenant, Commit
<1>3. ASSUME NEW e \in Envs, Edit(e) PROVE Controllers'
  BY <1>3, ControllersUnchanged DEF Edit, CreateEnvironment, UpdateEnvironment, DeleteEnvironment
<1>4. CASE Watch
  BY <1>4, ControllersUnchanged
     DEF Watch, WatchTenant, WatchTenantResourceQuota, WatchResourceQuota
<1>5. CASE Restart
  BY <1>5 DEF Restart, Controllers
<1>6. CASE Collect
  BY <1>6, ControllersUnchanged DEF Collect, CollectTenantResourceQuota, CollectResourceQuota
<1>7. ASSUME NEW e \in Envs, NEW ok \in BOOLEAN, NEW labels \in BOOLEAN, Limit(e, ok, labels) PROVE Controllers'
  BY <1>7, ControllersUnchanged DEF Limit
<1>8. ASSUME NEW n \in Spaces, Enforce(n) PROVE Controllers'
  BY <1>8, ControllersUnchanged DEF Enforce
<1>9. CASE WorkTenants
  <2> DEFINE Hand(w) == w # Idle =>
                          /\ w = [pc |-> w.pc, t |-> w.t, copy |-> w.copy]
                          /\ w.t \in Tenants
                          /\ TenantLike(w.copy) /\ w.copy # NoTenant
                          /\ w.pc \in {"quota", "hold"} \/ w.copy.deleting
  <2>1. trqWork' = trqWork
    BY <1>9 DEF WorkTenants, ReconcileTenant, HandleTenantResourceQuota, AddFinalizers,
                DeleteAllOf, RemoveFinalizers
  <2>2. ASSUME Hand(tenWork') PROVE Controllers'
    BY <2>1, <2>2 DEF Controllers, TenantLike, QuotaLike
  <2>3. ASSUME NEW t \in Tenants, ReconcileTenant(t) PROVE Hand(tenWork')
    <3>1. TenantLike(tenSeen[t])
      BY DEF Objects
    <3>2. QED
      BY <2>3, <3>1 DEF ReconcileTenant
  <2>4. ASSUME NEW ok \in BOOLEAN, HandleTenantResourceQuota(ok) PROVE Hand(tenWork')
    <3>1. tenWork # Idle /\ tenWork' = [tenWork EXCEPT !.pc = "hold"]
      BY <2>4 DEF HandleTenantResourceQuota, Idle
    <3>2. Hand(tenWork)
      BY DEF Controllers
    <3>3. tenWork' = [pc |-> "hold", t |-> tenWork.t, copy |-> tenWork.copy]
      BY <3>1, <3>2
    <3>4. QED
      BY <3>1, <3>2, <3>3
  <2>5. ASSUME NEW ok \in BOOLEAN, DeleteAllOf(ok) PROVE Hand(tenWork')
    <3>1. tenWork # Idle /\ tenWork.pc = "clear" /\ tenWork' = [tenWork EXCEPT !.pc = "unhold"]
      BY <2>5 DEF DeleteAllOf, Idle
    <3>2. Hand(tenWork)
      BY DEF Controllers
    <3>3. tenWork' = [pc |-> "unhold", t |-> tenWork.t, copy |-> tenWork.copy]
      BY <3>1, <3>2
    <3>4. QED
      BY <3>1, <3>2, <3>3
  <2>6. ASSUME NEW ok \in BOOLEAN, AddFinalizers(ok) \/ RemoveFinalizers(ok) PROVE Hand(tenWork')
    BY <2>6 DEF AddFinalizers, RemoveFinalizers
  <2>7. QED
    BY <1>9, <2>2, <2>3, <2>4, <2>5, <2>6 DEF WorkTenants
<1>10. CASE WorkQuotas
  <2>1. tenWork' = tenWork
    BY <1>10 DEF WorkQuotas, ReconcileTenantResourceQuota, UpdateStatus
  <2>2. trqWork' # Idle => /\ trqWork'.t \in Tenants
                           /\ QuotaLike(trqWork'.copy) /\ trqWork'.copy # NoQuota
    <3>1. ASSUME NEW t \in Tenants, ReconcileTenantResourceQuota(t), trqWork' # Idle
          PROVE  trqWork'.t = t /\ trqWork'.copy = trqSeen[t] /\ trqSeen[t] # NoQuota
      BY <3>1 DEF ReconcileTenantResourceQuota
    <3>2. \A t \in Tenants : QuotaLike(trqSeen[t])
      BY DEF Objects
    <3>3. QED
      BY <1>10, <3>1, <3>2 DEF WorkQuotas, UpdateStatus
  <2>3. QED
    BY <2>1, <2>2 DEF Controllers, TenantLike, QuotaLike
<1>11. QED
  BY <1>1, <1>2, <1>3, <1>4, <1>5, <1>6, <1>7, <1>8, <1>9, <1>10 DEF Next, Work

-------------------------------------------------------------------------------
(* What is counted *)

LEMMA Tally ==
  ASSUME Next
  PROVE  /\ UNCHANGED ops \/ \E k \in Kinds \cup {"edit"} : Operate(k)
         /\ UNCHANGED faults \/ \E ok \in BOOLEAN : Outcome(ok)
<1> DEFINE Goal == /\ UNCHANGED ops \/ \E k \in Kinds \cup {"edit"} : Operate(k)
                   /\ UNCHANGED faults \/ \E ok \in BOOLEAN : Outcome(ok)
<1>1. ASSUME NEW r \in Requests, Ask(r) PROVE Goal
  BY <1>1 DEF Ask, Begin, PostTenantTenantResourceQuota, PutTenantTenantResourceQuota, Pass,
              CreateTenantResourceQuotaApply, DeleteTenantResourceQuota
<1>2. ASSUME NEW r \in Requests, Serve(r) PROVE Goal
  BY <1>2 DEF Serve, Save, CreateOrUpdateTenant, DeleteTenant, Commit,
              CreateOrUpdateTenantResourceQuota
<1>3. ASSUME NEW e \in Envs, Edit(e) PROVE Goal
  BY <1>3 DEF Edit, CreateEnvironment, UpdateEnvironment, DeleteEnvironment
<1>4. ASSUME Watch PROVE Goal
  BY <1>4 DEF Watch, WatchTenant, WatchTenantResourceQuota, WatchResourceQuota
<1>5. ASSUME WorkTenants PROVE Goal
  BY <1>5 DEF WorkTenants, ReconcileTenant, HandleTenantResourceQuota, AddFinalizers, DeleteAllOf,
              RemoveFinalizers
<1>6. ASSUME WorkQuotas \/ Collect PROVE Goal
  BY <1>6 DEF WorkQuotas, ReconcileTenantResourceQuota, UpdateStatus, Collect,
              CollectTenantResourceQuota, CollectResourceQuota
<1>7. ASSUME NEW e \in Envs, NEW ok \in BOOLEAN, NEW labels \in BOOLEAN, Limit(e, ok, labels) PROVE Goal
  BY <1>7 DEF Limit
<1>8. ASSUME NEW n \in Spaces, Enforce(n) PROVE Goal
  BY <1>8 DEF Enforce
<1>9. ASSUME Restart PROVE Goal
  BY <1>9 DEF Restart
<1>10. Goal
  BY <1>1, <1>2, <1>3, <1>4, <1>5, <1>6, <1>7, <1>8, <1>9 DEF Next, Work
<1>11. QED
  BY <1>10

LEMMA OpsStep ==
  ASSUME ops \in Nat, [Next]_vars
  PROVE  ops' \in Nat
  BY Tally, TenantQuotaAssumption DEF vars, Operate

-------------------------------------------------------------------------------
(* Rows and requests *)

LEMMA ServiceUnchanged ==
  ASSUME Service, UNCHANGED service
  PROVE  Service'
  BY DEF Service, service

LEMMA LocksUnchanged ==
  ASSUME Locks, UNCHANGED req
  PROVE  Locks'
  BY DEF Locks, Holds, InTransaction

\* A request that waits for nothing, or ends, or has the lock already, goes on.
LEMMA LocksKept ==
  ASSUME Locks, Service, NEW r \in Requests, NEW x, req' = [req EXCEPT ![r] = x],
         \/ x.pc \in {"ready", "checked"}
         \/ /\ InTransaction(r) /\ x.t = req[r].t /\ x.op = req[r].op /\ x.hits = req[r].hits
            /\ x.pc \in {"saved", "applied"} \/ (x.pc = "tenant" /\ x.op # "delete")
         \/ /\ x.pc = "saved" /\ (x.op # "delete" => x.hits = TRUE)
            /\ x.hits = TRUE => \A q \in Requests \ {r} : Holds(q) => req[q].t # x.t
  PROVE  Locks'
<1>1. \A q \in Requests : q # r => req'[q] = req[q] /\ (Holds(q)' <=> Holds(q))
  BY DEF Service, Holds, InTransaction
<1>2. req'[r] = x
  BY DEF Service
<1>3. ASSUME NEW q \in Requests, q # r, Holds(q), Holds(r)'
      PROVE  req[q].t # x.t
  BY <1>2, <1>3 DEF Locks, Holds, InTransaction
<1>4. ASSUME NEW q \in Requests, NEW p \in Requests, q # p, Holds(q)', Holds(p)'
      PROVE  req'[q].t # req'[p].t
  BY <1>1, <1>2, <1>3, <1>4 DEF Locks
<1>5. ASSUME NEW q \in Requests, req'[q].pc = "tenant" PROVE req'[q].op # "delete"
  BY <1>1, <1>2, <1>5 DEF Locks
<1>6. ASSUME NEW q \in Requests, InTransaction(q)', req'[q].op # "delete" PROVE Holds(q)'
  BY <1>1, <1>2, <1>6 DEF Locks, Holds, InTransaction
<1>7. QED
  BY <1>4, <1>5, <1>6 DEF Locks

LEMMA Written ==
  ASSUME Service, NEW r \in Requests, NEW x \in Begun \cup {Ready}, req' = [req EXCEPT ![r] = x],
         row' \in [Tenants -> Amounts \cup {NoRow}], key' \in [Tenants -> Nat]
  PROVE  Service'
  BY DEF Service

\* How the answer to a call leaves the request
LEMMA Proceeds ==
  ASSUME NEW r \in Requests, req[r] \in Begun, NEW pc, NEW ok \in BOOLEAN, Proceed(r, pc, ok)
  PROVE  \E x : /\ req' = [req EXCEPT ![r] = x]
                /\ ok => /\ x = [req[r] EXCEPT !.pc = pc] /\ x.pc = pc
                         /\ x.op = req[r].op /\ x.t = req[r].t /\ x.c = req[r].c
                         /\ x.hits = req[r].hits
                /\ ~ok => x = Ready
  BY DEF Proceed, Begun

LEMMA AskStep ==
  ASSUME Inv, NEW r \in Requests, Ask(r)
  PROVE  \E x \in Begun : /\ x.pc = "checked" /\ req[r] = Ready /\ req' = [req EXCEPT ![r] = x]
                          /\ UNCHANGED <<row, key, cluster, parted>>
<1>1. ASSUME NEW op, NEW t \in Tenants, NEW c \in Amounts, Begin(r, op, t, c)
      PROVE  \E x \in Begun : /\ x.pc = "checked" /\ req[r] = Ready /\ req' = [req EXCEPT ![r] = x]
                              /\ UNCHANGED <<row, key, cluster, parted>>
  <2> DEFINE k == IF op = "post" THEN ops + 1 ELSE key[t]
             x == [pc |-> "checked", op |-> op, t |-> t, c |-> c, key |-> k, hits |-> FALSE]
  <2>1. k \in Nat
    BY DEF Inv, Service
  <2>2. op \in Kinds
    BY <1>1 DEF Begin
  <2>3. x \in Begun /\ x.pc = "checked"
    BY <2>1, <2>2 DEF Begun
  <2>4. req[r] = Ready /\ req' = [req EXCEPT ![r] = x] /\ UNCHANGED <<row, key, cluster, parted>>
    BY <1>1 DEF Begin, history
  <2>5. QED
    BY <2>4, <2>3
<1>2. \A t \in Tenants : row[t] # NoRow => row[t] \in Amounts
  BY DEF Inv, Service
<1>3. QED
  BY <1>1, <1>2 DEF Ask, PostTenantTenantResourceQuota, PutTenantTenantResourceQuota, Pass,
                    CreateTenantResourceQuotaApply, DeleteTenantResourceQuota

-------------------------------------------------------------------------------
(* Row and object *)

\* What leaves the row alone, spares the tenant and the quota, and is no
\* request that has reached the tenant
LEMMA Frame ==
  ASSUME NEW t \in Tenants, Agrees(t), row'[t] = row[t],
         Lives(t) => Lives(t)',
         trq[t] # NoQuota => trq'[t] # NoQuota /\ trq'[t].hard = trq[t].hard,
         \A q \in Requests : req'[q] = req[q] \/ (~Reached(q, t) /\ ~Reached(q, t)')
  PROVE  Agrees(t)'
<1>1. \A q \in Requests : Reached(q, t)' => req'[q] = req[q] /\ Reached(q, t)
  BY DEF Reached, Holds, InTransaction
<1>2. \A q \in Requests : Reached(q, t) => req'[q] = req[q] /\ Reached(q, t)'
  BY DEF Reached, Holds, InTransaction
<1>3. \A q \in Requests : (Deletes(q, t) <=> Deletes(q, t)') /\ (Writes(q, t) <=> Writes(q, t)')
  BY <1>1, <1>2 DEF Reached, Deletes, Writes
<1>4. \A q \in Requests : Writes(q, t)' => req'[q] = req[q]
  BY <1>1 DEF Reached, Writes
<1>5. row'[t] # NoRow => Lives(t)' \/ \E r \in Requests : Deletes(r, t)'
  BY <1>3 DEF Agrees
<1>6. row'[t] # NoRow => HasQuota(t, row[t])' \/ \E r \in Requests : Writes(r, t)'
  BY <1>3 DEF Agrees, HasQuota
<1>7. \A r \in Requests : Reached(r, t)' /\ req'[r].op # "delete" => Lives(t)'
  BY <1>1 DEF Agrees
<1>8. \A r \in Requests : Writes(r, t)' => HasQuota(t, req[r].c)'
  BY <1>3, <1>4 DEF Agrees, HasQuota
<1>9. QED
  BY <1>5, <1>6, <1>7, <1>8 DEF Agrees

LEMMA AgreesUnchanged ==
  ASSUME NEW t \in Tenants, Agrees(t), UNCHANGED <<row, req>>,
         Lives(t) => Lives(t)',
         trq[t] # NoQuota => trq'[t] # NoQuota /\ trq'[t].hard = trq[t].hard
  PROVE  Agrees(t)'
  BY Frame

\* The other tenants have nothing to do with a request.
LEMMA Elsewhere ==
  ASSUME Inv, NEW r \in Requests, req[r] \in Begun, NEW x,
         req' = [req EXCEPT ![r] = x], x = Ready \/ x.t = req[r].t,
         NEW t \in Tenants \ parted, t # req[r].t,
         row'[t] = row[t], ten'[t] = ten[t], trq'[t] = trq[t]
  PROVE  Agrees(t)'
<1>1. \A q \in Requests : q # r => req'[q] = req[q]
  BY DEF Inv, Service
<1>2. req'[r] = x
  BY DEF Inv, Service
<1>3. ~Reached(r, t) /\ ~Reached(r, t)'
  BY <1>2 DEF Reached, Ready
<1>4. Agrees(t)
  BY DEF Inv
<1>5. (Lives(t) => Lives(t)') /\ (trq[t] # NoQuota => trq'[t] # NoQuota /\ trq'[t].hard = trq[t].hard)
  BY DEF Lives
<1>6. QED
  BY <1>1, <1>3, <1>4, <1>5, Frame

\* Beside a request with the lock of a tenant no other has reached it.
LEMMA Alone ==
  ASSUME Locks, NEW r \in Requests, Holds(r),
         NEW q \in Requests, q # r
  PROVE  ~Reached(q, req[r].t) /\ ~Deletes(q, req[r].t) /\ ~Writes(q, req[r].t)
  BY DEF Locks, Reached, Deletes, Writes

LEMMA SaveStep ==
  ASSUME Inv, NEW r \in Requests, Save(r)
  PROVE  Service' /\ Locks' /\ \A t \in Tenants \ parted' : Agrees(t)'
<1> DEFINE q == req[r]
           hits == q.op = "delete" => row[q.t] # NoRow /\ key[q.t] = q.key
<1>1. q \in Begun /\ q.pc = "checked" /\ ~Locked(r)
  BY RequestType DEF Save, Inv
<1>2. UNCHANGED <<ten, trq>>
  BY DEF Save, cluster
<1>3. CASE q.op = "apply"
  <2>1. /\ row' = [row EXCEPT ![q.t] = q.c]
        /\ key' = IF row[q.t] = NoRow THEN [key EXCEPT ![q.t] = q.key] ELSE key
        /\ req' = [req EXCEPT ![r] = Ready]
        /\ parted' = IF row[q.t] # q.c THEN parted \cup {q.t} ELSE parted
    BY <1>3 DEF Save, Mark
  <2>2. row' \in [Tenants -> Amounts \cup {NoRow}] /\ key' \in [Tenants -> Nat]
    BY <1>1, <2>1 DEF Inv, Service, Begun
  <2>3. Service' /\ Locks'
    BY <2>1, <2>2, Written, LocksKept DEF Inv, Ready
  <2>4. ASSUME NEW t \in Tenants \ parted' PROVE Agrees(t)'
    <3>1. t \notin parted /\ row'[t] = row[t]
      BY <1>1, <2>1, <2>4 DEF Inv, Service, Begun
    <3>2. \A p \in Requests : req'[p] = req[p] \/ (~Reached(p, t) /\ ~Reached(p, t)')
      BY <1>1, <2>1 DEF Inv, Service, Reached, Holds, InTransaction, Ready
    <3>3. QED
      BY <1>2, <3>1, <3>2, Frame DEF Inv, Lives
  <2>5. QED
    BY <2>3, <2>4
<1>4. CASE q.op # "apply"
  <2> DEFINE y == [q EXCEPT !.pc = "saved", !.hits = hits]
  <2>1. UNCHANGED <<row, key, parted>>
    BY <1>4 DEF Save
  <2>2. y \in Begun /\ y.pc = "saved" /\ y.t = q.t /\ y.op = q.op /\ (y.hits = TRUE <=> hits)
    <3>1. hits \in BOOLEAN
      OBVIOUS
    <3> HIDE DEF hits
    <3>2. QED
      BY <1>1, <3>1 DEF Begun
  <2>3. ASSUME hits, NEW p \in Requests \ {r}, Holds(p) PROVE req[p].t # q.t
    BY <1>1, <2>3 DEF Locked, Holds
  <2>4. PICK x \in Begun \cup {Ready} : req' = [req EXCEPT ![r] = x] /\ (x = Ready \/ x = y)
    BY <1>4, <2>2 DEF Save
  <2>5. q.op # "delete" => hits
    OBVIOUS
  <2> HIDE DEF hits, y
  <2>6. Service' /\ Locks'
    <3>1. Service'
      BY <2>1, <2>4, Written DEF Inv, Service
    <3>2. x.pc = "ready" \/ (x.pc = "saved" /\ (x.op # "delete" => x.hits = TRUE)
                             /\ (x.hits = TRUE => \A p \in Requests \ {r} : Holds(p) => req[p].t # x.t))
      BY <2>2, <2>3, <2>4, <2>5 DEF Ready
    <3>3. Locks /\ Service
      BY DEF Inv
    <3>4. Locks'
      BY <2>4, <3>2, <3>3, LocksKept
    <3>5. QED
      BY <3>1, <3>4
  <2>7. ASSUME NEW t \in Tenants \ parted' PROVE Agrees(t)'
    <3>1. \A p \in Requests : req'[p] = req[p] \/ (~Reached(p, t) /\ ~Reached(p, t)')
      BY <1>1, <2>2, <2>4 DEF Inv, Service, Reached, Holds, InTransaction, Ready
    <3>2. QED
      BY <1>2, <2>1, <3>1, Frame DEF Inv, Lives
  <2>8. QED
    BY <2>6, <2>7
<1>5. QED
  BY <1>3, <1>4

\* What an answer does to rows and locks, whatever the call
LEMMA AnswerService ==
  ASSUME Inv, NEW r \in Requests, req[r].pc \in {"saved", "tenant"},
         NEW pc \in {"tenant", "applied"}, pc = "tenant" => req[r].op # "delete",
         NEW ok \in BOOLEAN, Proceed(r, pc, ok), row' = row, key' = key
  PROVE  Service' /\ Locks'
<1>1. req[r] \in Begun /\ InTransaction(r)
  BY RequestType DEF Inv, InTransaction
<1>2. PICK x : /\ req' = [req EXCEPT ![r] = x]
               /\ ok => /\ x = [req[r] EXCEPT !.pc = pc] /\ x.pc = pc
                        /\ x.op = req[r].op /\ x.t = req[r].t /\ x.c = req[r].c
                        /\ x.hits = req[r].hits
               /\ ~ok => x = Ready
  BY <1>1, Proceeds
<1>3. x \in Begun \cup {Ready}
  BY <1>1, <1>2 DEF Begun
<1>4. QED
  BY <1>1, <1>2, <1>3, Written, LocksKept DEF Inv, Service, Ready

\* A call that has failed and changed nothing ends its request.
LEMMA FailedCall ==
  ASSUME Inv, NEW r \in Requests, req[r] \in Begun, req[r].pc \in {"saved", "tenant"},
         req' = [req EXCEPT ![r] = Ready], NEW t \in Tenants \ parted,
         UNCHANGED <<row, trq>>, Lives(t) => Lives(t)'
  PROVE  Agrees(t)'
<1>1. \A q \in Requests : q # r => req'[q] = req[q]
  BY DEF Inv, Service
<1>2. req'[r] = Ready /\ ~Deletes(r, t) /\ ~Writes(r, t)
  BY DEF Inv, Service, Deletes, Writes
<1>3. ~Reached(r, t)' /\ ~Deletes(r, t)' /\ ~Writes(r, t)'
  BY <1>2 DEF Reached, Deletes, Writes, Ready
<1>4. \A q \in Requests : /\ Deletes(q, t) <=> Deletes(q, t)'
                          /\ Writes(q, t) <=> Writes(q, t)'
                          /\ Reached(q, t)' => Reached(q, t)
                          /\ Reached(q, t)' => req'[q] = req[q]
  BY <1>1, <1>2, <1>3 DEF Holds, InTransaction, Reached, Deletes, Writes
<1>5. Agrees(t)
  BY DEF Inv
<1>6. row'[t] # NoRow => Lives(t)' \/ \E q \in Requests : Deletes(q, t)'
  BY <1>4, <1>5 DEF Agrees
<1>7. row'[t] # NoRow => HasQuota(t, row[t])' \/ \E q \in Requests : Writes(q, t)'
  BY <1>4, <1>5 DEF Agrees, HasQuota
<1>8. \A q \in Requests : Reached(q, t)' /\ req'[q].op # "delete" => Lives(t)'
  BY <1>4, <1>5 DEF Agrees
<1>9. \A q \in Requests : Writes(q, t)' => HasQuota(t, req[q].c)'
  <2>1. \A q \in Requests : Writes(q, t)' => req'[q] = req[q]
    BY <1>4 DEF Writes, Reached
  <2>2. QED
    BY <1>4, <1>5, <2>1 DEF Agrees, HasQuota
<1>10. QED
  BY <1>6, <1>7, <1>8, <1>9 DEF Agrees

LEMMA TenantStep ==
  ASSUME Inv, NEW r \in Requests, NEW lands \in BOOLEAN, NEW ok \in BOOLEAN,
         CreateOrUpdateTenant(r, lands, ok), NEW t \in Tenants \ parted'
  PROVE  Agrees(t)'
<1> DEFINE u == req[r].t
<1>1. req[r] \in Begun /\ InTransaction(r) /\ u \in Tenants /\ t \in Tenants \ parted
  BY RequestType DEF CreateOrUpdateTenant, Inv, InTransaction, Begun, Mark
<1>2. UNCHANGED <<row, trq>>
  BY DEF CreateOrUpdateTenant
<1>3. PICK x : /\ req' = [req EXCEPT ![r] = x]
               /\ ok => /\ x = [req[r] EXCEPT !.pc = "tenant"] /\ x.pc = "tenant"
                        /\ x.op = req[r].op /\ x.t = u /\ x.c = req[r].c
                        /\ x.hits = req[r].hits
               /\ ~ok => x = Ready
  BY <1>1, Proceeds DEF CreateOrUpdateTenant
<1>4. ten' = IF lands /\ ten[u] = NoTenant THEN [ten EXCEPT ![u] = Born(u)] ELSE ten
  BY DEF CreateOrUpdateTenant
<1>5. Lives(t) => Lives(t)'
  <2>1. Lives(t) => ten'[t] = ten[t]
    BY <1>1, <1>4 DEF Lives, Inv, Objects
  <2>2. QED
    BY <2>1 DEF Lives
<1>6. CASE t # u
  <2>1. ten'[t] = ten[t]
    BY <1>1, <1>4, <1>6 DEF Inv, Objects
  <2>2. QED
    BY <1>1, <1>2, <1>3, <1>6, <2>1, Elsewhere
<1>7. CASE t = u /\ ~ok
  BY <1>1, <1>2, <1>3, <1>5, <1>7, FailedCall DEF CreateOrUpdateTenant
<1>8. CASE t = u /\ ok
  <2>1. Lives(t)'
    <3>1. ~(ten[t] # NoTenant /\ ten[t].deleting) /\ lands
      BY <1>8 DEF CreateOrUpdateTenant, Mark
    <3>2. CASE ten[t] = NoTenant
      <4>1. ten'[t] = Born(t)
        BY <1>1, <1>4, <1>8, <3>1, <3>2 DEF Inv, Objects
      <4>2. QED
        BY <4>1, BornAlive DEF Lives
    <3>3. CASE ten[t] # NoTenant
      BY <1>5, <3>1, <3>3 DEF Lives
    <3>4. QED
      BY <3>2, <3>3
  <2>2. Holds(r)
    BY <1>1 DEF CreateOrUpdateTenant, Inv, Locks
  <2>3. \A q \in Requests : q # r => req'[q] = req[q] /\ ~Reached(q, t) /\ ~Writes(q, t)
    BY <1>1, <1>3, <1>8, <2>2, Alone DEF Inv, Service
  <2>4. req'[r].pc = "tenant" /\ req[r].pc = "saved"
    BY <1>3, <1>8 DEF Inv, Service, CreateOrUpdateTenant
  <2>5. \A q \in Requests : ~Writes(q, t) /\ ~Writes(q, t)'
    BY <2>3, <2>4 DEF Writes, Reached, Holds, InTransaction
  <2>6. Agrees(t)
    BY <1>1 DEF Inv
  <2>7. row'[t] # NoRow => HasQuota(t, row[t])' \/ \E q \in Requests : Writes(q, t)'
    BY <1>2, <2>5, <2>6 DEF Agrees, HasQuota
  <2>8. QED
    BY <2>1, <2>5, <2>7 DEF Agrees
<1>9. QED
  BY <1>6, <1>7, <1>8

LEMMA QuotaStep ==
  ASSUME Inv, NEW r \in Requests, NEW lands \in BOOLEAN, NEW ok \in BOOLEAN,
         CreateOrUpdateTenantResourceQuota(r, lands, ok), NEW t \in Tenants \ parted'
  PROVE  Agrees(t)'
<1> DEFINE u == req[r].t
           c == req[r].c
           new == [is |-> "there", owner |-> 0, hard |-> c, alloc |-> 0]
<1>1. req[r] \in Begun /\ InTransaction(r) /\ u \in Tenants /\ t \in Tenants \ parted
  BY RequestType DEF CreateOrUpdateTenantResourceQuota, Inv, InTransaction, Begun, Mark
<1>2. UNCHANGED <<row, ten>> /\ (Lives(t) => Lives(t)')
  BY DEF CreateOrUpdateTenantResourceQuota, Lives
<1>3. PICK x : /\ req' = [req EXCEPT ![r] = x]
               /\ ok => /\ x = [req[r] EXCEPT !.pc = "applied"] /\ x.pc = "applied"
                        /\ x.op = req[r].op /\ x.t = u /\ x.c = c
                        /\ x.hits = req[r].hits
               /\ ~ok => x = Ready
  BY <1>1, Proceeds DEF CreateOrUpdateTenantResourceQuota
<1>4. trq' = IF ~lands THEN trq
             ELSE IF trq[u] = NoQuota THEN [trq EXCEPT ![u] = new]
             ELSE [trq EXCEPT ![u] = [trq[u] EXCEPT !.hard = c]]
  BY DEF CreateOrUpdateTenantResourceQuota
<1>5. req[r].pc = "tenant" /\ req[r].op # "delete"
  BY DEF CreateOrUpdateTenantResourceQuota, Inv, Locks
<1>6. CASE t # u
  <2>1. trq'[t] = trq[t]
    BY <1>1, <1>4, <1>6 DEF Inv, Objects
  <2>2. QED
    BY <1>1, <1>2, <1>3, <1>6, <2>1, Elsewhere
<1>7. CASE t = u /\ ~ok
  <2>1. ~lands
    BY <1>7 DEF CreateOrUpdateTenantResourceQuota, Mark
  <2>2. QED
    BY <1>1, <1>2, <1>3, <1>4, <1>5, <1>7, <2>1, FailedCall
<1>8. CASE t = u /\ ok
  <2>1. lands
    BY <1>8 DEF CreateOrUpdateTenantResourceQuota
  <2>2. HasQuota(t, c)'
    <3>1. CASE trq[t] = NoQuota
      <4>1. trq'[t] = new
        BY <1>1, <1>4, <1>8, <2>1, <3>1 DEF Inv, Objects
      <4>2. new # NoQuota /\ new.hard = c
        BY DEF NoQuota
      <4>3. req'[r].c = c /\ trq'[t] # NoQuota /\ trq'[t].hard = c
        BY <1>3, <1>8, <4>1, <4>2 DEF Inv, Service
      <4>4. QED
        BY <4>3 DEF HasQuota
    <3>2. CASE trq[t] # NoQuota
      <4>1. trq'[t] = [trq[t] EXCEPT !.hard = c]
        BY <1>1, <1>4, <1>8, <2>1, <3>2 DEF Inv, Objects
      <4>2. trq'[t] # NoQuota /\ trq'[t].hard = c
        <5>1. QuotaLike(trq[t])
          BY <1>1 DEF Inv, Objects
        <5>2. \A d : [trq[t] EXCEPT !.hard = d] # NoQuota /\ [trq[t] EXCEPT !.hard = d].hard = d
          BY <3>2, <5>1, QuotaChanged
        <5>3. QED
          BY <4>1, <5>2
      <4>3. req'[r].c = c
        BY <1>3, <1>8 DEF Inv, Service
      <4>4. QED
        BY <4>2, <4>3 DEF HasQuota
    <3>3. QED
      BY <3>1, <3>2
  <2>3. Holds(r)
    BY <1>1, <1>5 DEF Inv, Locks
  <2>4. \A q \in Requests : q # r => /\ req'[q] = req[q] /\ ~Reached(q, t)
                                     /\ ~Deletes(q, t) /\ ~Writes(q, t)
    BY <1>1, <1>3, <1>8, <2>3, Alone DEF Inv, Service
  <2>5. Reached(r, t) /\ Writes(r, t)' /\ ~Deletes(r, t)
    BY <1>1, <1>3, <1>5, <1>8, <2>3 DEF Inv, Service, Reached, Writes, Deletes, Holds, InTransaction
  <2>6. Lives(t)
    BY <1>1, <1>5, <2>5 DEF Inv, Agrees
  <2>7. Lives(t)'
    BY <1>2, <2>6
  <2>8. \A q \in Requests : Writes(q, t)' => q = r
    BY <2>4 DEF Writes, Reached, Holds, InTransaction
  <2>9. QED
    BY <2>2, <2>5, <2>7, <2>8 DEF Agrees
<1>9. QED
  BY <1>6, <1>7, <1>8

LEMMA DeleteStep ==
  ASSUME Inv, NEW r \in Requests, NEW lands \in BOOLEAN, NEW ok \in BOOLEAN,
         DeleteTenant(r, lands, ok), NEW t \in Tenants \ parted'
  PROVE  Agrees(t)'
<1> DEFINE u == req[r].t
<1>1. req[r] \in Begun /\ InTransaction(r) /\ u \in Tenants /\ t \in Tenants \ parted
  BY RequestType DEF DeleteTenant, Inv, InTransaction, Begun, Mark
<1>2. UNCHANGED <<row, trq>>
  BY DEF DeleteTenant
<1>3. PICK x : /\ req' = [req EXCEPT ![r] = x]
               /\ ok => /\ x = [req[r] EXCEPT !.pc = "applied"] /\ x.pc = "applied"
                        /\ x.op = req[r].op /\ x.t = u /\ x.c = req[r].c
                        /\ x.hits = req[r].hits
               /\ ~ok => x = Ready
  BY <1>1, Proceeds DEF DeleteTenant
<1>4. req[r].pc = "saved" /\ req[r].op = "delete"
  BY DEF DeleteTenant
<1>5. CASE t # u
  <2>1. ten'[t] = ten[t]
    BY <1>1, <1>5 DEF DeleteTenant, Inv, Objects
  <2>2. QED
    BY <1>1, <1>2, <1>3, <1>5, <2>1, Elsewhere
<1>6. CASE t = u /\ ~ok
  <2>1. ~lands
    BY <1>6 DEF DeleteTenant, Mark
  <2>2. Lives(t) => Lives(t)'
    BY <2>1 DEF DeleteTenant, Lives
  <2>3. QED
    BY <1>1, <1>2, <1>3, <1>4, <1>6, <2>2, FailedCall
<1>7. CASE t = u /\ ok /\ Holds(r)
  <2>1. \A q \in Requests : q # r => /\ req'[q] = req[q] /\ ~Reached(q, t)
                                     /\ ~Deletes(q, t) /\ ~Writes(q, t)
    BY <1>1, <1>3, <1>7, Alone DEF Inv, Service
  <2>2. Deletes(r, t)' /\ ~Writes(r, t) /\ ~Writes(r, t)' /\ req'[r].op = "delete"
    BY <1>3, <1>4, <1>7 DEF Inv, Service, Deletes, Writes, Reached, Holds, InTransaction
  <2>3. \A q \in Requests : ~Writes(q, t) /\ ~Writes(q, t)'
    BY <2>1, <2>2 DEF Writes, Reached, Holds, InTransaction
  <2>4. \A q \in Requests : Reached(q, t)' => q = r
    BY <2>1 DEF Reached, Holds, InTransaction
  <2>5. row'[t] # NoRow => HasQuota(t, row[t])' \/ \E q \in Requests : Writes(q, t)'
    BY <1>1, <1>2, <2>3 DEF Inv, Agrees, HasQuota
  <2>6. QED
    BY <2>2, <2>3, <2>4, <2>5 DEF Agrees
<1>8. CASE t = u /\ ok /\ ~Holds(r)
  <2>1. ten[t].deleting
    BY <1>1, <1>8 DEF DeleteTenant, Begun, Holds, Mark
  <2>2. ~Lives(t) /\ ~Reached(r, t)
    BY <1>8, <2>1 DEF Lives, Reached
  <2>3. req'[r].pc = "applied" /\ req'[r].hits = req[r].hits
    BY <1>3, <1>8 DEF Inv, Service
  <2>4. ~Reached(r, t)'
    BY <1>1, <1>8, <2>3 DEF Reached, Holds, InTransaction
  <2>5. \A q \in Requests : req'[q] = req[q] \/ (~Reached(q, t) /\ ~Reached(q, t)')
    BY <1>3, <2>2, <2>4 DEF Inv, Service
  <2>6. QED
    BY <1>1, <1>2, <2>2, <2>5, Frame DEF Inv
<1>9. QED
  BY <1>5, <1>6, <1>7, <1>8

LEMMA CommitStep ==
  ASSUME Inv, NEW r \in Requests, NEW ok \in BOOLEAN, Commit(r, ok)
  PROVE  Service' /\ Locks' /\ \A t \in Tenants \ parted' : Agrees(t)'
<1> DEFINE q == req[r]
<1>1. q \in Begun /\ q.t \in Tenants /\ q.c \in Amounts /\ InTransaction(r)
  BY RequestType DEF Commit, Inv, Begun, InTransaction
<1>2. /\ UNCHANGED <<ten, trq>>
      /\ req' = [req EXCEPT ![r] = Ready]
      /\ q.pc = "applied"
      /\ row' = IF ok /\ q.hits
                THEN [row EXCEPT ![q.t] = IF q.op = "delete" THEN NoRow ELSE q.c] ELSE row
      /\ key' = key \/ key' = [key EXCEPT ![q.t] = q.key]
  BY DEF Commit, cluster
<1>3. row' \in [Tenants -> Amounts \cup {NoRow}] /\ key' \in [Tenants -> Nat]
  BY <1>1, <1>2 DEF Inv, Service, Begun
<1>4. Service' /\ Locks'
  BY <1>2, <1>3, Written, LocksKept DEF Inv, Ready
<1>5. ASSUME NEW t \in Tenants \ parted' PROVE Agrees(t)'
  <2>1. t \notin parted /\ (t = q.t => ok)
    BY <1>5 DEF Commit, Mark
  <2>2. Agrees(t)
    BY <2>1 DEF Inv
  <2>3. CASE t # q.t
    <3>1. row'[t] = row[t]
      BY <1>1, <1>2, <2>3 DEF Inv, Service
    <3>2. QED
      BY <1>1, <1>2, <2>1, <2>3, <3>1, Elsewhere
  <2>4. CASE t = q.t /\ ~Holds(r)
    <3>1. row'[t] = row[t] /\ ~Reached(r, t) /\ ~Reached(r, t)'
      BY <1>1, <1>2, <2>4 DEF Inv, Service, Begun, Reached, Holds, InTransaction, Ready
    <3>2. \A p \in Requests : req'[p] = req[p] \/ (~Reached(p, t) /\ ~Reached(p, t)')
      BY <1>2, <3>1 DEF Inv, Service
    <3>3. Lives(t) => Lives(t)'
      BY <1>2 DEF Lives
    <3>4. QED
      BY <1>2, <2>2, <3>1, <3>2, <3>3, Frame
  <2>5. CASE t = q.t /\ Holds(r)
    <3>1. q.hits
      BY <2>5 DEF Holds
    <3>2. \A p \in Requests : ~Reached(p, t)' /\ ~Writes(p, t)'
      <4>1. \A p \in Requests : p # r => req'[p] = req[p] /\ ~Reached(p, t)
        BY <1>1, <1>2, <2>5, Alone DEF Inv, Service
      <4>2. req'[r].pc = "ready"
        BY <1>2 DEF Inv, Service, Ready
      <4>3. QED
        BY <4>1, <4>2 DEF Reached, Writes, Holds, InTransaction
    <3>3. CASE q.op = "delete"
      <4>1. row'[t] = NoRow
        BY <1>1, <1>2, <2>1, <2>5, <3>3, <3>1 DEF Inv, Service
      <4>2. QED
        BY <3>2, <4>1 DEF Agrees
    <3>4. CASE q.op # "delete"
      <4>1. row'[t] = q.c
        BY <1>1, <1>2, <2>1, <2>5, <3>4, <3>1 DEF Inv, Service
      <4>2. Writes(r, t) /\ Reached(r, t)
        BY <1>2, <2>5, <3>4 DEF Writes, Reached
      <4>3. Lives(t) /\ HasQuota(t, q.c)
        BY <2>2, <3>4, <4>2 DEF Agrees
      <4>4. Lives(t)' /\ HasQuota(t, row[t])'
        BY <1>2, <4>1, <4>3 DEF Lives, HasQuota
      <4>5. QED
        BY <3>2, <4>4 DEF Agrees
    <3>5. QED
      BY <3>3, <3>4
  <2>6. QED
    BY <2>3, <2>5, <2>4
<1>6. QED
  BY <1>4, <1>5

\* Controllers leave rows and requests alone; the garbage collector is the only
\* one that takes a quota.
LEMMA WorkTenantsStep ==
  ASSUME Inv, WorkTenants, NEW t \in Tenants \ parted'
  PROVE  Agrees(t)'
<1> DEFINE u == tenWork.t
<1>1. UNCHANGED <<row, req, parted>>
  BY DEF WorkTenants, ReconcileTenant, HandleTenantResourceQuota, AddFinalizers, DeleteAllOf,
         RemoveFinalizers, service, history
<1>2. Agrees(t)
  BY <1>1 DEF Inv
<1>3. ASSUME NEW s \in Tenants, ReconcileTenant(s) PROVE Agrees(t)'
  BY <1>1, <1>2, <1>3, AgreesUnchanged DEF ReconcileTenant, cluster, Lives
<1>4. ASSUME NEW ok \in BOOLEAN, HandleTenantResourceQuota(ok) PROVE Agrees(t)'
  <2> DEFINE new == [is |-> "there", owner |-> tenWork.copy.uid, hard |-> 0, alloc |-> 0]
             owned == [trqSeen[u] EXCEPT !.owner = tenWork.copy.uid]
  <2>1. u \in Tenants
    BY <1>4 DEF HandleTenantResourceQuota, Inv, Controllers, Idle
  <2>2. \/ trq' = trq
        \/ trq[u] = NoQuota /\ trq' = [trq EXCEPT ![u] = new]
        \/ trqSeen[u] # NoQuota /\ trqSeen[u] = trq[u] /\ trq' = [trq EXCEPT ![u] = owned]
    BY <1>4 DEF HandleTenantResourceQuota
  <2>3. trqSeen[u] # NoQuota => owned # NoQuota /\ owned.hard = trqSeen[u].hard
    <3>1. QuotaLike(trqSeen[u])
      BY <2>1 DEF Inv, Objects
    <3>2. ASSUME NEW x, QuotaLike(x), x # NoQuota, NEW c, NEW y, y = [x EXCEPT !.owner = c]
          PROVE  y # NoQuota /\ y.hard = x.hard
      BY <3>2, QuotaChanged
    <3>3. QED
      BY <3>1, <3>2
  <2>4. trq[t] # NoQuota => trq'[t] # NoQuota /\ trq'[t].hard = trq[t].hard
    <3>1. trq = [s \in Tenants |-> trq[s]]
      BY DEF Inv, Objects
    <3>2. CASE t # u
      <4>1. trq'[t] = trq[t]
        BY <2>1, <2>2, <3>1, <3>2
      <4>2. QED
        BY <4>1
    <3>3. CASE t = u /\ trqSeen[u] # NoQuota /\ trqSeen[u] = trq[u]
               /\ trq' = [trq EXCEPT ![u] = owned]
      <4>1. trq'[t] = owned
        BY <2>1, <3>1, <3>3
      <4>2. QED
        BY <2>3, <3>3, <4>1
    <3>4. QED
      BY <2>2, <3>2, <3>3
  <2>5. Lives(t) => Lives(t)'
    BY <1>4 DEF HandleTenantResourceQuota, Lives
  <2>6. QED
    BY <1>1, <1>2, <2>4, <2>5, AgreesUnchanged
<1>5. ASSUME NEW ok \in BOOLEAN, AddFinalizers(ok) PROVE Agrees(t)'
  <2>1. u \in Tenants /\ TenantLike(tenWork.copy) /\ tenWork.copy # NoTenant
    BY <1>5 DEF AddFinalizers, Inv, Controllers, Idle
  <2>2. \/ ten' = ten
        \/ ten[u] = tenWork.copy /\ ten' = [ten EXCEPT ![u] = [ten[u] EXCEPT !.fin = TRUE]]
    BY <1>5 DEF AddFinalizers
  <2>3. ten[u] = tenWork.copy =>
          \A c : [ten[u] EXCEPT !.fin = c] # NoTenant
                 /\ [ten[u] EXCEPT !.fin = c].deleting = ten[u].deleting
    BY <2>1, TenantChanged
  <2>4. Lives(t) => Lives(t)'
    <3>1. ten = [s \in Tenants |-> ten[s]]
      BY DEF Inv, Objects
    <3>2. CASE t # u
      <4>1. ten'[t] = ten[t]
        BY <2>1, <2>2, <3>1, <3>2
      <4>2. QED
        BY <4>1 DEF Lives
    <3>3. CASE t = u /\ ten' # ten
      <4>1. ten'[t] = [ten[u] EXCEPT !.fin = TRUE] /\ ten[u] = tenWork.copy
        BY <2>1, <2>2, <3>1, <3>3
      <4>2. ten'[t] # NoTenant /\ ten'[t].deleting = ten[u].deleting
        BY <2>3, <4>1
      <4>3. QED
        BY <3>3, <4>2 DEF Lives
    <3>4. CASE ten' = ten
      BY <3>4 DEF Lives
    <3>5. QED
      BY <3>2, <3>3, <3>4
  <2>5. QED
    BY <1>1, <1>2, <1>5, <2>4, AgreesUnchanged DEF AddFinalizers
<1>6. ASSUME NEW ok \in BOOLEAN, DeleteAllOf(ok) PROVE Agrees(t)'
  BY <1>1, <1>2, <1>6, AgreesUnchanged DEF DeleteAllOf, Lives
<1>7. ASSUME NEW ok \in BOOLEAN, RemoveFinalizers(ok) PROVE Agrees(t)'
  <2>1. u \in Tenants /\ tenWork.copy.deleting
    BY <1>7 DEF RemoveFinalizers, Inv, Controllers, Idle
  <2>2. ten' = ten \/ (ten[u] = tenWork.copy /\ ten' = [ten EXCEPT ![u] = NoTenant])
    BY <1>7 DEF RemoveFinalizers
  <2>3. Lives(t) => Lives(t)'
    BY <2>1, <2>2 DEF Lives, Inv, Objects
  <2>4. QED
    BY <1>1, <1>2, <1>7, <2>3, AgreesUnchanged DEF RemoveFinalizers
<1>8. QED
  BY <1>3, <1>4, <1>5, <1>6, <1>7 DEF WorkTenants

LEMMA WorkQuotasStep ==
  ASSUME Inv, WorkQuotas, NEW t \in Tenants \ parted'
  PROVE  Agrees(t)'
<1> DEFINE u == trqWork.t
<1>1. UNCHANGED <<row, req, parted, ten>>
  BY DEF WorkQuotas, ReconcileTenantResourceQuota, UpdateStatus, service, history, cluster
<1>2. Agrees(t) /\ (Lives(t) => Lives(t)')
  BY <1>1 DEF Inv, Lives
<1>3. ASSUME NEW s \in Tenants, ReconcileTenantResourceQuota(s) PROVE Agrees(t)'
  BY <1>1, <1>2, <1>3, AgreesUnchanged DEF ReconcileTenantResourceQuota, cluster
<1>4. ASSUME NEW ok \in BOOLEAN, UpdateStatus(ok) PROVE Agrees(t)'
  <2>1. u \in Tenants /\ QuotaLike(trqWork.copy) /\ trqWork.copy # NoQuota
    BY <1>4 DEF UpdateStatus, Inv, Controllers, Idle
  <2>2. \/ trq' = trq
        \/ trq[u] = trqWork.copy /\ trq' = [trq EXCEPT ![u] = [trq[u] EXCEPT !.alloc = trqWork.sum]]
    BY <1>4 DEF UpdateStatus
  <2>3. trq[u] = trqWork.copy =>
          \A c : [trq[u] EXCEPT !.alloc = c] # NoQuota
                 /\ [trq[u] EXCEPT !.alloc = c].hard = trq[u].hard
    BY <2>1, QuotaChanged
  <2>4. trq[t] # NoQuota => trq'[t] # NoQuota /\ trq'[t].hard = trq[t].hard
    <3>1. CASE t # u
      BY <2>1, <2>2, <3>1 DEF Inv, Objects
    <3>2. CASE t = u /\ trq' # trq
      <4>1. trq'[t] = [trq[u] EXCEPT !.alloc = trqWork.sum]
        BY <2>1, <2>2, <3>2 DEF Inv, Objects
      <4>2. QED
        BY <2>2, <2>3, <3>2, <4>1
    <3>3. QED
      BY <3>1, <3>2
  <2>5. QED
    BY <1>1, <1>2, <2>4, AgreesUnchanged
<1>5. QED
  BY <1>3, <1>4 DEF WorkQuotas

LEMMA CollectStep ==
  ASSUME Inv, Collect, NEW t \in Tenants \ parted'
  PROVE  Agrees(t)'
<1>1. ASSUME NEW s \in Tenants, CollectTenantResourceQuota(s) PROVE Agrees(t)'
  <2>1. /\ UNCHANGED <<row, req, ten>>
        /\ trq' = [trq EXCEPT ![s] = NoQuota]
        /\ t \notin parted
        /\ t = s => /\ ten[t] = NoTenant \/ row[t] = NoRow
                    /\ ~\E r \in Requests : req[r].pc = "applied" /\ req[r].t = t
    BY <1>1 DEF CollectTenantResourceQuota, service, Mark
  <2>2. Agrees(t) /\ (Lives(t) => Lives(t)')
    BY <2>1 DEF Inv, Lives
  <2>3. CASE t # s
    BY <2>1, <2>2, <2>3, AgreesUnchanged DEF Inv, Objects
  <2>4. CASE t = s
    <3>1. \A r \in Requests : ~Deletes(r, t) /\ ~Writes(r, t) /\ ~Writes(r, t)'
      BY <2>1, <2>4 DEF Reached, Deletes, Writes, Holds, InTransaction
    <3>2. row[t] = NoRow
      BY <2>1, <2>2, <2>4, <3>1 DEF Agrees, Lives
    <3>3. \A r \in Requests : Reached(r, t)' /\ req'[r].op # "delete" => Lives(t)'
      BY <2>1, <2>2 DEF Agrees, Reached, Holds, InTransaction
    <3>4. QED
      BY <2>1, <3>1, <3>2, <3>3 DEF Agrees
  <2>5. QED
    BY <2>3, <2>4
<1>2. ASSUME NEW n \in Spaces, CollectResourceQuota(n) PROVE Agrees(t)'
  BY <1>2, AgreesUnchanged DEF CollectResourceQuota, service, Inv, Lives
<1>3. QED
  BY <1>1, <1>2 DEF Collect

\* What touches neither the service nor tenants and quotas
LEMMA OtherStep ==
  ASSUME Inv, UNCHANGED <<service, ten, trq, parted>>, NEW t \in Tenants \ parted'
  PROVE  Agrees(t)'
  BY AgreesUnchanged DEF Inv, service, Lives

LEMMA RequestStep ==
  ASSUME Inv, NEW r \in Requests, Ask(r) \/ Serve(r)
  PROVE  Service' /\ Locks' /\ \A t \in Tenants \ parted' : Agrees(t)'
<1> DEFINE Goal == Service' /\ Locks' /\ \A t \in Tenants \ parted' : Agrees(t)'
<1>1. CASE Ask(r)
  <2>1. PICK x \in Begun : /\ x.pc = "checked" /\ req[r] = Ready /\ req' = [req EXCEPT ![r] = x]
                           /\ UNCHANGED <<row, key, cluster, parted>>
    BY <1>1, AskStep
  <2>2. Service' /\ Locks'
    BY <2>1, Written, LocksKept DEF Inv, Service
  <2>3. \A t \in Tenants, p \in Requests :
            req'[p] = req[p] \/ (~Reached(p, t) /\ ~Reached(p, t)')
    BY <2>1 DEF Inv, Service, Reached, Holds, InTransaction, Ready
  <2>4. ASSUME NEW t \in Tenants \ parted' PROVE Agrees(t)'
    BY <2>1, <2>3, <2>4, Frame DEF Inv, cluster, Lives
  <2>5. QED
    BY <2>2, <2>4
<1>2. ASSUME NEW lands \in BOOLEAN, NEW ok \in BOOLEAN, CreateOrUpdateTenant(r, lands, ok)
      PROVE  Goal
  <2>1. req[r].pc = "saved" /\ req[r].op # "delete" /\ Proceed(r, "tenant", ok) /\ UNCHANGED <<row, key>>
    BY <1>2 DEF CreateOrUpdateTenant
  <2>2. QED
    BY <1>2, <2>1, AnswerService, TenantStep
<1>3. ASSUME NEW lands \in BOOLEAN, NEW ok \in BOOLEAN,
             CreateOrUpdateTenantResourceQuota(r, lands, ok)
      PROVE  Goal
  <2>1. req[r].pc = "tenant" /\ Proceed(r, "applied", ok) /\ UNCHANGED <<row, key>>
    BY <1>3 DEF CreateOrUpdateTenantResourceQuota
  <2>2. QED
    BY <1>3, <2>1, AnswerService, QuotaStep
<1>4. ASSUME NEW lands \in BOOLEAN, NEW ok \in BOOLEAN, DeleteTenant(r, lands, ok)
      PROVE  Goal
  <2>1. req[r].pc = "saved" /\ Proceed(r, "applied", ok) /\ UNCHANGED <<row, key>>
    BY <1>4 DEF DeleteTenant
  <2>2. QED
    BY <1>4, <2>1, AnswerService, DeleteStep
<1>5. QED
  BY <1>1, <1>2, <1>3, <1>4, SaveStep, CommitStep DEF Serve

LEMMA NextInv == Inv /\ [Next]_vars => Inv'
<1> SUFFICES ASSUME Inv, [Next]_vars PROVE Inv'
  OBVIOUS
<1> DEFINE Goal == Service' /\ Locks' /\ \A t \in Tenants \ parted' : Agrees(t)'
<1>1. ASSUME UNCHANGED service PROVE Service' /\ Locks'
  BY <1>1, ServiceUnchanged, LocksUnchanged DEF Inv, service
<1>2. ASSUME UNCHANGED <<service, ten, trq, parted>> PROVE Goal
  BY <1>1, <1>2, OtherStep
<1>3. ASSUME UNCHANGED vars PROVE Goal
  BY <1>2, <1>3 DEF vars, cluster, history
<1>4. ASSUME NEW r \in Requests, Ask(r) \/ Serve(r) PROVE Goal
  BY <1>4, RequestStep
<1>5. ASSUME NEW e \in Envs, Edit(e) PROVE Goal
  BY <1>2, <1>5 DEF Edit, CreateEnvironment, UpdateEnvironment, DeleteEnvironment, history
<1>6. ASSUME Watch PROVE Goal
  BY <1>2, <1>6 DEF Watch, WatchTenant, WatchTenantResourceQuota, WatchResourceQuota, cluster, history
<1>7. ASSUME Restart PROVE Goal
  BY <1>2, <1>7 DEF Restart, cluster, history
<1>8. ASSUME NEW e \in Envs, NEW ok \in BOOLEAN, NEW labels \in BOOLEAN, Limit(e, ok, labels) PROVE Goal
  BY <1>2, <1>8 DEF Limit
<1>9. ASSUME NEW n \in Spaces, Enforce(n) PROVE Goal
  BY <1>2, <1>9 DEF Enforce, history
<1>10. ASSUME WorkTenants PROVE Goal
  <2>1. UNCHANGED service
    BY <1>10 DEF WorkTenants, ReconcileTenant, HandleTenantResourceQuota, AddFinalizers,
                 DeleteAllOf, RemoveFinalizers
  <2>2. QED
    BY <1>1, <1>10, <2>1, WorkTenantsStep
<1>11. ASSUME WorkQuotas PROVE Goal
  <2>1. UNCHANGED service
    BY <1>11 DEF WorkQuotas, ReconcileTenantResourceQuota, UpdateStatus
  <2>2. QED
    BY <1>1, <1>11, <2>1, WorkQuotasStep
<1>12. ASSUME Collect PROVE Goal
  <2>1. UNCHANGED service
    BY <1>12 DEF Collect, CollectTenantResourceQuota, CollectResourceQuota
  <2>2. QED
    BY <1>1, <1>12, <2>1, CollectStep
<1>13. Goal
  BY <1>3, <1>4, <1>5, <1>6, <1>7, <1>8, <1>9, <1>10, <1>11, <1>12 DEF Next, Work
<1>14. QED
  BY <1>13, ObjectsStep, ControllersStep, OpsStep DEF Inv

LEMMA Invariant == Spec => []Inv
  BY InitInv, NextInv, PTL DEF Spec

(* The TenantResourceQuota of a tenant is what its row says whenever nobody *)
(* is writing it, unless the two have parted: through any interleaving of   *)
(* requests, controllers, the garbage collector, failures and restarts      *)
(* (tenant.go:827-1045, tenant_controller.go:54-189).  A deletion is of the *)
(* row that it read: one that read a former row takes the tenant and leaves *)
(* the row, so it counts among what parts the two, and the proof has to     *)
(* show that every other transaction holds the row that it writes.          *)
THEOREM HardRecorded == Spec => []HardIsRecorded
<1>1. ASSUME Inv, NEW t \in Tenants \ parted, row[t] # NoRow,
             ~(\E r \in Requests : InTransaction(r) /\ req[r].t = t)
      PROVE  trq[t] # NoQuota /\ trq[t].hard = row[t]
  <2>1. \A r \in Requests : ~Writes(r, t)
    BY <1>1 DEF Writes, Reached, Holds
  <2>2. QED
    BY <1>1, <2>1 DEF Inv, Agrees, HasQuota
<1>2. Inv => HardIsRecorded
  BY <1>1 DEF HardIsRecorded
<1>3. QED
  BY <1>2, Invariant, PTL

-------------------------------------------------------------------------------
(* Sums.  The theorems of induction take an operator, which the provers do *)
(* not supply; that the subsets of a finite set have least ones takes a    *)
(* set.                                                                    *)

Pick(s) == CHOOSE x \in s : TRUE

\* g adds up f over the subsets of S.
Adds(g, f, S) ==
  g = [s \in SUBSET S |-> IF s = {} THEN 0 ELSE f[Pick(s)] + g[s \ {Pick(s)}]]
Summed(f, S) == (CHOOSE g : Adds(g, f, S))[S]

\* What does not hold of all subsets of a finite set fails for a least one.
LEMMA Least ==
  ASSUME NEW S, IsFiniteSet(S), NEW T \in SUBSET (SUBSET S), T # {}
  PROVE  \E s \in T : \A u \in SUBSET s : u # s => u \notin T
<1>1. FiniteSubsetsOf(S) = SUBSET S
  BY FS_FiniteSubsetsOfFinite
<1>2. IsWellFoundedOn(StrictSubsetOrdering(S), SUBSET S)
  BY <1>1, FS_StrictSubsetOrderingWellFounded
<1>3. PICK s \in T : \A u \in T : ~(<<u, s>> \in StrictSubsetOrdering(S))
  BY <1>2, WFMin
<1>4. ASSUME NEW u \in SUBSET s, u # s, u \in T PROVE FALSE
  <2>1. u \in SUBSET S /\ s \in SUBSET S /\ u \subseteq s
    OBVIOUS
  <2>2. <<u, s>> \in StrictSubsetOrdering(S)
    BY <1>4, <2>1 DEF StrictSubsetOrdering
  <2>3. QED
    BY <1>3, <1>4, <2>2
<1>5. QED
  BY <1>4

LEMMA Picked == ASSUME NEW s, s # {} PROVE Pick(s) \in s
  BY DEF Pick

LEMMA AddsNothing ==
  ASSUME NEW g, NEW f, NEW S, Adds(g, f, S)
  PROVE  g[{}] = 0
<1>1. {} \in SUBSET S
  OBVIOUS
<1>2. QED
  BY <1>1 DEF Adds

LEMMA AddsFirst ==
  ASSUME NEW g, NEW f, NEW S, Adds(g, f, S), NEW s \in SUBSET S, s # {}
  PROVE  g[s] = f[Pick(s)] + g[s \ {Pick(s)}]
  BY DEF Adds

\* Whichever sets they are defined for, sums of what is alike are equal.
LEMMA AddsAlike ==
  ASSUME NEW g, NEW f, NEW S, Adds(g, f, S), NEW h, NEW d, NEW T, Adds(h, d, T),
         NEW D \in SUBSET S, D \in SUBSET T, IsFiniteSet(D), \A x \in D : f[x] = d[x]
  PROVE  g[D] = h[D]
<1> DEFINE Bad == {s \in SUBSET D : g[s] # h[s]}
<1>1. SUFFICES ASSUME Bad # {} PROVE FALSE
  OBVIOUS
<1>2. Bad \in SUBSET (SUBSET D)
  OBVIOUS
<1> HIDE DEF Bad
<1>3. PICK s \in Bad : \A u \in SUBSET s : u # s => u \notin Bad
  BY <1>2, <1>1, Least
<1> USE DEF Bad
<1>4. s # {} /\ s \in SUBSET D /\ s \in SUBSET S /\ s \in SUBSET T
  <2>1. g[{}] = 0 /\ h[{}] = 0
    BY AddsNothing
  <2>2. g[s] # h[s] /\ s \in SUBSET D
    BY <1>3
  <2>3. s # {}
    BY <2>1, <2>2
  <2>4. QED
    BY <2>2, <2>3
<1>5. Pick(s) \in s /\ f[Pick(s)] = d[Pick(s)]
  BY <1>4, Picked
<1>6. g[s \ {Pick(s)}] = h[s \ {Pick(s)}]
  BY <1>3, <1>4, <1>5
<1> HIDE DEF Bad
<1>7. g[s] = f[Pick(s)] + g[s \ {Pick(s)}] /\ h[s] = d[Pick(s)] + h[s \ {Pick(s)}]
  <2>1. g[s] = f[Pick(s)] + g[s \ {Pick(s)}]
    BY <1>4 DEF Adds
  <2>2. h[s] = d[Pick(s)] + h[s \ {Pick(s)}]
    BY <1>4 DEF Adds
  <2>3. QED
    BY <2>1, <2>2
<1>8. g[s] = h[s]
  BY <1>5, <1>6, <1>7
<1>9. QED
  BY <1>8 DEF Bad

LEMMA AddsExists ==
  ASSUME NEW f, NEW S, IsFiniteSet(S)
  PROVE  \E g : Adds(g, f, S)
<1> DEFINE Bad == {s \in SUBSET S : ~\E g : Adds(g, f, s)}
<1>1. SUFFICES ASSUME Bad # {} PROVE FALSE
  OBVIOUS
<1>2. Bad \in SUBSET (SUBSET S)
  OBVIOUS
<1> HIDE DEF Bad
<1>3. PICK s \in Bad : \A u \in SUBSET s : u # s => u \notin Bad
  BY <1>2, <1>1, Least
<1> USE DEF Bad
<1>4. ASSUME NEW u \in SUBSET s, u # s
      PROVE  Adds(CHOOSE g : Adds(g, f, u), f, u) /\ IsFiniteSet(u)
  <2>1. \E g : Adds(g, f, u)
    BY <1>3, <1>4
  <2>2. IsFiniteSet(u)
    BY <1>4, FS_Subset
  <2>3. QED
    BY <2>1, <2>2
<1> DEFINE G(u) == IF u = {} THEN 0 ELSE f[Pick(u)] + Summed(f, u \ {Pick(u)})
           h == [u \in SUBSET s |-> G(u)]
<1>5. ASSUME NEW u \in SUBSET s, u # {} PROVE h[u \ {Pick(u)}] = Summed(f, u \ {Pick(u)})
  <2> DEFINE v == u \ {Pick(u)}
             gv == CHOOSE g : Adds(g, f, v)
  <2>1. v \in SUBSET s /\ v # s /\ h[v] = G(v)
    BY <1>5, Picked
  <2>2. Adds(gv, f, v)
    BY <1>4, <2>1
  <2>3. CASE v = {}
    BY <2>1, <2>2, <2>3, AddsNothing DEF Summed
  <2>4. CASE v # {}
    <3> DEFINE w == v \ {Pick(v)}
               gw == CHOOSE g : Adds(g, f, w)
    <3>1. w \in SUBSET s /\ w # s /\ w \in SUBSET v
      BY <2>1, <2>4, Picked
    <3>2. Adds(gw, f, w) /\ IsFiniteSet(w)
      BY <1>4, <3>1
    <3>3. gv[w] = gw[w]
      BY <2>2, <3>1, <3>2, AddsAlike
    <3>4. gv[v] = f[Pick(v)] + gv[w]
      <4> HIDE DEF gv, v
      <4>1. QED
        BY <2>2, <2>4 DEF Adds
    <3>5. QED
      BY <2>1, <2>4, <3>3, <3>4 DEF Summed
  <2>5. QED
    BY <2>3, <2>4
<1>6. h = [u \in SUBSET s |-> IF u = {} THEN 0 ELSE f[Pick(u)] + h[u \ {Pick(u)}]]
  BY <1>5
<1>7. Adds(h, f, s)
  BY <1>6 DEF Adds
<1>8. QED
  BY <1>7

LEMMA SummedByAny ==
  ASSUME NEW f, NEW S, IsFiniteSet(S), NEW g, NEW T, Adds(g, f, T), S \in SUBSET T
  PROVE  Summed(f, S) = g[S]
<1>1. \E h : Adds(h, f, S)
  BY AddsExists
<1>2. Adds(CHOOSE h : Adds(h, f, S), f, S)
  BY <1>1
<1>3. QED
  BY <1>2, AddsAlike DEF Summed

LEMMA SummedFirst ==
  ASSUME NEW f, NEW S, IsFiniteSet(S)
  PROVE  /\ Summed(f, {}) = 0
         /\ S # {} => Summed(f, S) = f[Pick(S)] + Summed(f, S \ {Pick(S)})
<1>1. PICK g : Adds(g, f, S)
  BY AddsExists
<1>2. IsFiniteSet({}) /\ IsFiniteSet(S \ {Pick(S)})
  BY FS_EmptySet, FS_RemoveElement
<1>3. Summed(f, {}) = g[{}] /\ Summed(f, S) = g[S] /\ Summed(f, S \ {Pick(S)}) = g[S \ {Pick(S)}]
  BY <1>1, <1>2, SummedByAny
<1>4. g[{}] = 0
  BY <1>1, AddsNothing
<1>5. S # {} => g[S] = f[Pick(S)] + g[S \ {Pick(S)}]
  BY <1>1, AddsFirst
<1>6. QED
  BY <1>3, <1>4, <1>5

LEMMA SummedType ==
  ASSUME NEW f, NEW S, IsFiniteSet(S), \A x \in S : f[x] \in Nat
  PROVE  Summed(f, S) \in Nat
<1> DEFINE Bad == {s \in SUBSET S : Summed(f, s) \notin Nat}
<1>1. SUFFICES ASSUME Bad # {} PROVE FALSE
  OBVIOUS
<1>2. Bad \in SUBSET (SUBSET S)
  OBVIOUS
<1> HIDE DEF Bad
<1>3. PICK s \in Bad : \A u \in SUBSET s : u # s => u \notin Bad
  BY <1>2, <1>1, Least
<1> USE DEF Bad
<1>4. IsFiniteSet(s) /\ s # {}
  <2>1. IsFiniteSet(s)
    BY <1>3, FS_Subset
  <2>2. Summed(f, {}) = 0
    BY SummedFirst
  <2>3. Summed(f, s) \notin Nat
    BY <1>3
  <2>4. s # {}
    BY <2>2, <2>3
  <2>5. QED
    BY <2>1, <2>4
<1>5. Pick(s) \in s
  BY <1>4, Picked
<1>6. Summed(f, s \ {Pick(s)}) \in Nat /\ f[Pick(s)] \in Nat
  BY <1>3, <1>5
<1>7. Summed(f, s) \in Nat
  BY <1>4, <1>6, SummedFirst
<1>8. QED
  BY <1>7

\* The order does not matter.
LEMMA SummedAny ==
  ASSUME NEW f, NEW S, IsFiniteSet(S), \A x \in S : f[x] \in Nat, NEW x \in S
  PROVE  Summed(f, S) = f[x] + Summed(f, S \ {x})
<1> DEFINE Bad == {s \in SUBSET S : \E y \in s : Summed(f, s) # f[y] + Summed(f, s \ {y})}
<1>1. SUFFICES ASSUME Bad # {} PROVE FALSE
  OBVIOUS
<1>2. Bad \in SUBSET (SUBSET S)
  OBVIOUS
<1> HIDE DEF Bad
<1>3. PICK s \in Bad : \A u \in SUBSET s : u # s => u \notin Bad
  BY <1>2, <1>1, Least
<1> USE DEF Bad
<1>4. PICK y \in s : Summed(f, s) # f[y] + Summed(f, s \ {y})
  BY <1>3
<1> DEFINE p == Pick(s)
<1>5. IsFiniteSet(s) /\ p \in s
  BY <1>3, <1>4, FS_Subset, Picked
<1>6. Summed(f, s) = f[p] + Summed(f, s \ {p})
  BY <1>4, <1>5, SummedFirst
<1>7. p # y
  BY <1>4, <1>6
<1>8. s \ {p} \notin Bad /\ s \ {y} \notin Bad
  BY <1>3, <1>5
<1>9. Summed(f, s \ {p}) = f[y] + Summed(f, (s \ {p}) \ {y})
  BY <1>7, <1>8
<1>10. Summed(f, s \ {y}) = f[p] + Summed(f, (s \ {y}) \ {p})
  BY <1>5, <1>7, <1>8
<1>11. (s \ {p}) \ {y} = (s \ {y}) \ {p} /\ (s \ {p}) \ {y} \in SUBSET S
  OBVIOUS
<1>12. Summed(f, (s \ {p}) \ {y}) \in Nat
  <2>1. IsFiniteSet((s \ {p}) \ {y}) /\ \A z \in (s \ {p}) \ {y} : f[z] \in Nat
    BY <1>11, FS_Subset
  <2>2. QED
    BY <2>1, SummedType
<1>13. f[p] \in Nat /\ f[y] \in Nat
  BY <1>5
<1> HIDE DEF p, Bad
<1>14. Summed(f, s) = f[y] + Summed(f, s \ {y})
  BY <1>6, <1>9, <1>10, <1>11, <1>12, <1>13
<1>15. QED
  BY <1>4, <1>14

LEMMA SummedAlike ==
  ASSUME NEW f, NEW d, NEW S, IsFiniteSet(S), \A x \in S : f[x] = d[x]
  PROVE  Summed(f, S) = Summed(d, S)
<1>1. PICK g : Adds(g, f, S)
  BY AddsExists
<1>2. PICK h : Adds(h, d, S)
  BY AddsExists
<1>3. g[S] = h[S]
  BY <1>1, <1>2, AddsAlike
<1>4. QED
  BY <1>1, <1>2, <1>3, SummedByAny

\* What is no more, element by element, adds up to no more.
LEMMA SummedNoMore ==
  ASSUME NEW f, NEW S, IsFiniteSet(S), \A x \in S : f[x] \in Nat,
         NEW d, NEW T, IsFiniteSet(T), \A y \in T : d[y] \in Nat,
         NEW j \in [S -> T], \A x, y \in S : j[x] = j[y] => x = y,
         \A x \in S : f[x] <= d[j[x]]
  PROVE  Summed(f, S) <= Summed(d, T)
<1> DEFINE Bad == {s \in SUBSET S :
                     \E u \in SUBSET T : (\A x \in s : j[x] \in u) /\ ~(Summed(f, s) <= Summed(d, u))}
<1>1. SUFFICES ASSUME Bad # {} PROVE FALSE
  OBVIOUS
<1>2. Bad \in SUBSET (SUBSET S)
  OBVIOUS
<1> HIDE DEF Bad
<1>3. PICK s \in Bad : \A v \in SUBSET s : v # s => v \notin Bad
  BY <1>2, <1>1, Least
<1> USE DEF Bad
<1>4. PICK u \in SUBSET T : (\A x \in s : j[x] \in u) /\ ~(Summed(f, s) <= Summed(d, u))
  BY <1>3
<1>5. IsFiniteSet(s) /\ IsFiniteSet(u) /\ s \in SUBSET S
  BY <1>3, FS_Subset
<1>6. Summed(f, s) \in Nat /\ Summed(d, u) \in Nat
  BY <1>5, SummedType
<1>7. s # {}
  <2>1. Summed(f, {}) = 0
    BY SummedFirst
  <2>2. QED
    BY <1>4, <1>6, <2>1
<1>8. PICK x \in s : TRUE
  BY <1>7
<1> DEFINE v == s \ {x}
           w == u \ {j[x]}
<1>9. v \in SUBSET s /\ v # s /\ w \in SUBSET T /\ \A y \in v : j[y] \in w
  BY <1>4, <1>5
<1>10. Summed(f, v) <= Summed(d, w)
  BY <1>3, <1>9
<1>11. Summed(f, s) = f[x] + Summed(f, v)
  BY <1>5, SummedAny
<1>12. Summed(d, u) = d[j[x]] + Summed(d, w)
  BY <1>4, <1>5, SummedAny
<1>13. Summed(f, v) \in Nat /\ Summed(d, w) \in Nat
  <2>1. IsFiniteSet(v) /\ IsFiniteSet(w)
    BY <1>5, <1>9, FS_Subset
  <2>2. QED
    BY <1>5, <1>9, <2>1, SummedType
<1>14. f[x] \in Nat /\ d[j[x]] \in Nat /\ f[x] <= d[j[x]]
  BY <1>5
<1> HIDE DEF v, w, Bad
<1>15. Summed(f, s) <= Summed(d, u)
  BY <1>10, <1>11, <1>12, <1>13, <1>14
<1>16. QED
  BY <1>4, <1>15

-------------------------------------------------------------------------------
(* What an environment asks for, and what is in the books                   *)

\* The fold of the community modules, written out
Folded(F, E) ==
  (CHOOSE g : g = [s \in SUBSET E |->
     IF s = {} THEN 0 ELSE F[CHOOSE x \in s : TRUE].need + g[s \ {CHOOSE x \in s : TRUE}]])[E]

LEMMA FoldedIs ==
  ASSUME NEW f, NEW F, NEW E, IsFiniteSet(E), \A x \in E : f[x] = F[x].need
  PROVE  Folded(F, E) = Summed(f, E)
<1> DEFINE Q(g) == g = [s \in SUBSET E |->
            IF s = {} THEN 0 ELSE F[CHOOSE x \in s : TRUE].need + g[s \ {CHOOSE x \in s : TRUE}]]
<1>1. ASSUME NEW g PROVE Q(g) <=> Adds(g, f, E)
  <2>1. ASSUME NEW s \in SUBSET E, s # {} PROVE f[Pick(s)] = F[Pick(s)].need
    BY <2>1, Picked
  <2>2. [s \in SUBSET E |-> IF s = {} THEN 0 ELSE F[Pick(s)].need + g[s \ {Pick(s)}]]
        = [s \in SUBSET E |-> IF s = {} THEN 0 ELSE f[Pick(s)] + g[s \ {Pick(s)}]]
    BY <2>1
  <2>3. QED
    BY <2>2 DEF Adds, Pick
<1> HIDE DEF Q
<1>2. \E g : Q(g)
  BY <1>1, AddsExists
<1>3. Q(CHOOSE g : Q(g))
  BY <1>2
<1>4. (CHOOSE g : Q(g))[E] = Summed(f, E)
  BY <1>1, <1>3, SummedByAny
<1>5. QED
  BY <1>4 DEF Q, Folded

FoldedStatus(F, E) ==
  (CHOOSE g : g = [s \in SUBSET E |->
     IF s = {} THEN 0 ELSE F[CHOOSE x \in s : TRUE].status + g[s \ {CHOOSE x \in s : TRUE}]])[E]

LEMMA FoldedStatusIs ==
  ASSUME NEW f, NEW F, NEW E, IsFiniteSet(E), \A x \in E : f[x] = F[x].status
  PROVE  FoldedStatus(F, E) = Summed(f, E)
<1> DEFINE Q(g) == g = [s \in SUBSET E |->
            IF s = {} THEN 0 ELSE F[CHOOSE x \in s : TRUE].status + g[s \ {CHOOSE x \in s : TRUE}]]
<1>1. ASSUME NEW g PROVE Q(g) <=> Adds(g, f, E)
  <2>1. ASSUME NEW s \in SUBSET E, s # {} PROVE f[Pick(s)] = F[Pick(s)].status
    BY <2>1, Picked
  <2>2. [s \in SUBSET E |-> IF s = {} THEN 0 ELSE F[Pick(s)].status + g[s \ {Pick(s)}]]
        = [s \in SUBSET E |-> IF s = {} THEN 0 ELSE f[Pick(s)] + g[s \ {Pick(s)}]]
    BY <2>1
  <2>3. QED
    BY <2>2 DEF Adds, Pick
<1> HIDE DEF Q
<1>2. \E g : Q(g)
  BY <1>1, AddsExists
<1>3. Q(CHOOSE g : Q(g))
  BY <1>2
<1>4. (CHOOSE g : Q(g))[E] = Summed(f, E)
  BY <1>1, <1>3, SummedByAny
<1>5. QED
  BY <1>4 DEF Q, FoldedStatus

LEMMA EnvsOfFinite == ASSUME NEW t PROVE IsFiniteSet(EnvsOf(t)) /\ IsFiniteSet(EnvsOf(t)')
  BY TenantQuotaAssumption, FS_Subset DEF EnvsOf

LEMMA TotalIs ==
  ASSUME NEW t
  PROVE  /\ Total(t) = Summed([e \in Envs |-> env[e].need], EnvsOf(t))
         /\ Total(t)' = Summed([e \in Envs |-> env'[e].need], EnvsOf(t)')
<1>1. Total(t) = Folded(env, EnvsOf(t))
  BY DEF Total, MapThenSumSet, MapThenFoldSet, Folded
<1>2. Total(t)' = Folded(env', EnvsOf(t)')
  BY DEF Total, MapThenSumSet, MapThenFoldSet, Folded
<1>3. EnvsOf(t) \subseteq Envs /\ EnvsOf(t)' \subseteq Envs
  BY DEF EnvsOf
<1>4. Folded(env, EnvsOf(t)) = Summed([e \in Envs |-> env[e].need], EnvsOf(t))
  BY <1>3, EnvsOfFinite, FoldedIs
<1>5. Folded(env', EnvsOf(t)') = Summed([e \in Envs |-> env'[e].need], EnvsOf(t)')
  BY <1>3, EnvsOfFinite, FoldedIs
<1>6. QED
  BY <1>1, <1>2, <1>4, <1>5

\* The namespaces whose ResourceQuotas are t's, for the controller
BooksOf(t) == {n \in Spaces : rqSeen[n] # NoQuota /\ rqSeen[n].tenant = t}

LEMMA BooksOfFinite == ASSUME NEW t PROVE IsFiniteSet(BooksOf(t)) /\ IsFiniteSet(BooksOf(t)')
  BY TenantQuotaAssumption, FS_Subset DEF BooksOf

LEMMA SumIs ==
  ASSUME NEW t
  PROVE  /\ Sum(t) = Summed([n \in Spaces |-> rqSeen[n].status], BooksOf(t))
         /\ Sum(t)' = Summed([n \in Spaces |-> rqSeen'[n].status], BooksOf(t)')
<1>1. Sum(t) = FoldedStatus(rqSeen, BooksOf(t))
  BY DEF Sum, MapThenSumSet, MapThenFoldSet, FoldedStatus, BooksOf
<1>2. Sum(t)' = FoldedStatus(rqSeen', BooksOf(t)')
  BY DEF Sum, MapThenSumSet, MapThenFoldSet, FoldedStatus, BooksOf
<1>3. BooksOf(t) \subseteq Spaces /\ BooksOf(t)' \subseteq Spaces
  BY DEF BooksOf
<1>4. FoldedStatus(rqSeen, BooksOf(t)) = Summed([n \in Spaces |-> rqSeen[n].status], BooksOf(t))
  BY <1>3, BooksOfFinite, FoldedStatusIs
<1>5. FoldedStatus(rqSeen', BooksOf(t)') = Summed([n \in Spaces |-> rqSeen'[n].status], BooksOf(t)')
  BY <1>3, BooksOfFinite, FoldedStatusIs
<1>6. QED
  BY <1>1, <1>2, <1>4, <1>5

-------------------------------------------------------------------------------
(* Types                                                                    *)

TenType ==
    /\ ten \in [Tenants -> Tenant \cup {NoTenant}] /\ tenSeen \in [Tenants -> Tenant \cup {NoTenant}]
    /\ tenWork \in TenantWork \cup {Idle}
TrqType ==
    /\ trq \in [Tenants -> TenantResourceQuota \cup {NoQuota}]
    /\ trqSeen \in [Tenants -> TenantResourceQuota \cup {NoQuota}]
    /\ trqWork \in QuotaWork \cup {Idle}
EnvType ==
    /\ env \in [Envs -> Env \cup {NoEnv}]
    /\ rq \in [Spaces -> ResourceQuota \cup {NoQuota}]
    /\ rqSeen \in [Spaces -> ResourceQuota \cup {NoQuota}]
SetType ==
    /\ tenQueue \subseteq Tenants /\ trqQueue \subseteq Tenants /\ due \subseteq Envs
    /\ parted \subseteq Tenants /\ hasty \subseteq Tenants
    /\ untold \subseteq Tenants /\ lost \subseteq Envs
NumType == ops \in 0 .. MaxOps /\ faults \in 0 .. MaxFaults
Typed == Service /\ TenType /\ TrqType /\ EnvType /\ SetType /\ NumType

LEMMA TypedIs == Typed <=> TypeOK
  BY DEF Typed, Service, TenType, TrqType, EnvType, SetType, NumType, TypeOK

LEMMA TenantObjects ==
  /\ NoTenant.uid = 0 /\ \A x \in Tenant : x # NoTenant
  /\ \A x \in Tenant : /\ x.uid \in Nat \ {0} /\ x.fin \in BOOLEAN /\ x.deleting \in BOOLEAN
                       /\ \A b \in BOOLEAN : [x EXCEPT !.fin = b] \in Tenant
                       /\ \A b \in BOOLEAN : [x EXCEPT !.deleting = b] \in Tenant
<1>1. NoTenant.uid = 0
  BY DEF NoTenant
<1>2. \A x \in Tenant : /\ x.uid \in Nat \ {0} /\ x.fin \in BOOLEAN /\ x.deleting \in BOOLEAN
                        /\ \A b \in BOOLEAN : [x EXCEPT !.fin = b] \in Tenant
                        /\ \A b \in BOOLEAN : [x EXCEPT !.deleting = b] \in Tenant
  BY DEF Tenant
<1>3. \A x \in Tenant : x # NoTenant
  BY <1>1, <1>2
<1>4. QED
  BY <1>1, <1>2, <1>3

LEMMA QuotaObjects ==
  /\ NoQuota.is = "none" /\ \A x \in TenantResourceQuota : x # NoQuota
  /\ \A x \in TenantResourceQuota :
       /\ x.owner \in Nat /\ x.hard \in Amounts \cup {0} /\ x.alloc \in Nat
       /\ \A c \in Amounts \cup {0} : [x EXCEPT !.hard = c] \in TenantResourceQuota
       /\ \A n \in Nat : [x EXCEPT !.owner = n] \in TenantResourceQuota
       /\ \A n \in Nat : [x EXCEPT !.alloc = n] \in TenantResourceQuota
<1>1. NoQuota.is = "none"
  BY DEF NoQuota
<1>2. \A x \in TenantResourceQuota : x.is = "there"
  BY DEF TenantResourceQuota
<1>3. \A x \in TenantResourceQuota :
        /\ x.owner \in Nat /\ x.hard \in Amounts \cup {0} /\ x.alloc \in Nat
        /\ \A c \in Amounts \cup {0} : [x EXCEPT !.hard = c] \in TenantResourceQuota
        /\ \A n \in Nat : [x EXCEPT !.owner = n] \in TenantResourceQuota
        /\ \A n \in Nat : [x EXCEPT !.alloc = n] \in TenantResourceQuota
  BY DEF TenantResourceQuota
<1>4. \A x \in TenantResourceQuota : x # NoQuota
  BY <1>1, <1>2
<1>5. QED
  BY <1>1, <1>3, <1>4

LEMMA EnvObjects ==
  /\ NoEnv.id = 0 /\ \A x \in Env : x # NoEnv
  /\ \A x \in Env : /\ x.id \in Nat \ {0} /\ x.need \in Amounts /\ x.label \in BOOLEAN
                    /\ \A c \in Amounts : [x EXCEPT !.need = c] \in Env
                    /\ \A b \in BOOLEAN : [x EXCEPT !.label = b] \in Env
<1>1. NoEnv.id = 0
  BY DEF NoEnv
<1>2. \A x \in Env : /\ x.id \in Nat \ {0} /\ x.need \in Amounts /\ x.label \in BOOLEAN
                     /\ \A c \in Amounts : [x EXCEPT !.need = c] \in Env
                     /\ \A b \in BOOLEAN : [x EXCEPT !.label = b] \in Env
  BY DEF Env
<1>3. \A x \in Env : x # NoEnv
  BY <1>1, <1>2
<1>4. QED
  BY <1>1, <1>2, <1>3

LEMMA RqObjects ==
  /\ \A x \in ResourceQuota : x # NoQuota
  /\ \A x \in ResourceQuota :
       /\ x.tenant \in Tenants /\ x.owner \in Envs /\ x.id \in Nat \ {0}
       /\ x.hard \in Amounts /\ x.status \in Amounts \cup {0}
       /\ \A c \in Amounts \cup {0} : [x EXCEPT !.status = c] \in ResourceQuota
<1>1. NoQuota.is = "none"
  BY DEF NoQuota
<1>2. \A x \in ResourceQuota : x.is = "there"
  BY DEF ResourceQuota
<1>3. \A x \in ResourceQuota :
        /\ x.tenant \in Tenants /\ x.owner \in Envs /\ x.id \in Nat \ {0}
        /\ x.hard \in Amounts /\ x.status \in Amounts \cup {0}
        /\ \A c \in Amounts \cup {0} : [x EXCEPT !.status = c] \in ResourceQuota
  BY DEF ResourceQuota
<1>4. \A x \in ResourceQuota : x # NoQuota
  BY <1>1, <1>2
<1>5. QED
  BY <1>3, <1>4

\* What a controller has in hand
LEMMA TenantInHand ==
  ASSUME TenType, tenWork.pc \in {"quota", "hold", "clear", "unhold"}
  PROVE  /\ tenWork.t \in Tenants /\ tenWork.copy \in Tenant
         /\ \A c \in {"quota", "hold", "clear", "unhold"} : [tenWork EXCEPT !.pc = c] \in TenantWork
<1>1. Idle.pc = "idle"
  BY DEF Idle
<1>2. tenWork \in TenantWork
  BY <1>1 DEF TenType
<1>3. QED
  BY <1>2 DEF TenantWork

LEMMA QuotaInHand ==
  ASSUME TrqType, trqWork # Idle
  PROVE  /\ trqWork.pc = "write" /\ trqWork.t \in Tenants
         /\ trqWork.copy \in TenantResourceQuota /\ trqWork.sum \in Nat
  BY DEF TrqType, QuotaWork

LEMMA InitTyped == Init => Typed
<1> SUFFICES ASSUME Init PROVE Typed
  OBVIOUS
<1>1. Service
  BY InitInv DEF Inv
<1>2. TenType
  BY DEF Init, TenType, Tenant
<1>3. TrqType
  <2>1. \A t \in Tenants : [is |-> "there", owner |-> 1, hard |-> Initial[t], alloc |-> 0]
                            \in TenantResourceQuota
    BY TenantQuotaAssumption DEF TenantResourceQuota
  <2>2. QED
    BY <2>1 DEF Init, TrqType
<1>4. EnvType /\ SetType /\ NumType
  BY TenantQuotaAssumption DEF Init, EnvType, SetType, NumType
<1>5. QED
  BY <1>1, <1>2, <1>3, <1>4 DEF Typed

LEMMA BornType ==
  ASSUME TenType, TrqType, NEW t \in Tenants
  PROVE  Born(t) \in Tenant
<1> DEFINE a == tenSeen[t].uid
           b == IF trq[t] = NoQuota THEN 0 ELSE trq[t].owner
           c == IF tenWork = Idle THEN 0 ELSE tenWork.copy.uid
<1>1. a \in Nat
  BY TenantObjects DEF TenType
<1>2. b \in Nat
  BY QuotaObjects DEF TrqType
<1>3. c \in Nat
  BY TenantObjects DEF TenType, TenantWork
<1> HIDE DEF a, b, c
<1>4. \E x \in {a, b, c} : \A y \in {a, b, c} : x >= y
  BY <1>1, <1>2, <1>3
<1>5. Max({a, b, c}) \in {a, b, c}
  BY <1>4 DEF Max
<1>6. Max({a, b, c}) \in Nat
  BY <1>1, <1>2, <1>3, <1>5
<1>7. [uid |-> 1 + Max({a, b, c}), fin |-> FALSE, deleting |-> FALSE] \in Tenant
  BY <1>6 DEF Tenant
<1>8. QED
  BY <1>7 DEF Born, a, b, c

LEMMA SumType == ASSUME EnvType, NEW t PROVE Sum(t) \in Nat
<1>1. \A n \in BooksOf(t) : [m \in Spaces |-> rqSeen[m].status][n] \in Nat
  BY RqObjects, TenantQuotaAssumption DEF EnvType, BooksOf
<1>2. QED
  BY <1>1, BooksOfFinite, SumIs, SummedType

\* The request whose step it is
LEMMA Asking ==
  ASSUME Service, NEW r \in Requests, req[r].pc \in {"checked", "saved", "tenant", "applied"}
  PROVE  req[r].t \in Tenants /\ req[r].c \in Amounts /\ req[r].op \in Kinds
  BY DEF Service, Begun, Ready

\* Who writes tenants, and what the controller of tenants has in hand
LEMMA TenFrame ==
  ASSUME Next
  PROVE  \/ UNCHANGED <<ten, tenSeen, tenWork>>
         \/ \E r \in Requests, lands, ok \in BOOLEAN :
               CreateOrUpdateTenant(r, lands, ok) \/ DeleteTenant(r, lands, ok)
         \/ \E t \in Tenants : WatchTenant(t)
         \/ WorkTenants \/ Restart
<1>1. ASSUME NEW r \in Requests, Ask(r) PROVE UNCHANGED <<ten, tenSeen, tenWork>>
  BY <1>1 DEF Ask, Begin, PostTenantTenantResourceQuota, PutTenantTenantResourceQuota, Pass,
              CreateTenantResourceQuotaApply, DeleteTenantResourceQuota, cluster, seen, work
<1>2. ASSUME NEW r \in Requests, Serve(r)
      PROVE  \/ UNCHANGED <<ten, tenSeen, tenWork>>
             \/ \E lands, ok \in BOOLEAN :
                   CreateOrUpdateTenant(r, lands, ok) \/ DeleteTenant(r, lands, ok)
  BY <1>2 DEF Serve, Save, CreateOrUpdateTenantResourceQuota, Commit, cluster, seen, work
<1>3. ASSUME NEW e \in Envs, Edit(e) PROVE UNCHANGED <<ten, tenSeen, tenWork>>
  BY <1>3 DEF Edit, CreateEnvironment, UpdateEnvironment, DeleteEnvironment, seen, work
<1>4. ASSUME Watch PROVE UNCHANGED <<ten, tenSeen, tenWork>> \/ \E t \in Tenants : WatchTenant(t)
  BY <1>4 DEF Watch, WatchTenantResourceQuota, WatchResourceQuota, cluster, work
<1>5. ASSUME WorkQuotas \/ Collect PROVE UNCHANGED <<ten, tenSeen, tenWork>>
  BY <1>5 DEF WorkQuotas, ReconcileTenantResourceQuota, UpdateStatus, Collect,
              CollectTenantResourceQuota, CollectResourceQuota, cluster, seen, work
<1>6. ASSUME NEW e \in Envs, NEW ok \in BOOLEAN, NEW labels \in BOOLEAN, Limit(e, ok, labels) PROVE UNCHANGED <<ten, tenSeen, tenWork>>
  BY <1>6 DEF Limit, seen, work
<1>7. ASSUME NEW n \in Spaces, Enforce(n) PROVE UNCHANGED <<ten, tenSeen, tenWork>>
  BY <1>7 DEF Enforce, seen, work
<1>8. QED
  BY <1>1, <1>2, <1>3, <1>4, <1>5, <1>6, <1>7 DEF Next, Work

LEMMA TenStep ==
  ASSUME Typed, Next
  PROVE  TenType'
<1> USE DEF Typed
<1>1. ASSUME UNCHANGED <<ten, tenSeen, tenWork>> PROVE TenType'
  BY <1>1 DEF TenType
<1>2. ASSUME UNCHANGED <<tenSeen, tenWork>>, NEW t \in Tenants, NEW x \in Tenant \cup {NoTenant},
             ten' = ten \/ ten' = [ten EXCEPT ![t] = x]
      PROVE  TenType'
  BY <1>2 DEF TenType
<1>3. ASSUME NEW r \in Requests, NEW lands \in BOOLEAN, NEW ok \in BOOLEAN,
             CreateOrUpdateTenant(r, lands, ok)
      PROVE  TenType'
  <2>1. req[r].t \in Tenants
    BY <1>3, Asking DEF CreateOrUpdateTenant
  <2>2. Born(req[r].t) \in Tenant
    BY <2>1, BornType
  <2>3. /\ UNCHANGED <<tenSeen, tenWork>>
        /\ ten' = ten \/ ten' = [ten EXCEPT ![req[r].t] = Born(req[r].t)]
    BY <1>3 DEF CreateOrUpdateTenant, seen, work
  <2>4. QED
    BY <1>2, <2>1, <2>2, <2>3
<1>4. ASSUME NEW r \in Requests, NEW lands \in BOOLEAN, NEW ok \in BOOLEAN, DeleteTenant(r, lands, ok)
      PROVE  TenType'
  <2> DEFINE t == req[r].t
             x == IF ten[t].fin THEN [ten[t] EXCEPT !.deleting = TRUE] ELSE NoTenant
  <2>1. t \in Tenants
    BY <1>4, Asking DEF DeleteTenant
  <2>2. UNCHANGED <<tenSeen, tenWork>>
    BY <1>4 DEF DeleteTenant, seen, work
  <2>3. ten' = ten \/ (ten[t] # NoTenant /\ ten' = [ten EXCEPT ![t] = x])
    BY <1>4 DEF DeleteTenant
  <2>4. ten[t] # NoTenant => x \in Tenant \cup {NoTenant}
    BY <2>1, TenantObjects DEF TenType
  <2> HIDE DEF x, t
  <2>5. QED
    BY <1>2, <2>1, <2>2, <2>3, <2>4
<1>5. ASSUME NEW t \in Tenants, WatchTenant(t) PROVE TenType'
  BY <1>5 DEF WatchTenant, TenType, cluster, work
<1>6. CASE Restart
  BY <1>6 DEF Restart, TenType, cluster
<1>7. ASSUME NEW t \in Tenants, ReconcileTenant(t) PROVE TenType'
  <2>1. tenSeen[t] # NoTenant => tenSeen[t] \in Tenant
    BY DEF TenType
  <2>2. tenWork' \in TenantWork \cup {Idle}
    BY <1>7, <2>1 DEF ReconcileTenant, TenantWork
  <2>3. QED
    BY <1>7, <2>2 DEF ReconcileTenant, TenType, cluster, seen
<1>8. ASSUME NEW ok \in BOOLEAN, HandleTenantResourceQuota(ok) \/ DeleteAllOf(ok) PROVE TenType'
  <2>1. tenWork' \in TenantWork
    BY <1>8, TenantInHand DEF HandleTenantResourceQuota, DeleteAllOf
  <2>2. QED
    BY <1>8, <2>1 DEF HandleTenantResourceQuota, DeleteAllOf, TenType, seen
<1>9. ASSUME NEW ok \in BOOLEAN, AddFinalizers(ok) PROVE TenType'
  <2>1. tenWork.t \in Tenants /\ tenWork.copy \in Tenant
    BY <1>9, TenantInHand DEF AddFinalizers
  <2>2. \/ ten' = ten
        \/ ten[tenWork.t] = tenWork.copy /\ ten' = [ten EXCEPT ![tenWork.t] = [ten[tenWork.t] EXCEPT !.fin = TRUE]]
    BY <1>9 DEF AddFinalizers
  <2>3. tenWork' = Idle /\ UNCHANGED tenSeen
    BY <1>9 DEF AddFinalizers, seen
  <2>4. [tenWork.copy EXCEPT !.fin = TRUE] \in Tenant
    BY <2>1, TenantObjects
  <2>5. ten' \in [Tenants -> Tenant \cup {NoTenant}]
    BY <2>1, <2>2, <2>4 DEF TenType
  <2>6. QED
    BY <2>3, <2>5 DEF TenType
<1>10. ASSUME NEW ok \in BOOLEAN, RemoveFinalizers(ok) PROVE TenType'
  <2>1. tenWork.t \in Tenants
    BY <1>10, TenantInHand DEF RemoveFinalizers
  <2>2. QED
    BY <1>10, <2>1 DEF RemoveFinalizers, TenType, seen
<1>11. QED
  BY <1>1, <1>3, <1>4, <1>5, <1>6, <1>7, <1>8, <1>9, <1>10, TenFrame DEF WorkTenants

\* Who writes tenant quotas, and what their controller has in hand
LEMMA TrqFrame ==
  ASSUME Next
  PROVE  \/ UNCHANGED <<trq, trqSeen, trqWork, rqSeen, trqQueue, untold>>
         \/ \E r \in Requests, lands, ok \in BOOLEAN : CreateOrUpdateTenantResourceQuota(r, lands, ok)
         \/ \E t \in Tenants : WatchTenantResourceQuota(t) \/ CollectTenantResourceQuota(t)
         \/ \E n \in Spaces : WatchResourceQuota(n)
         \/ \E ok \in BOOLEAN : HandleTenantResourceQuota(ok)
         \/ WorkQuotas \/ Restart
<1>1. ASSUME NEW r \in Requests, Ask(r) PROVE UNCHANGED <<trq, trqSeen, trqWork, rqSeen, trqQueue, untold>>
  BY <1>1 DEF Ask, Begin, PostTenantTenantResourceQuota, PutTenantTenantResourceQuota, Pass,
              CreateTenantResourceQuotaApply, DeleteTenantResourceQuota, cluster, seen, queues, work, history
<1>2. ASSUME NEW r \in Requests, Serve(r)
      PROVE  \/ UNCHANGED <<trq, trqSeen, trqWork, rqSeen, trqQueue, untold>>
             \/ \E lands, ok \in BOOLEAN : CreateOrUpdateTenantResourceQuota(r, lands, ok)
  BY <1>2 DEF Serve, Save, CreateOrUpdateTenant, DeleteTenant, Commit, cluster, seen, queues, work, history
<1>3. ASSUME NEW e \in Envs, Edit(e) PROVE UNCHANGED <<trq, trqSeen, trqWork, rqSeen, trqQueue, untold>>
  BY <1>3 DEF Edit, CreateEnvironment, UpdateEnvironment, DeleteEnvironment, seen, work, history
<1>4. ASSUME Watch
      PROVE  \/ UNCHANGED <<trq, trqSeen, trqWork, rqSeen, trqQueue, untold>>
             \/ \E t \in Tenants : WatchTenantResourceQuota(t)
             \/ \E n \in Spaces : WatchResourceQuota(n)
  BY <1>4 DEF Watch, WatchTenant, cluster, work, history
<1>5. ASSUME WorkTenants
      PROVE  \/ UNCHANGED <<trq, trqSeen, trqWork, rqSeen, trqQueue, untold>>
             \/ \E ok \in BOOLEAN : HandleTenantResourceQuota(ok)
  BY <1>5 DEF WorkTenants, ReconcileTenant, AddFinalizers, DeleteAllOf, RemoveFinalizers, cluster, seen,
              queues, history
<1>6. ASSUME NEW e \in Envs, NEW ok \in BOOLEAN, NEW labels \in BOOLEAN, Limit(e, ok, labels)
      PROVE  UNCHANGED <<trq, trqSeen, trqWork, rqSeen, trqQueue, untold>>
  BY <1>6 DEF Limit, seen, work
<1>7. ASSUME NEW n \in Spaces, Enforce(n) \/ CollectResourceQuota(n)
      PROVE  UNCHANGED <<trq, trqSeen, trqWork, rqSeen, trqQueue, untold>>
  BY <1>7 DEF Enforce, CollectResourceQuota, seen, queues, work, history
<1>8. QED
  BY <1>1, <1>2, <1>3, <1>4, <1>5, <1>6, <1>7 DEF Next, Work, Collect

LEMMA TrqStep ==
  ASSUME Typed, Next
  PROVE  TrqType'
<1> USE DEF Typed
<1>1. ASSUME UNCHANGED <<trq, trqSeen, trqWork>> PROVE TrqType'
  BY <1>1 DEF TrqType
<1>2. ASSUME UNCHANGED <<trqSeen, trqWork>>, NEW t \in Tenants,
             NEW x \in TenantResourceQuota \cup {NoQuota}, trq' = trq \/ trq' = [trq EXCEPT ![t] = x]
      PROVE  TrqType'
  BY <1>2 DEF TrqType
<1>3. ASSUME NEW r \in Requests, NEW lands \in BOOLEAN, NEW ok \in BOOLEAN,
             CreateOrUpdateTenantResourceQuota(r, lands, ok)
      PROVE  TrqType'
  <2> DEFINE t == req[r].t
             c == req[r].c
             new == [is |-> "there", owner |-> 0, hard |-> c, alloc |-> 0]
  <2>1. t \in Tenants /\ c \in Amounts
    BY <1>3, Asking DEF CreateOrUpdateTenantResourceQuota
  <2>2. UNCHANGED <<trqSeen, trqWork>>
    BY <1>3 DEF CreateOrUpdateTenantResourceQuota, seen, work
  <2>3. new \in TenantResourceQuota
    BY <2>1 DEF TenantResourceQuota
  <2>4. trq[t] # NoQuota => [trq[t] EXCEPT !.hard = c] \in TenantResourceQuota
    BY <2>1, QuotaObjects DEF TrqType
  <2>5. \/ trq' = trq \/ trq' = [trq EXCEPT ![t] = new]
        \/ trq[t] # NoQuota /\ trq' = [trq EXCEPT ![t] = [trq[t] EXCEPT !.hard = c]]
    BY <1>3 DEF CreateOrUpdateTenantResourceQuota
  <2> HIDE DEF new, t, c
  <2>6. QED
    BY <1>2, <2>1, <2>2, <2>3, <2>4, <2>5
<1>4. ASSUME NEW t \in Tenants, WatchTenantResourceQuota(t) PROVE TrqType'
  BY <1>4 DEF WatchTenantResourceQuota, TrqType, cluster, work
<1>5. ASSUME NEW t \in Tenants, CollectTenantResourceQuota(t) PROVE TrqType'
  BY <1>5 DEF CollectTenantResourceQuota, TrqType, seen, work
<1>6. ASSUME NEW ok \in BOOLEAN, HandleTenantResourceQuota(ok) PROVE TrqType'
  <2> DEFINE t == tenWork.t
             new == [is |-> "there", owner |-> tenWork.copy.uid, hard |-> 0, alloc |-> 0]
             owned == [trqSeen[t] EXCEPT !.owner = tenWork.copy.uid]
  <2>1. t \in Tenants /\ tenWork.copy.uid \in Nat
    BY <1>6, TenantInHand, TenantObjects DEF HandleTenantResourceQuota
  <2>2. UNCHANGED <<trqSeen, trqWork>>
    BY <1>6 DEF HandleTenantResourceQuota, seen
  <2>3. new \in TenantResourceQuota
    BY <2>1 DEF TenantResourceQuota
  <2>4. trqSeen[t] # NoQuota => owned \in TenantResourceQuota
    BY <2>1, QuotaObjects DEF TrqType
  <2>5. \/ trq' = trq \/ trq' = [trq EXCEPT ![t] = new]
        \/ trqSeen[t] # NoQuota /\ trq' = [trq EXCEPT ![t] = owned]
    BY <1>6 DEF HandleTenantResourceQuota
  <2> HIDE DEF new, owned, t
  <2>6. QED
    BY <1>2, <2>1, <2>2, <2>3, <2>4, <2>5
<1>7. ASSUME NEW t \in Tenants, ReconcileTenantResourceQuota(t) PROVE TrqType'
  <2>1. trqSeen[t] # NoQuota => trqSeen[t] \in TenantResourceQuota
    BY DEF TrqType
  <2>2. Sum(t) \in Nat
    BY SumType
  <2>3. trqWork' \in QuotaWork \cup {Idle}
    BY <1>7, <2>1, <2>2 DEF ReconcileTenantResourceQuota, QuotaWork
  <2>4. QED
    BY <1>7, <2>3 DEF ReconcileTenantResourceQuota, TrqType, cluster, seen
<1>8. ASSUME NEW ok \in BOOLEAN, UpdateStatus(ok) PROVE TrqType'
  <2> DEFINE t == trqWork.t
  <2>1. t \in Tenants /\ trqWork.copy \in TenantResourceQuota /\ trqWork.sum \in Nat
    BY <1>8, QuotaInHand DEF UpdateStatus, Idle
  <2>2. \/ trq' = trq
        \/ trq[t] = trqWork.copy /\ trq' = [trq EXCEPT ![t] = [trq[t] EXCEPT !.alloc = trqWork.sum]]
    BY <1>8 DEF UpdateStatus
  <2>3. trq' \in [Tenants -> TenantResourceQuota \cup {NoQuota}]
    BY <2>1, <2>2, QuotaObjects DEF TrqType
  <2>4. trqWork' = Idle /\ UNCHANGED trqSeen
    BY <1>8 DEF UpdateStatus, seen
  <2>5. QED
    BY <2>3, <2>4 DEF TrqType
<1>9. CASE Restart
  BY <1>9 DEF Restart, TrqType, cluster
<1>10. ASSUME NEW n \in Spaces, WatchResourceQuota(n) PROVE TrqType'
  BY <1>10 DEF WatchResourceQuota, TrqType, cluster, work
<1>11. QED
  BY <1>1, <1>3, <1>4, <1>5, <1>6, <1>7, <1>8, <1>9, <1>10, TrqFrame DEF WorkQuotas

\* Who writes environments and their quotas
LEMMA EnvFrame ==
  ASSUME Next
  PROVE  \/ UNCHANGED <<env, rq, rqSeen, due, lost>>
         \/ \E e \in Envs, need \in Amounts : CreateEnvironment(e, need) \/ UpdateEnvironment(e, need)
         \/ \E e \in Envs : DeleteEnvironment(e)
         \/ \E e \in Envs, ok, labels \in BOOLEAN : Limit(e, ok, labels)
         \/ \E n \in Spaces : Enforce(n) \/ WatchResourceQuota(n) \/ CollectResourceQuota(n)
         \/ \E ok \in BOOLEAN : DeleteAllOf(ok)
         \/ Restart
<1>1. ASSUME NEW r \in Requests, Ask(r) PROVE UNCHANGED <<env, rq, rqSeen, due, lost>>
  BY <1>1 DEF Ask, Begin, PostTenantTenantResourceQuota, PutTenantTenantResourceQuota, Pass,
              CreateTenantResourceQuotaApply, DeleteTenantResourceQuota, cluster, seen, queues, history
<1>2. ASSUME NEW r \in Requests, Serve(r) PROVE UNCHANGED <<env, rq, rqSeen, due, lost>>
  BY <1>2 DEF Serve, Save, CreateOrUpdateTenant, DeleteTenant, Commit,
              CreateOrUpdateTenantResourceQuota, cluster, seen, queues, history
<1>3. ASSUME NEW t \in Tenants, WatchTenant(t) \/ WatchTenantResourceQuota(t)
      PROVE  UNCHANGED <<env, rq, rqSeen, due, lost>>
  BY <1>3 DEF WatchTenant, WatchTenantResourceQuota, cluster, history
<1>4. ASSUME WorkTenants
      PROVE  UNCHANGED <<env, rq, rqSeen, due, lost>> \/ \E ok \in BOOLEAN : DeleteAllOf(ok)
  BY <1>4 DEF WorkTenants, ReconcileTenant, AddFinalizers, HandleTenantResourceQuota,
              RemoveFinalizers, cluster, seen, queues, history
<1>5. ASSUME WorkQuotas PROVE UNCHANGED <<env, rq, rqSeen, due, lost>>
  BY <1>5 DEF WorkQuotas, ReconcileTenantResourceQuota, UpdateStatus, cluster, seen, queues, history
<1>6. ASSUME NEW t \in Tenants, CollectTenantResourceQuota(t) PROVE UNCHANGED <<env, rq, rqSeen, due, lost>>
  BY <1>6 DEF CollectTenantResourceQuota, seen, queues
<1>7. QED
  BY <1>1, <1>2, <1>3, <1>4, <1>5, <1>6 DEF Next, Work, Collect, Edit, Watch

LEMMA EnvStep ==
  ASSUME Typed, Next
  PROVE  EnvType'
<1> USE DEF Typed
<1>1. ASSUME UNCHANGED <<env, rq, rqSeen>> PROVE EnvType'
  BY <1>1 DEF EnvType
<1>2. ASSUME NEW e \in Envs, NEW need \in Amounts, CreateEnvironment(e, need) PROVE EnvType'
  <2>1. [id |-> ops + 1, need |-> need, label |-> FALSE] \in Env
    BY TenantQuotaAssumption DEF NumType, Env
  <2>2. env' = [env EXCEPT ![e] = [id |-> ops + 1, need |-> need, label |-> FALSE]]
        /\ UNCHANGED <<rq, rqSeen>>
    BY <1>2 DEF CreateEnvironment, seen
  <2>3. QED
    BY <2>1, <2>2 DEF EnvType
<1>3. ASSUME NEW e \in Envs, NEW need \in Amounts, UpdateEnvironment(e, need) PROVE EnvType'
  <2>1. env[e] # NoEnv /\ env' = [env EXCEPT ![e] = [env[e] EXCEPT !.need = need]]
        /\ UNCHANGED <<rq, rqSeen>>
    BY <1>3 DEF UpdateEnvironment, seen
  <2>2. [env[e] EXCEPT !.need = need] \in Env
    BY <2>1, EnvObjects DEF EnvType
  <2>3. QED
    BY <2>1, <2>2 DEF EnvType
<1>4. ASSUME NEW e \in Envs, DeleteEnvironment(e) PROVE EnvType'
  BY <1>4 DEF DeleteEnvironment, EnvType, seen
<1>5. ASSUME NEW e \in Envs, NEW ok \in BOOLEAN, NEW labels \in BOOLEAN, Limit(e, ok, labels) PROVE EnvType'
  <2>1. UNCHANGED rqSeen
    BY <1>5 DEF Limit, seen
  <2>2. CASE env[e] = NoEnv
    BY <1>1, <1>5, <2>1, <2>2 DEF Limit
  <2>3. CASE env[e] # NoEnv
    <3> DEFINE n == SpaceOf[e]
               owner == IF rq[n] = NoQuota \/ rq[n].owner = e THEN <<e, env[e].id>>
                        ELSE <<rq[n].owner, rq[n].id>>
               status == IF rq[n] = NoQuota THEN 0 ELSE rq[n].status
               x == [is |-> "there", tenant |-> TenantOf[e], owner |-> owner[1], id |-> owner[2],
                     hard |-> env[e].need, status |-> status]
    <3>1. n \in Spaces /\ TenantOf[e] \in Tenants
      BY TenantQuotaAssumption
    <3>2. env[e] \in Env
      BY <2>3 DEF EnvType
    <3>3. rq[n] # NoQuota => rq[n] \in ResourceQuota
      BY <3>1 DEF EnvType
    <3>4. owner[1] \in Envs /\ owner[2] \in Nat \ {0} /\ status \in Amounts \cup {0}
      BY <3>2, <3>3, EnvObjects, RqObjects
    <3>5. rq' = rq \/ rq' = [rq EXCEPT ![n] = x]
      BY <1>5, <2>3 DEF Limit
    <3>6. env' = [env EXCEPT ![e] = [env[e] EXCEPT !.label = labels]]
      BY <1>5, <2>3 DEF Limit
    <3> HIDE DEF owner, status
    <3>7. x \in ResourceQuota
      BY <3>1, <3>2, <3>4, EnvObjects DEF ResourceQuota
    <3>8. [env[e] EXCEPT !.label = labels] \in Env
      BY <3>2, EnvObjects
    <3> HIDE DEF n, x
    <3>9. QED
      BY <2>1, <3>1, <3>5, <3>6, <3>7, <3>8 DEF EnvType
  <2>4. QED
    BY <2>2, <2>3
<1>6. ASSUME NEW n \in Spaces, Enforce(n) PROVE EnvType'
  <2>1. rq[n] # NoQuota /\ rq' = [rq EXCEPT ![n] = [rq[n] EXCEPT !.status = rq[n].hard]]
        /\ UNCHANGED <<env, rqSeen>>
    BY <1>6 DEF Enforce, seen
  <2>2. [rq[n] EXCEPT !.status = rq[n].hard] \in ResourceQuota
    BY <2>1, RqObjects DEF EnvType
  <2>3. QED
    BY <2>1, <2>2 DEF EnvType
<1>7. ASSUME NEW n \in Spaces, WatchResourceQuota(n) PROVE EnvType'
  BY <1>7 DEF WatchResourceQuota, EnvType, cluster
<1>8. ASSUME NEW n \in Spaces, CollectResourceQuota(n) PROVE EnvType'
  BY <1>8 DEF CollectResourceQuota, EnvType, seen
<1>9. ASSUME NEW ok \in BOOLEAN, DeleteAllOf(ok) PROVE EnvType'
  BY <1>9 DEF DeleteAllOf, EnvType, seen
<1>10. CASE Restart
  BY <1>10 DEF Restart, EnvType, cluster
<1>11. QED
  BY <1>1, <1>2, <1>3, <1>4, <1>5, <1>6, <1>7, <1>8, <1>9, <1>10, EnvFrame

LEMMA Marked ==
  ASSUME NEW set, set \subseteq Tenants, NEW t \in Tenants, NEW p
  PROVE  Mark(set, t, p) \subseteq Tenants
  BY DEF Mark

LEMMA SetStep ==
  ASSUME Typed, Next
  PROVE  SetType'
<1> USE DEF Typed, SetType
<1>1. ASSUME NEW r \in Requests, Ask(r) PROVE SetType'
  BY <1>1 DEF Ask, Begin, PostTenantTenantResourceQuota, PutTenantTenantResourceQuota, Pass,
              CreateTenantResourceQuotaApply, DeleteTenantResourceQuota, queues, history
<1>2. ASSUME NEW r \in Requests, Serve(r) PROVE SetType'
  <2>1. CASE Save(r)
    <3>1. req[r].t \in Tenants
      BY <2>1, Asking DEF Save
    <3>2. QED
      BY <2>1, <3>1, Marked DEF Save, queues
  <2>2. ASSUME NEW lands \in BOOLEAN, NEW ok \in BOOLEAN,
               CreateOrUpdateTenant(r, lands, ok) \/ DeleteTenant(r, lands, ok)
        PROVE  SetType'
    <3>1. req[r].t \in Tenants
      BY <2>2, Asking DEF CreateOrUpdateTenant, DeleteTenant
    <3>2. QED
      BY <2>2, <3>1, Marked DEF CreateOrUpdateTenant, DeleteTenant, queues
  <2>3. ASSUME NEW lands \in BOOLEAN, NEW ok \in BOOLEAN,
               CreateOrUpdateTenantResourceQuota(r, lands, ok)
        PROVE  SetType'
    <3>1. req[r].t \in Tenants
      BY <2>3, Asking DEF CreateOrUpdateTenantResourceQuota
    <3>2. parted' \subseteq Tenants /\ hasty' \subseteq Tenants
      BY <2>3, <3>1, Marked DEF CreateOrUpdateTenantResourceQuota
    <3>3. QED
      BY <2>3, <3>2 DEF CreateOrUpdateTenantResourceQuota, queues
  <2>4. ASSUME NEW ok \in BOOLEAN, Commit(r, ok) PROVE SetType'
    <3>1. req[r].t \in Tenants
      BY <2>4, Asking DEF Commit
    <3>2. QED
      BY <2>4, <3>1, Marked DEF Commit, queues
  <2>5. QED
    BY <1>2, <2>1, <2>2, <2>3, <2>4 DEF Serve
<1>3. ASSUME NEW e \in Envs, Edit(e) PROVE SetType'
  <2>1. TenantOf[e] \in Tenants
    BY TenantQuotaAssumption
  <2>2. ASSUME NEW need \in Amounts, CreateEnvironment(e, need) PROVE SetType'
    <3>1. hasty' \subseteq Tenants
      BY <2>1, <2>2, Marked DEF CreateEnvironment
    <3>2. QED
      BY <2>1, <2>2, <3>1 DEF CreateEnvironment
  <2>3. ASSUME NEW need \in Amounts, UpdateEnvironment(e, need) PROVE SetType'
    <3>1. hasty' \subseteq Tenants
      BY <2>1, <2>3, Marked DEF UpdateEnvironment
    <3>2. QED
      BY <2>3, <3>1 DEF UpdateEnvironment
  <2>4. CASE DeleteEnvironment(e)
    BY <2>1, <2>4 DEF DeleteEnvironment, history
  <2>5. QED
    BY <1>3, <2>2, <2>3, <2>4 DEF Edit
<1>4. CASE Watch
  <2>1. ASSUME NEW t \in Tenants, WatchTenant(t) PROVE SetType'
    BY <2>1 DEF WatchTenant, history
  <2>2. ASSUME NEW t \in Tenants, WatchTenantResourceQuota(t) PROVE SetType'
    <3>1. tenQueue' \subseteq Tenants
      BY <2>2, Marked DEF WatchTenantResourceQuota
    <3>2. QED
      BY <2>2, <3>1 DEF WatchTenantResourceQuota, history
  <2>3. ASSUME NEW n \in Spaces, WatchResourceQuota(n) PROVE SetType'
    <3>1. \A x \in {rq[n], rqSeen[n]} : x # NoQuota => x.tenant \in Tenants
      BY RqObjects DEF EnvType
    <3>2. Touched(rqSeen[n], rq[n]) \subseteq Tenants
      BY <3>1 DEF Touched
    <3>3. Told(rqSeen[n], rq[n]) \subseteq Tenants
      BY <2>3, <3>1 DEF Told, WatchResourceQuota
    <3>4. trqQueue' \subseteq Tenants /\ untold' \subseteq Tenants
      BY <2>3, <3>2, <3>3 DEF WatchResourceQuota
    <3>5. QED
      BY <2>3, <3>4 DEF WatchResourceQuota
  <2>4. QED
    BY <1>4, <2>1, <2>2, <2>3 DEF Watch
<1>5. CASE WorkTenants
  <2>1. ASSUME NEW t \in Tenants, ReconcileTenant(t) PROVE SetType'
    BY <2>1 DEF ReconcileTenant, history
  <2>2. ASSUME NEW ok \in BOOLEAN,
               HandleTenantResourceQuota(ok) \/ AddFinalizers(ok) \/ DeleteAllOf(ok)
               \/ RemoveFinalizers(ok)
        PROVE  SetType'
    <3>1. tenWork.t \in Tenants
      BY <2>2, TenantInHand DEF HandleTenantResourceQuota, AddFinalizers, DeleteAllOf, RemoveFinalizers
    <3>2. QED
      BY <2>2, <3>1 DEF HandleTenantResourceQuota, AddFinalizers, DeleteAllOf, RemoveFinalizers,
                        queues, history
  <2>3. QED
    BY <1>5, <2>1, <2>2 DEF WorkTenants
<1>6. CASE WorkQuotas
  <2>1. ASSUME NEW t \in Tenants, ReconcileTenantResourceQuota(t) PROVE SetType'
    BY <2>1 DEF ReconcileTenantResourceQuota
  <2>2. ASSUME NEW ok \in BOOLEAN, UpdateStatus(ok) PROVE SetType'
    <3>1. trqWork.t \in Tenants
      BY <2>2, QuotaInHand DEF UpdateStatus, Idle
    <3>2. QED
      BY <2>2, <3>1 DEF UpdateStatus, history
  <2>3. QED
    BY <1>6, <2>1, <2>2 DEF WorkQuotas
<1>7. ASSUME NEW t \in Tenants, CollectTenantResourceQuota(t) PROVE SetType'
  <2>1. parted' \subseteq Tenants /\ hasty' \subseteq Tenants
    BY <1>7, Marked DEF CollectTenantResourceQuota
  <2>2. QED
    BY <1>7, <2>1 DEF CollectTenantResourceQuota, queues
<1>8. ASSUME NEW n \in Spaces, CollectResourceQuota(n) \/ Enforce(n) PROVE SetType'
  BY <1>8 DEF CollectResourceQuota, Enforce, queues, history
<1>9. ASSUME NEW e \in Envs, NEW ok \in BOOLEAN, NEW labels \in BOOLEAN, Limit(e, ok, labels) PROVE SetType'
  <2>1. due' \subseteq Envs /\ lost' \subseteq Envs
    BY <1>9 DEF Limit
  <2>2. QED
    BY <1>9, <2>1 DEF Limit
<1>10. CASE Restart
  BY <1>10 DEF Restart, history
<1>11. QED
  BY <1>1, <1>2, <1>3, <1>4, <1>5, <1>6, <1>7, <1>8, <1>9, <1>10 DEF Next, Work, Collect

LEMMA Counted ==
  ASSUME NumType, UNCHANGED ops \/ \E k \in Kinds \cup {"edit"} : Operate(k),
         UNCHANGED faults \/ \E ok \in BOOLEAN : Outcome(ok)
  PROVE  NumType'
<1>1. ops' \in 0 .. MaxOps
  BY TenantQuotaAssumption DEF NumType, Operate
<1>2. faults' \in 0 .. MaxFaults
  BY TenantQuotaAssumption DEF NumType, Outcome
<1>3. QED
  BY <1>1, <1>2 DEF NumType

LEMMA NumStep ==
  ASSUME Typed, Next
  PROVE  NumType'
  BY Tally, Counted DEF Typed

LEMMA TypedStep == Inv /\ Typed /\ [Next]_vars => Typed'
<1> SUFFICES ASSUME Inv, Typed, [Next]_vars PROVE Typed'
  OBVIOUS
<1>1. Service'
  BY NextInv DEF Inv
<1>2. CASE UNCHANGED vars
  BY <1>1, <1>2 DEF Typed, TenType, TrqType, EnvType, SetType, NumType, vars, service, cluster, seen,
                   queues, work, history
<1>3. CASE Next
  BY <1>1, <1>3, TenStep, TrqStep, EnvStep, SetStep, NumStep DEF Typed
<1>4. QED
  BY <1>2, <1>3

(* Every variable has the type that TypeOK gives it: in particular what    *)
(* tenants and environments are given stays an amount, and a tenant's      *)
(* books stay a natural number, for what they add up are amounts           *)
(* (tenantresourcequota_controller.go:47-97).                              *)
THEOREM TypeCorrect == Spec => []TypeOK
<1>1. Init => Typed
  BY InitTyped
<1>2. Inv /\ Typed /\ [Next]_vars => Typed'
  BY TypedStep
<1>3. Typed => TypeOK
  BY TypedIs
<1>4. QED
  BY <1>1, <1>2, <1>3, Invariant, PTL DEF Spec

-------------------------------------------------------------------------------
(* Environments and the books                                               *)

\* The controller has not seen yet what became of t's quota; when it does,
\* it will be told.
Unseen(t) ==
    \/ trq[t] = NoQuota /\ trqSeen[t].owner # 0
    \/ trq[t] # NoQuota /\ trq[t].owner = trqSeen[t].owner /\ trq[t].alloc # trqSeen[t].alloc
    \/ trq[t] # NoQuota /\ trq[t].owner = 0 /\ trqSeen[t].owner # 0

\* Books that nobody is to do again hold the sum, or are about to.
SumOf(t) ==
    IF trqWork # Idle /\ trqWork.t = t
    THEN trqWork.copy = trqSeen[t] /\ trqWork.sum = Sum(t) /\ trqWork.copy.alloc # Sum(t)
    ELSE trqSeen[t].alloc = Sum(t) \/ Unseen(t)
SumInv == \A t \in Tenants : t \notin trqQueue \cup untold /\ trqSeen[t] # NoQuota => SumOf(t)

\* An environment with nothing left to be done for it has its ResourceQuota.
Limited(e) ==
    /\ rq[SpaceOf[e]] # NoQuota /\ rq[SpaceOf[e]].tenant = TenantOf[e]
    /\ rq[SpaceOf[e]].hard = env[e].need
LimitInv ==
    /\ \A e \in Envs : env[e] # NoEnv /\ e \notin due \cup lost => Limited(e)
    /\ \A e, f \in Envs : env[e] # NoEnv /\ env[f] # NoEnv /\ SpaceOf[e] = SpaceOf[f] => e = f

BooksInv == Typed /\ SumInv /\ LimitInv /\ EnvironmentsFit

LEMMA Needs ==
  ASSUME EnvType, NEW t
  PROVE  \A e \in EnvsOf(t) : e \in Envs /\ env[e].need \in Amounts /\ env[e].need \in Nat \ {0}
  BY EnvObjects, TenantQuotaAssumption DEF EnvType, EnvsOf

LEMMA TotalType ==
  ASSUME NEW t
  PROVE  (EnvType => Total(t) \in Nat) /\ (EnvType' => Total(t)' \in Nat)
<1>1. ASSUME EnvType PROVE Total(t) \in Nat
  <2>1. \A e \in EnvsOf(t) : [x \in Envs |-> env[x].need][e] \in Nat
    BY <1>1, Needs
  <2>2. QED
    BY <2>1, EnvsOfFinite, TotalIs, SummedType
<1>2. ASSUME EnvType' PROVE Total(t)' \in Nat
  <2>1. \A e \in EnvsOf(t)' : [x \in Envs |-> env'[x].need][e] \in Nat
    BY <1>2, EnvObjects, TenantQuotaAssumption DEF EnvType, EnvsOf
  <2>2. QED
    BY <2>1, EnvsOfFinite, TotalIs, SummedType
<1>3. QED
  BY <1>1, <1>2

\* What one environment has and what the others have
LEMMA TotalAny ==
  ASSUME EnvType, NEW t, NEW e \in EnvsOf(t)
  PROVE  /\ Total(t) = env[e].need + Summed([x \in Envs |-> env[x].need], EnvsOf(t) \ {e})
         /\ Summed([x \in Envs |-> env[x].need], EnvsOf(t) \ {e}) \in Nat
<1> DEFINE f == [x \in Envs |-> env[x].need]
<1>1. \A x \in EnvsOf(t) : f[x] \in Nat
  BY Needs
<1>2. f[e] = env[e].need
  BY DEF EnvsOf
<1>3. IsFiniteSet(EnvsOf(t)) /\ IsFiniteSet(EnvsOf(t) \ {e})
  BY EnvsOfFinite, FS_Subset
<1>4. Total(t) = Summed(f, EnvsOf(t))
  BY TotalIs
<1> HIDE DEF f
<1>5. Summed(f, EnvsOf(t)) = f[e] + Summed(f, EnvsOf(t) \ {e})
  BY <1>1, <1>3, SummedAny
<1>6. \A x \in EnvsOf(t) \ {e} : f[x] \in Nat
  BY <1>1
<1>7. Summed(f, EnvsOf(t) \ {e}) \in Nat
  BY <1>3, <1>6, SummedType
<1>8. QED
  BY <1>2, <1>4, <1>5, <1>7 DEF f

\* Books that are done hold at least what the environments may use.
LEMMA BooksSuffice ==
  ASSUME Typed, SumInv, LimitInv, NEW t \in Tenants, Booked(t), trqSeen[t] # NoQuota
  PROVE  Total(t) <= trqSeen[t].alloc
<1> USE DEF Typed
<1> DEFINE f == [e \in Envs |-> env[e].need]
           d == [n \in Spaces |-> rqSeen[n].status]
           j == [e \in EnvsOf(t) |-> SpaceOf[e]]
<1>1. trqSeen[t].alloc = Sum(t)
  BY DEF SumInv, SumOf, Booked, Unseen
<1>2. \A e \in EnvsOf(t) : /\ e \in Envs /\ SpaceOf[e] \in Spaces /\ TenantOf[e] = t /\ env[e] # NoEnv
                           /\ Limited(e)
  BY TenantQuotaAssumption DEF LimitInv, Booked, EnvsOf
<1>3. \A e \in EnvsOf(t) : SpaceOf[e] \in BooksOf(t) /\ rqSeen[SpaceOf[e]].status = env[e].need
  BY <1>2 DEF Limited, Booked, BooksOf
<1>4. \A e \in EnvsOf(t) : f[e] \in Nat /\ f[e] = env[e].need
  BY <1>2, Needs
<1>5. \A n \in BooksOf(t) : d[n] \in Nat
  BY RqObjects, TenantQuotaAssumption DEF EnvType, BooksOf
<1>6. j \in [EnvsOf(t) -> BooksOf(t)] /\ \A e \in EnvsOf(t) : j[e] = SpaceOf[e]
  BY <1>3
<1>7. \A e, g \in EnvsOf(t) : j[e] = j[g] => e = g
  BY <1>2, <1>6 DEF LimitInv
<1>8. \A e \in EnvsOf(t) : d[j[e]] = env[e].need
  BY <1>2, <1>3, <1>6
<1>9. Total(t) = Summed(f, EnvsOf(t)) /\ Sum(t) = Summed(d, BooksOf(t))
  BY TotalIs, SumIs
<1> HIDE DEF f, d, j
<1>10. \A e \in EnvsOf(t) : f[e] <= d[j[e]]
  BY <1>4, <1>8
<1>11. Summed(f, EnvsOf(t)) <= Summed(d, BooksOf(t))
  BY <1>4, <1>5, <1>6, <1>7, <1>10, EnvsOfFinite, BooksOfFinite, SummedNoMore
<1>12. QED
  BY <1>1, <1>9, <1>11

LEMMA LimitStep ==
  ASSUME Typed, LimitInv, Next
  PROVE  LimitInv'
<1> USE DEF Typed
<1>1. ASSUME UNCHANGED rq, due' = due /\ lost' = lost,
             \A e \in Envs : env'[e] = NoEnv \/ env'[e] = env[e]
      PROVE  LimitInv'
  BY <1>1 DEF LimitInv, Limited
<1>2. ASSUME UNCHANGED <<env, rq, rqSeen, due, lost>> PROVE LimitInv'
  BY <1>2 DEF LimitInv, Limited
<1>3. ASSUME NEW e \in Envs, NEW need \in Amounts, CreateEnvironment(e, need) PROVE LimitInv'
  <2> DEFINE new == [id |-> ops + 1, need |-> need, label |-> FALSE]
  <2>1. /\ env' = [env EXCEPT ![e] = new] /\ due' = due \cup {e} /\ UNCHANGED <<rq, lost>>
        /\ \A f \in Envs : SpaceOf[f] = SpaceOf[e] => env[f] = NoEnv
    BY <1>3 DEF CreateEnvironment
  <2> HIDE DEF new
  <2>2. \A f \in Envs \ {e} : env'[f] = env[f]
    BY <2>1 DEF EnvType
  <2>3. QED
    BY <2>1, <2>2 DEF LimitInv, Limited
<1>4. ASSUME NEW e \in Envs, NEW need \in Amounts, UpdateEnvironment(e, need) PROVE LimitInv'
  <2> DEFINE new == [env[e] EXCEPT !.need = need]
  <2>1. /\ env[e] # NoEnv /\ env' = [env EXCEPT ![e] = new] /\ due' = due \cup {e}
        /\ UNCHANGED <<rq, lost>>
    BY <1>4 DEF UpdateEnvironment
  <2> HIDE DEF new
  <2>2. \A f \in Envs \ {e} : env'[f] = env[f]
    BY <2>1 DEF EnvType
  <2>3. QED
    BY <2>1, <2>2 DEF LimitInv, Limited
<1>5. ASSUME NEW e \in Envs, DeleteEnvironment(e) PROVE LimitInv'
  <2>1. UNCHANGED <<rq, due, lost>> /\ env' = [env EXCEPT ![e] = NoEnv]
    BY <1>5 DEF DeleteEnvironment, history
  <2>2. QED
    BY <1>1, <2>1 DEF EnvType
<1>6. ASSUME NEW e \in Envs, NEW ok \in BOOLEAN, NEW labels \in BOOLEAN, Limit(e, ok, labels) PROVE LimitInv'
  <2>1. CASE env[e] = NoEnv
    <3>1. UNCHANGED <<env, rq, lost>> /\ due' = due \ {e}
      BY <1>6, <2>1 DEF Limit
    <3>2. QED
      BY <2>1, <3>1 DEF LimitInv, Limited
  <2>2. CASE env[e] # NoEnv
    <3> DEFINE n == SpaceOf[e]
               done == ok /\ rqSeen[n] = rq[n]
               owner == IF rq[n] = NoQuota \/ rq[n].owner = e THEN <<e, env[e].id>>
                        ELSE <<rq[n].owner, rq[n].id>>
               x == [is |-> "there", tenant |-> TenantOf[e], owner |-> owner[1], id |-> owner[2],
                     hard |-> env[e].need, status |-> IF rq[n] = NoQuota THEN 0 ELSE rq[n].status]
               new == [env[e] EXCEPT !.label = labels]
    <3>1. n \in Spaces
      BY TenantQuotaAssumption
    <3>2. env[e] \in Env
      BY <2>2 DEF EnvType
    <3>3. /\ rq' = IF ~done THEN rq ELSE [rq EXCEPT ![n] = x]
          /\ lost' = IF done THEN lost \ {e} ELSE lost \cup {e}
          /\ due' = due \/ due' = due \ {e}
          /\ env' = [env EXCEPT ![e] = new]
      BY <1>6, <2>2 DEF Limit
    <3>4. x.tenant = TenantOf[e] /\ x.hard = env[e].need /\ x # NoQuota
      BY DEF NoQuota
    <3>5. new \in Env /\ new.need = env[e].need
      BY <3>2, EnvObjects DEF Env
    <3>6. new # NoEnv
      BY <3>5, EnvObjects
    <3> HIDE DEF done, owner, x, new
    <3>7. \A f \in Envs : f # e => env'[f] = env[f]
      BY <3>3 DEF EnvType
    <3>8. env'[e] = new
      BY <3>3 DEF EnvType
    <3>9. \A f \in Envs : f # e /\ env[f] # NoEnv => SpaceOf[f] # n
      BY <2>2 DEF LimitInv
    <3>10. \A f \in Envs : f # e /\ env[f] # NoEnv => rq'[SpaceOf[f]] = rq[SpaceOf[f]]
      BY <3>1, <3>3, <3>9 DEF EnvType
    <3>11. done => rq'[n] = x
      BY <3>1, <3>3 DEF EnvType
    <3>12. \A f \in Envs : f # e /\ env'[f] # NoEnv /\ f \notin due' \cup lost' => Limited(f)'
      BY <3>3, <3>7, <3>10 DEF LimitInv, Limited
    <3>13. e \notin lost' => Limited(e)'
      BY <3>3, <3>4, <3>5, <3>8, <3>11 DEF Limited, n
    <3>14. \A f, g \in Envs : env'[f] # NoEnv /\ env'[g] # NoEnv /\ SpaceOf[f] = SpaceOf[g] => f = g
      BY <2>2, <3>7 DEF LimitInv
    <3>15. QED
      BY <3>12, <3>13, <3>14 DEF LimitInv
  <2>3. QED
    BY <2>1, <2>2
<1>7. ASSUME NEW n \in Spaces, Enforce(n) PROVE LimitInv'
  <2>1. /\ rq[n] # NoQuota /\ rq' = [rq EXCEPT ![n] = [rq[n] EXCEPT !.status = rq[n].hard]]
        /\ UNCHANGED <<env, due, lost>>
    BY <1>7 DEF Enforce, queues, history
  <2>2. rq[n] \in ResourceQuota
    BY <2>1 DEF EnvType
  <2>3. /\ [rq[n] EXCEPT !.status = rq[n].hard].tenant = rq[n].tenant
        /\ [rq[n] EXCEPT !.status = rq[n].hard].hard = rq[n].hard
        /\ [rq[n] EXCEPT !.status = rq[n].hard] # NoQuota
    BY <2>2, RqObjects DEF ResourceQuota
  <2>4. \A m \in Spaces : /\ (rq'[m] = NoQuota) = (rq[m] = NoQuota)
                          /\ rq'[m].tenant = rq[m].tenant /\ rq'[m].hard = rq[m].hard
    BY <2>1, <2>3 DEF EnvType
  <2>5. \A e \in Envs : SpaceOf[e] \in Spaces
    BY TenantQuotaAssumption
  <2>6. QED
    BY <2>1, <2>4, <2>5 DEF LimitInv, Limited
<1>8. ASSUME NEW n \in Spaces, WatchResourceQuota(n) PROVE LimitInv'
  <2>1. UNCHANGED <<env, rq, due, lost>>
    BY <1>8 DEF WatchResourceQuota, cluster
  <2>2. QED
    BY <2>1 DEF LimitInv, Limited
<1>9. ASSUME NEW n \in Spaces, CollectResourceQuota(n) PROVE LimitInv'
  <2>1. /\ UNCHANGED <<env, due>> /\ rq' = [rq EXCEPT ![n] = NoQuota]
        /\ lost' = lost \cup {e \in Envs : SpaceOf[e] = n /\ env[e] # NoEnv}
    BY <1>9 DEF CollectResourceQuota, queues
  <2>2. \A e \in Envs : SpaceOf[e] # n => rq'[SpaceOf[e]] = rq[SpaceOf[e]]
    BY <2>1, TenantQuotaAssumption DEF EnvType
  <2>3. QED
    BY <2>1, <2>2 DEF LimitInv, Limited
<1>10. ASSUME NEW ok \in BOOLEAN, DeleteAllOf(ok) PROVE LimitInv'
  <2>1. /\ UNCHANGED <<rq, due, lost>>
        /\ \A e \in Envs : env'[e] = NoEnv \/ env'[e] = env[e]
    BY <1>10 DEF DeleteAllOf, history
  <2>2. QED
    BY <1>1, <2>1
<1>11. CASE Restart
  <2>1. UNCHANGED env /\ due' = {e \in Envs : env[e] # NoEnv}
    BY <1>11 DEF Restart, cluster
  <2>2. QED
    BY <2>1 DEF LimitInv, Limited
<1>12. QED
  BY <1>2, <1>3, <1>4, <1>5, <1>6, <1>7, <1>8, <1>9, <1>10, <1>11, EnvFrame

LEMMA SumUnchanged ==
  ASSUME UNCHANGED rqSeen, NEW t
  PROVE  Sum(t)' = Sum(t)
<1>1. BooksOf(t)' = BooksOf(t) /\ [n \in Spaces |-> rqSeen'[n].status] = [n \in Spaces |-> rqSeen[n].status]
  BY DEF BooksOf
<1>2. QED
  BY <1>1, SumIs

\* Who is not told of a ResourceQuota has the sum it had.
LEMMA SumAlike ==
  ASSUME NEW t, BooksOf(t)' = BooksOf(t), \A m \in BooksOf(t) : rqSeen'[m].status = rqSeen[m].status
  PROVE  Sum(t)' = Sum(t)
<1> DEFINE f == [x \in Spaces |-> rqSeen'[x].status]
           d == [x \in Spaces |-> rqSeen[x].status]
<1>1. \A m \in BooksOf(t) : f[m] = d[m]
  BY DEF BooksOf
<1>2. Sum(t)' = Summed(f, BooksOf(t)) /\ Sum(t) = Summed(d, BooksOf(t))
  BY SumIs
<1> HIDE DEF f, d
<1>3. QED
  BY <1>1, <1>2, BooksOfFinite, SummedAlike

LEMMA PairFinite == ASSUME NEW x, NEW y PROVE IsFiniteSet({x, y})
<1>1. IsFiniteSet({x}) /\ {x, y} = {x} \cup {y}
  BY FS_Singleton
<1>2. QED
  BY <1>1, FS_AddElement

LEMMA SumKept ==
  ASSUME Typed, NEW n \in Spaces, WatchResourceQuota(n),
         NEW t \in Tenants, t \notin trqQueue' \cup untold'
  PROVE  t \notin trqQueue \cup untold /\ Sum(t)' = Sum(t)
<1> DEFINE old == rqSeen[n]
           new == rq[n]
<1>1. /\ old # new /\ rqSeen' = [rqSeen EXCEPT ![n] = new]
      /\ t \notin trqQueue \cup Told(old, new) \cup untold
      /\ Cardinality(Touched(old, new)) # 1 => t \notin Touched(old, new) \ Told(old, new)
  BY DEF WatchResourceQuota
<1>2. \A m \in Spaces : rqSeen'[m] = IF m = n THEN new ELSE rqSeen[m]
  BY <1>1 DEF Typed, EnvType
<1>3. CASE t \notin Touched(old, new)
  <2>1. \A x \in {old, new} : x # NoQuota => x.tenant # t
    BY <1>3 DEF Touched
  <2>2. n \notin BooksOf(t) /\ n \notin BooksOf(t)'
    BY <1>2, <2>1 DEF BooksOf
  <2>3. BooksOf(t)' = BooksOf(t) /\ \A m \in BooksOf(t) : rqSeen'[m].status = rqSeen[m].status
    BY <1>2, <2>2 DEF BooksOf
  <2>4. QED
    BY <1>1, <2>3, SumAlike
<1>4. CASE t \in Touched(old, new)
  <2>1. Cardinality(Touched(old, new)) = 1
    BY <1>1, <1>4
  <2>2. Touched(old, new) = {t}
    <3> DEFINE x == IF old = NoQuota THEN new.tenant ELSE old.tenant
               y == IF new = NoQuota THEN old.tenant ELSE new.tenant
    <3>1. Touched(old, new) = {x, y}
      BY <1>1 DEF Touched
    <3> HIDE DEF x, y
    <3>2. IsFiniteSet(Touched(old, new))
      BY <3>1, PairFinite
    <3>3. \E z : Touched(old, new) = {z}
      BY <2>1, <3>2, FS_Singleton
    <3>4. QED
      BY <1>4, <3>3
  <2>3. \A x \in {old, new} : x # NoQuota => x.tenant = t
    BY <2>2 DEF Touched
  <2>4. old # NoQuota /\ new # NoQuota /\ old.status = new.status
    BY <1>1, <2>3 DEF Told
  <2>5. BooksOf(t)' = BooksOf(t) /\ \A m \in BooksOf(t) : rqSeen'[m].status = rqSeen[m].status
    BY <1>2, <2>3, <2>4 DEF BooksOf
  <2>6. QED
    BY <1>1, <2>5, SumAlike
<1>5. QED
  BY <1>3, <1>4

\* The quotas change; the controller does not see it yet.
LEMMA SumUnseen ==
  ASSUME SumInv, UNCHANGED <<trqSeen, trqWork, rqSeen, trqQueue, untold>>,
         \A t \in Tenants : trqSeen[t] # NoQuota /\ Unseen(t) => Unseen(t)'
  PROVE  SumInv'
<1>1. \A t \in Tenants : Sum(t)' = Sum(t)
  BY SumUnchanged
<1>2. SUFFICES ASSUME NEW t \in Tenants, t \notin trqQueue \cup untold, trqSeen[t] # NoQuota
               PROVE  SumOf(t)'
  BY DEF SumInv
<1>3. SumOf(t)
  BY <1>2 DEF SumInv
<1>4. QED
  BY <1>1, <1>2, <1>3 DEF SumOf

LEMMA SumStep ==
  ASSUME Typed, SumInv, Next
  PROVE  SumInv'
<1>1. TrqType /\ TenType
  BY DEF Typed
<1>2. CASE UNCHANGED <<trq, trqSeen, trqWork, rqSeen, trqQueue, untold>>
  <2>1. \A t \in Tenants : Unseen(t)' = Unseen(t)
    BY <1>2 DEF Unseen
  <2>2. QED
    BY <1>2, <2>1, SumUnseen
<1>3. ASSUME NEW r \in Requests, NEW lands \in BOOLEAN, NEW ok \in BOOLEAN,
             CreateOrUpdateTenantResourceQuota(r, lands, ok)
      PROVE  SumInv'
  <2> DEFINE u == req[r].t
             new == [is |-> "there", owner |-> 0, hard |-> req[r].c, alloc |-> 0]
  <2>1. UNCHANGED <<trqSeen, trqWork, rqSeen, trqQueue, untold>>
    BY <1>3 DEF CreateOrUpdateTenantResourceQuota, seen, queues, work
  <2>2. u \in Tenants
    BY <1>3, Asking DEF CreateOrUpdateTenantResourceQuota, Typed
  <2>3. \/ trq' = trq
        \/ trq[u] = NoQuota /\ trq' = [trq EXCEPT ![u] = new]
        \/ trq[u] # NoQuota /\ trq' = [trq EXCEPT ![u] = [trq[u] EXCEPT !.hard = req[r].c]]
    BY <1>3 DEF CreateOrUpdateTenantResourceQuota
  <2>4. new # NoQuota /\ new.owner = 0
    BY DEF NoQuota
  <2>5. trq[u] # NoQuota => /\ [trq[u] EXCEPT !.hard = req[r].c] # NoQuota
                            /\ [trq[u] EXCEPT !.hard = req[r].c].owner = trq[u].owner
                            /\ [trq[u] EXCEPT !.hard = req[r].c].alloc = trq[u].alloc
    BY <1>1, <2>2 DEF TrqType, TenantResourceQuota, NoQuota
  <2> HIDE DEF u, new
  <2>6. \A t \in Tenants : Unseen(t) => Unseen(t)'
    BY <1>1, <2>1, <2>2, <2>3, <2>4, <2>5 DEF Unseen, TrqType
  <2>7. QED
    BY <2>1, <2>6, SumUnseen
<1>4. ASSUME NEW u \in Tenants, WatchTenantResourceQuota(u) PROVE SumInv'
  <2>1. /\ trqSeen' = [trqSeen EXCEPT ![u] = trq[u]] /\ trqQueue' = trqQueue \cup {u}
        /\ UNCHANGED <<trq, trqWork, rqSeen, untold>>
    BY <1>4 DEF WatchTenantResourceQuota, cluster, work, history
  <2>2. \A t \in Tenants : Sum(t)' = Sum(t)
    BY <2>1, SumUnchanged
  <2>3. \A t \in Tenants \ {u} : trqSeen'[t] = trqSeen[t]
    BY <1>1, <2>1 DEF TrqType
  <2>4. \A t \in Tenants \ {u} : SumOf(t)' = SumOf(t)
    BY <2>1, <2>2, <2>3 DEF SumOf, Unseen
  <2>5. QED
    BY <2>1, <2>3, <2>4 DEF SumInv
<1>5. ASSUME NEW u \in Tenants, CollectTenantResourceQuota(u) PROVE SumInv'
  <2>1. /\ trq[u] # NoQuota /\ trq[u].owner # 0 /\ trq' = [trq EXCEPT ![u] = NoQuota]
        /\ UNCHANGED <<trqSeen, trqWork, rqSeen, trqQueue, untold>>
    BY <1>5 DEF CollectTenantResourceQuota, seen, queues, work
  <2>2. \A t \in Tenants : Unseen(t) => Unseen(t)'
    BY <1>1, <2>1 DEF Unseen, TrqType
  <2>3. QED
    BY <2>1, <2>2, SumUnseen
<1>6. ASSUME NEW n \in Spaces, WatchResourceQuota(n) PROVE SumInv'
  <2>1. SUFFICES ASSUME NEW t \in Tenants, t \notin trqQueue' \cup untold', trqSeen'[t] # NoQuota
                 PROVE  SumOf(t)'
    BY DEF SumInv
  <2>2. t \notin trqQueue \cup untold /\ Sum(t)' = Sum(t)
    BY <1>6, <2>1, SumKept
  <2>3. UNCHANGED <<trq, trqSeen, trqWork>>
    BY <1>6 DEF WatchResourceQuota, cluster, work
  <2>4. SumOf(t)
    BY <2>1, <2>2, <2>3 DEF SumInv
  <2>5. QED
    BY <2>2, <2>3, <2>4 DEF SumOf, Unseen
<1>7. ASSUME NEW ok \in BOOLEAN, HandleTenantResourceQuota(ok) PROVE SumInv'
  <2> DEFINE u == tenWork.t
             owned == [trqSeen[u] EXCEPT !.owner = tenWork.copy.uid]
  <2>1. UNCHANGED <<trqSeen, trqWork, rqSeen, trqQueue, untold>>
    BY <1>7 DEF HandleTenantResourceQuota, seen, queues, history
  <2>2. u \in Tenants
    BY <1>1, <1>7, TenantInHand DEF HandleTenantResourceQuota
  <2>3. CASE trqSeen[u] = NoQuota
    <3>1. trq' = trq \/ \E x : trq' = [trq EXCEPT ![u] = x]
      BY <1>7, <2>3 DEF HandleTenantResourceQuota
    <3>2. \A t \in Tenants : t # u => trq'[t] = trq[t]
      BY <1>1, <2>2, <3>1 DEF TrqType
    <3>3. \A t \in Tenants : t # u /\ Unseen(t) => Unseen(t)'
      BY <2>1, <3>2 DEF Unseen
    <3>4. QED
      BY <2>1, <2>3, <3>3, SumUnseen
  <2>4. CASE trqSeen[u] # NoQuota
    <3>1. \/ trq' = trq
          \/ trqSeen[u] = trq[u] /\ trq' = [trq EXCEPT ![u] = owned]
      BY <1>7, <2>4 DEF HandleTenantResourceQuota
    <3>2. trqSeen[u] = trq[u] => ~Unseen(u)
      BY <2>4 DEF Unseen
    <3> HIDE DEF u, owned
    <3>3. \A t \in Tenants : Unseen(t) => Unseen(t)'
      BY <1>1, <2>1, <2>2, <3>1, <3>2 DEF Unseen, TrqType
    <3>4. QED
      BY <2>1, <3>3, SumUnseen
  <2>5. QED
    BY <2>3, <2>4
<1>8. ASSUME NEW u \in Tenants, ReconcileTenantResourceQuota(u) PROVE SumInv'
  <2>1. /\ trqWork = Idle /\ trqQueue' = trqQueue \ {u} /\ untold' = untold \ {u}
        /\ trqWork' = IF trqSeen[u] = NoQuota \/ trqSeen[u].alloc = Sum(u) THEN Idle
                      ELSE [pc |-> "write", t |-> u, copy |-> trqSeen[u], sum |-> Sum(u)]
        /\ UNCHANGED <<trq, trqSeen, rqSeen>>
    BY <1>8 DEF ReconcileTenantResourceQuota, cluster, seen
  <2>2. \A t \in Tenants : Sum(t)' = Sum(t)
    BY <2>1, SumUnchanged
  <2>3. trqWork' # Idle => trqWork'.t = u /\ trqWork'.copy = trqSeen[u] /\ trqWork'.sum = Sum(u)
                           /\ trqSeen[u].alloc # Sum(u)
    BY <2>1
  <2>4. trqWork' = Idle => trqSeen[u] = NoQuota \/ trqSeen[u].alloc = Sum(u)
    <3>1. \A x : [pc |-> "write", t |-> u, copy |-> trqSeen[u], sum |-> x] # Idle
      <4>1. Idle.pc = "idle"
        BY DEF Idle
      <4>2. QED
        BY <4>1
    <3>2. QED
      BY <2>1, <3>1
  <2>5. \A t \in Tenants : Unseen(t)' = Unseen(t)
    BY <2>1 DEF Unseen
  <2>6. \A t \in Tenants : t # u /\ t \notin trqQueue \cup untold /\ trqSeen[t] # NoQuota => SumOf(t)'
    BY <2>1, <2>2, <2>3, <2>5 DEF SumInv, SumOf
  <2>7. trqSeen[u] # NoQuota => SumOf(u)'
    BY <2>1, <2>2, <2>3, <2>4 DEF SumOf
  <2>8. QED
    BY <2>1, <2>6, <2>7 DEF SumInv
<1>9. ASSUME NEW ok \in BOOLEAN, UpdateStatus(ok) PROVE SumInv'
  <2>1. trqWork # Idle
    BY <1>9 DEF UpdateStatus, Idle
  <2>2. trqWork.copy \in TenantResourceQuota
    BY <1>1, <2>1, QuotaInHand
  <2>3. PICK u \in Tenants : u = trqWork.t
    BY <1>1, <2>1, QuotaInHand
  <2> DEFINE done == ok /\ trq[u] = trqWork.copy
             new == [trq[u] EXCEPT !.alloc = trqWork.sum]
  <2>4. /\ trq' = IF done THEN [trq EXCEPT ![u] = new] ELSE trq
        /\ trqQueue' = IF done THEN trqQueue ELSE trqQueue \cup {u}
        /\ trqWork' = Idle /\ UNCHANGED <<trqSeen, rqSeen, untold>>
    BY <1>9, <2>3 DEF UpdateStatus, seen, history
  <2>5. \A t \in Tenants : Sum(t)' = Sum(t)
    BY <2>4, SumUnchanged
  <2>6. done => new # NoQuota /\ new.owner = trq[u].owner /\ new.alloc = trqWork.sum
    BY <2>2 DEF TenantResourceQuota, NoQuota
  <2>7. \A t \in Tenants : t # u => trq'[t] = trq[t]
    BY <1>1, <2>2, <2>4 DEF TrqType
  <2>8. done => trq'[u] = new
    BY <1>1, <2>2, <2>4 DEF TrqType
  <2> HIDE DEF done, new
  <2>9. \A t \in Tenants : t # u /\ t \notin trqQueue \cup untold /\ trqSeen[t] # NoQuota => SumOf(t)'
    BY <2>3, <2>1, <2>4, <2>5, <2>7 DEF SumInv, SumOf, Unseen
  <2>10. u \notin trqQueue' \cup untold' /\ trqSeen'[u] # NoQuota => SumOf(u)'
    <3>1. SUFFICES ASSUME done, u \notin trqQueue \cup untold, trqSeen[u] # NoQuota PROVE SumOf(u)'
      BY <2>4
    <3>2. trqWork.copy = trqSeen[u] /\ trqWork.sum # trqWork.copy.alloc
      BY <2>3, <2>1, <2>2, <3>1 DEF SumInv, SumOf
    <3>3. trq[u] = trqSeen[u]
      BY <3>1, <3>2 DEF done
    <3>4. Unseen(u)'
      BY <2>4, <2>6, <2>8, <3>1, <3>2, <3>3 DEF Unseen
    <3>5. QED
      BY <2>4, <3>4 DEF SumOf
  <2>11. QED
    BY <2>4, <2>9, <2>10 DEF SumInv
<1>10. CASE Restart
  <2>1. trqSeen' = trq /\ trqQueue' = {t \in Tenants : trq[t] # NoQuota}
    BY <1>10 DEF Restart
  <2>2. QED
    BY <2>1 DEF SumInv
<1>11. QED
  BY <1>2, <1>3, <1>4, <1>5, <1>6, <1>7, <1>8, <1>9, <1>10, TrqFrame DEF WorkQuotas

\* Whose environments are no more and ask for what they did uses no more.
LEMMA TotalNoMore ==
  ASSUME EnvType, EnvType', NEW t, EnvsOf(t)' \subseteq EnvsOf(t),
         \A e \in EnvsOf(t)' : env'[e].need = env[e].need
  PROVE  Total(t)' <= Total(t)
<1> DEFINE f == [e \in Envs |-> env'[e].need]
           d == [e \in Envs |-> env[e].need]
           S == EnvsOf(t)'
           T == EnvsOf(t)
           j == [e \in S |-> e]
<1>1. \A e \in T : d[e] \in Nat
  BY Needs
<1>2. \A e \in S : f[e] = d[e]
  BY DEF EnvsOf
<1>3. S \subseteq T /\ IsFiniteSet(S) /\ IsFiniteSet(T)
  BY EnvsOfFinite
<1>4. Total(t)' = Summed(f, S) /\ Total(t) = Summed(d, T)
  BY TotalIs
<1> HIDE DEF f, d, S, T
<1>5. j \in [S -> T] /\ \A e \in S : j[e] = e
  BY <1>3
<1> HIDE DEF j
<1>6. \A e \in S : f[e] \in Nat /\ f[e] <= d[j[e]]
  BY <1>1, <1>2, <1>3, <1>5
<1>7. \A x, y \in S : j[x] = j[y] => x = y
  BY <1>5
<1>8. Summed(f, S) <= Summed(d, T)
  BY <1>1, <1>3, <1>5, <1>6, <1>7, SummedNoMore
<1>9. QED
  BY <1>4, <1>8

\* An environment that comes or asks for something else
LEMMA TotalChanged ==
  ASSUME EnvType, EnvType', NEW e \in Envs, NEW x, x # NoEnv, env' = [env EXCEPT ![e] = x]
  PROVE  Total(TenantOf[e])' = Total(TenantOf[e]) + x.need - (IF env[e] = NoEnv THEN 0 ELSE env[e].need)
<1> DEFINE t == TenantOf[e]
           f == [y \in Envs |-> env'[y].need]
           d == [y \in Envs |-> env[y].need]
           S == EnvsOf(t)'
           R == EnvsOf(t) \ {e}
<1>1. env'[e] = x /\ \A y \in Envs : y # e => env'[y] = env[y]
  BY DEF EnvType
<1>2. S = R \cup {e} /\ e \notin R
  BY <1>1 DEF EnvsOf
<1>3. \A y \in S : f[y] \in Nat
  <2>1. \A y \in S : env'[y].need \in Nat
    BY EnvObjects, TenantQuotaAssumption DEF EnvType, EnvsOf
  <2>2. QED
    BY <2>1 DEF EnvsOf
<1>4. \A y \in EnvsOf(t) : d[y] \in Nat
  BY Needs
<1>5. \A y \in R : f[y] = d[y]
  BY <1>1 DEF EnvsOf
<1>6. IsFiniteSet(S) /\ IsFiniteSet(R) /\ IsFiniteSet(EnvsOf(t))
  BY EnvsOfFinite, FS_Subset
<1>7. Total(t)' = Summed(f, S) /\ Total(t) = Summed(d, EnvsOf(t))
  BY TotalIs
<1>8. f[e] = x.need
  BY <1>1
<1>9. e \in EnvsOf(t) <=> env[e] # NoEnv
  BY DEF EnvsOf
<1>10. d[e] = env[e].need
  OBVIOUS
<1>11. R = EnvsOf(t) \ {e}
  OBVIOUS
<1> HIDE DEF f, d, S, R
<1>12. Summed(f, S) = f[e] + Summed(f, R)
  <2>1. S \ {e} = R /\ e \in S
    BY <1>2
  <2>2. Summed(f, S) = f[e] + Summed(f, S \ {e})
    BY <1>3, <1>6, <2>1, SummedAny
  <2>3. QED
    BY <2>1, <2>2
<1>13. Summed(f, R) = Summed(d, R)
  BY <1>5, <1>6, SummedAlike
<1>14. Summed(d, R) \in Nat /\ f[e] \in Nat
  <2>1. \A y \in R : d[y] \in Nat
    BY <1>4, <1>11
  <2>2. QED
    BY <1>2, <1>3, <1>6, <2>1, SummedType
<1>15. CASE env[e] = NoEnv
  <2>1. R = EnvsOf(t)
    BY <1>9, <1>11, <1>15
  <2>2. QED
    BY <1>7, <1>8, <1>12, <1>13, <1>14, <1>15, <2>1
<1>16. CASE env[e] # NoEnv
  <2>1. Summed(d, EnvsOf(t)) = d[e] + Summed(d, R)
    BY <1>4, <1>6, <1>9, <1>11, <1>16, SummedAny
  <2>2. d[e] \in Nat
    BY <1>4, <1>9, <1>16
  <2>3. QED
    BY <1>7, <1>8, <1>10, <1>12, <1>13, <1>14, <1>16, <2>1, <2>2
<1>17. QED
  BY <1>15, <1>16

LEMMA HastyGrows == ASSUME Next PROVE hasty \subseteq hasty'
<1>1. ASSUME NEW r \in Requests, Ask(r) PROVE hasty \subseteq hasty'
  BY <1>1 DEF Ask, Begin, PostTenantTenantResourceQuota, PutTenantTenantResourceQuota, Pass,
              CreateTenantResourceQuotaApply, DeleteTenantResourceQuota, history
<1>2. ASSUME NEW r \in Requests, Serve(r) PROVE hasty \subseteq hasty'
  BY <1>2 DEF Serve, Save, CreateOrUpdateTenant, DeleteTenant, Commit,
              CreateOrUpdateTenantResourceQuota, Mark
<1>3. ASSUME NEW e \in Envs, Edit(e) PROVE hasty \subseteq hasty'
  BY <1>3 DEF Edit, CreateEnvironment, UpdateEnvironment, DeleteEnvironment, Mark, history
<1>4. ASSUME Watch PROVE hasty \subseteq hasty'
  BY <1>4 DEF Watch, WatchTenant, WatchTenantResourceQuota, WatchResourceQuota, history
<1>5. ASSUME WorkTenants PROVE hasty \subseteq hasty'
  BY <1>5 DEF WorkTenants, ReconcileTenant, HandleTenantResourceQuota, AddFinalizers, DeleteAllOf,
              RemoveFinalizers, history
<1>6. ASSUME WorkQuotas \/ Collect PROVE hasty \subseteq hasty'
  BY <1>6 DEF WorkQuotas, ReconcileTenantResourceQuota, UpdateStatus, Collect,
              CollectTenantResourceQuota, CollectResourceQuota, Mark, history
<1>7. ASSUME NEW e \in Envs, NEW ok \in BOOLEAN, NEW labels \in BOOLEAN, Limit(e, ok, labels) PROVE hasty \subseteq hasty'
  BY <1>7 DEF Limit
<1>8. ASSUME Restart \/ \E n \in Spaces : Enforce(n) PROVE hasty \subseteq hasty'
  BY <1>8 DEF Enforce, Restart, history
<1>9. QED
  BY <1>1, <1>2, <1>3, <1>4, <1>5, <1>6, <1>7, <1>8 DEF Next, Work

Fits(t) == EnvsOf(t) # {} => trq[t] # NoQuota /\ Total(t) <= trq[t].hard

\* A quota that stays is enough for environments that use no more.
LEMMA FitsStill ==
  ASSUME EnvType, EnvType', TrqType, NEW t \in Tenants, Fits(t), EnvsOf(t)' \subseteq EnvsOf(t),
         \A e \in EnvsOf(t)' : env'[e].need = env[e].need,
         trq[t] # NoQuota => trq'[t] # NoQuota /\ trq'[t].hard = trq[t].hard
  PROVE  Fits(t)'
<1>1. Total(t)' <= Total(t)
  BY TotalNoMore
<1>2. Total(t) \in Nat /\ Total(t)' \in Nat
  BY TotalType
<1>3. trq[t] # NoQuota => trq[t].hard \in Nat
  BY QuotaObjects, TenantQuotaAssumption DEF TrqType
<1>4. QED
  BY <1>1, <1>2, <1>3 DEF Fits

\* Environments are admitted on books that are done, or hastily.
LEMMA EditFits ==
  ASSUME Typed, Typed', SumInv, LimitInv, EnvironmentsFit, NEW e \in Envs, NEW need \in Amounts,
         CreateEnvironment(e, need) \/ UpdateEnvironment(e, need),
         NEW t \in Tenants, t \notin hasty'
  PROVE  Fits(t)'
<1> DEFINE old == IF env[e] = NoEnv THEN 0 ELSE env[e].need
           x == IF env[e] = NoEnv THEN [id |-> ops + 1, need |-> need, label |-> FALSE]
                ELSE [env[e] EXCEPT !.need = need]
<1>1. EnvType /\ EnvType' /\ TrqType /\ NumType
  BY DEF Typed
<1>2. /\ env' = [env EXCEPT ![e] = x] /\ UNCHANGED trq
      /\ hasty' = Mark(hasty, TenantOf[e], ~Booked(TenantOf[e]))
      /\ trqSeen[TenantOf[e]] # NoQuota
      /\ need + trqSeen[TenantOf[e]].alloc <= trqSeen[TenantOf[e]].hard + old
  BY DEF CreateEnvironment, UpdateEnvironment, MayAsk, Enough
<1>3. x # NoEnv /\ x.need = need
  <2>1. env[e] # NoEnv => env[e] \in Env
    BY <1>1 DEF EnvType
  <2>2. x \in Env /\ x.need = need
    BY <1>1, <2>1, TenantQuotaAssumption DEF Env, NumType
  <2>3. QED
    BY <2>2, EnvObjects
<1>4. old \in Nat /\ need \in Nat
  BY <1>1, EnvObjects, TenantQuotaAssumption DEF EnvType
<1> HIDE DEF x
<1>5. t \notin hasty
  BY <1>2 DEF Mark
<1>6. Fits(t)
  BY <1>5 DEF EnvironmentsFit, Fits
<1>7. CASE t # TenantOf[e]
  <2>1. \A f \in Envs : f # e => env'[f] = env[f]
    BY <1>1, <1>2 DEF EnvType
  <2>2. EnvsOf(t)' \subseteq EnvsOf(t) /\ \A f \in EnvsOf(t)' : env'[f].need = env[f].need
    BY <1>7, <2>1 DEF EnvsOf
  <2>3. QED
    BY <1>1, <1>2, <1>6, <2>2, FitsStill
<1>8. CASE t = TenantOf[e]
  <2>1. Booked(t)
    BY <1>2, <1>8 DEF Mark
  <2>2. trqSeen[t] # NoQuota /\ trqSeen[t] = trq[t]
    BY <1>2, <1>8, <2>1 DEF Booked
  <2>3. Total(t) <= trqSeen[t].alloc
    BY <2>1, <2>2, BooksSuffice
  <2>4. Total(t)' = Total(t) + need - old
    <3>1. Total(TenantOf[e])' = Total(TenantOf[e]) + x.need - old
      BY <1>1, <1>2, <1>3, TotalChanged
    <3>2. QED
      BY <1>3, <1>8, <3>1
  <2>5. trqSeen[t].alloc \in Nat /\ trqSeen[t].hard \in Nat
    BY <1>1, <2>2, QuotaObjects, TenantQuotaAssumption DEF TrqType
  <2>6. Total(t) \in Nat
    BY <1>1, TotalType
  <2>7. Total(t)' <= trqSeen[t].hard
    <3> HIDE DEF old
    <3>1. need + trqSeen[t].alloc <= trqSeen[t].hard + old
      BY <1>2, <1>8
    <3>2. QED
      BY <1>4, <2>3, <2>4, <2>5, <2>6, <3>1
  <2>8. QED
    BY <1>2, <2>2, <2>7 DEF Fits
<1>9. QED
  BY <1>7, <1>8

\* A quota is written at least as high as what the environments may use, or
\* hastily; nothing else takes any of it away.
LEMMA QuotaFits ==
  ASSUME Typed, Typed', EnvironmentsFit, Next, UNCHANGED env, NEW t \in Tenants, t \notin hasty'
  PROVE  Fits(t)'
<1>1. EnvType /\ EnvType' /\ TrqType /\ TenType /\ Service
  BY DEF Typed
<1>2. t \notin hasty
  BY HastyGrows
<1>3. Fits(t)
  BY <1>2 DEF EnvironmentsFit, Fits
<1>4. EnvsOf(t)' = EnvsOf(t) /\ \A e \in EnvsOf(t)' : env'[e].need = env[e].need
  BY DEF EnvsOf
<1>5. ASSUME trq[t] # NoQuota => trq'[t] # NoQuota /\ trq'[t].hard = trq[t].hard PROVE Fits(t)'
  BY <1>1, <1>3, <1>4, <1>5, FitsStill
<1>6. Total(t) \in Nat /\ Total(t)' \in Nat /\ Total(t)' <= Total(t)
  BY <1>1, <1>4, TotalType, TotalNoMore
<1>7. CASE UNCHANGED trq
  BY <1>5, <1>7
<1>8. ASSUME NEW r \in Requests, NEW lands \in BOOLEAN, NEW ok \in BOOLEAN,
             CreateOrUpdateTenantResourceQuota(r, lands, ok)
      PROVE  Fits(t)'
  <2> DEFINE u == req[r].t
             c == req[r].c
  <2>1. u \in Tenants /\ c \in Nat
    BY <1>1, <1>8, Asking, TenantQuotaAssumption DEF CreateOrUpdateTenantResourceQuota
  <2>2. CASE t # u \/ ~lands
    <3>1. trq'[t] = trq[t]
      BY <1>1, <1>8, <2>2 DEF CreateOrUpdateTenantResourceQuota, TrqType
    <3>2. QED
      BY <1>5, <3>1
  <2>3. CASE t = u /\ lands
    <3>1. ~(c < Total(t))
      BY <1>8, <2>3 DEF CreateOrUpdateTenantResourceQuota, Mark
    <3>2. trq'[t] # NoQuota /\ trq'[t].hard = c
      <4>1. CASE trq[t] = NoQuota
        <5>1. trq' = [trq EXCEPT ![u] = [is |-> "there", owner |-> 0, hard |-> c, alloc |-> 0]]
          BY <1>8, <2>3, <4>1 DEF CreateOrUpdateTenantResourceQuota
        <5>2. QED
          BY <1>1, <2>1, <2>3, <5>1 DEF TrqType, NoQuota
      <4>2. CASE trq[t] # NoQuota
        <5>1. trq' = [trq EXCEPT ![u] = [trq[u] EXCEPT !.hard = c]]
          BY <1>8, <2>3, <4>2 DEF CreateOrUpdateTenantResourceQuota
        <5>2. QED
          BY <1>1, <2>1, <2>3, <4>2, <5>1 DEF TrqType, TenantResourceQuota, NoQuota
      <4>3. QED
        BY <4>1, <4>2
    <3>3. QED
      BY <1>6, <2>1, <3>1, <3>2 DEF Fits
  <2>4. QED
    BY <2>2, <2>3
<1>9. ASSUME NEW u \in Tenants, CollectTenantResourceQuota(u) PROVE Fits(t)'
  <2>1. CASE t # u
    <3>1. trq'[t] = trq[t]
      BY <1>1, <1>9, <2>1 DEF CollectTenantResourceQuota, TrqType
    <3>2. QED
      BY <1>5, <3>1
  <2>2. CASE t = u
    <3>1. ~(Total(t) > 0)
      BY <1>9, <2>2 DEF CollectTenantResourceQuota, Mark
    <3>2. ASSUME NEW e \in EnvsOf(t) PROVE FALSE
      <4>1. PICK n \in Nat : Total(t) = env[e].need + n
        BY <1>1, TotalAny
      <4>2. env[e].need \in Nat \ {0}
        BY <1>1, Needs
      <4>3. QED
        BY <3>1, <4>1, <4>2
    <3>3. QED
      BY <1>4, <3>2 DEF Fits
  <2>3. QED
    BY <2>1, <2>2
<1>10. ASSUME NEW ok \in BOOLEAN, HandleTenantResourceQuota(ok) PROVE Fits(t)'
  <2> DEFINE u == tenWork.t
             owned == [trqSeen[u] EXCEPT !.owner = tenWork.copy.uid]
  <2>1. u \in Tenants
    BY <1>1, <1>10, TenantInHand DEF HandleTenantResourceQuota
  <2>2. \/ trq' = trq
        \/ trq[u] = NoQuota /\ \E x : trq' = [trq EXCEPT ![u] = x]
        \/ trq[u] # NoQuota /\ trqSeen[u] = trq[u] /\ trq' = [trq EXCEPT ![u] = owned]
    BY <1>10 DEF HandleTenantResourceQuota
  <2>3. trq[u] # NoQuota /\ trqSeen[u] = trq[u] => owned # NoQuota /\ owned.hard = trq[u].hard
    BY <1>1, <2>1 DEF TrqType, TenantResourceQuota, NoQuota
  <2> HIDE DEF u, owned
  <2>4. trq[t] # NoQuota => trq'[t] # NoQuota /\ trq'[t].hard = trq[t].hard
    BY <1>1, <2>1, <2>2, <2>3 DEF TrqType
  <2>5. QED
    BY <1>5, <2>4
<1>11. ASSUME NEW ok \in BOOLEAN, UpdateStatus(ok) PROVE Fits(t)'
  <2> DEFINE u == trqWork.t
             new == [trq[u] EXCEPT !.alloc = trqWork.sum]
  <2>1. u \in Tenants /\ trqWork.copy \in TenantResourceQuota
    BY <1>1, <1>11, QuotaInHand DEF UpdateStatus, Idle
  <2>2. trq' = trq \/ (trq[u] = trqWork.copy /\ trq' = [trq EXCEPT ![u] = new])
    BY <1>11 DEF UpdateStatus
  <2>3. trq[u] = trqWork.copy => new # NoQuota /\ new.hard = trq[u].hard
    BY <2>1 DEF TenantResourceQuota, NoQuota
  <2> HIDE DEF u, new
  <2>4. trq[t] # NoQuota => trq'[t] # NoQuota /\ trq'[t].hard = trq[t].hard
    BY <1>1, <2>1, <2>2, <2>3 DEF TrqType
  <2>5. QED
    BY <1>5, <2>4
<1>12. ASSUME \/ \E u \in Tenants : WatchTenantResourceQuota(u) \/ ReconcileTenantResourceQuota(u)
              \/ \E n \in Spaces : WatchResourceQuota(n)
              \/ Restart
       PROVE  UNCHANGED trq
  BY <1>12 DEF WatchTenantResourceQuota, ReconcileTenantResourceQuota, WatchResourceQuota, Restart, cluster
<1>13. QED
  BY <1>7, <1>8, <1>9, <1>10, <1>11, <1>12, TrqFrame DEF WorkQuotas

LEMMA FitStep ==
  ASSUME Typed, Typed', SumInv, LimitInv, EnvironmentsFit, Next
  PROVE  EnvironmentsFit'
<1>1. SUFFICES ASSUME NEW t \in Tenants, t \notin hasty' PROVE Fits(t)'
  BY DEF EnvironmentsFit, Fits
<1>2. EnvType /\ EnvType' /\ TrqType
  BY DEF Typed
<1>3. t \notin hasty
  BY <1>1, HastyGrows
<1>4. Fits(t)
  BY <1>3 DEF EnvironmentsFit, Fits
<1>5. ASSUME UNCHANGED trq,
             \A e \in Envs : \/ env'[e] = NoEnv
                             \/ env'[e] = env[e]
                             \/ env[e] # NoEnv /\ env'[e].need = env[e].need
      PROVE  Fits(t)'
  <2>1. EnvsOf(t)' \subseteq EnvsOf(t) /\ \A e \in EnvsOf(t)' : env'[e].need = env[e].need
    BY <1>5 DEF EnvsOf
  <2>2. QED
    BY <1>2, <1>4, <1>5, <2>1, FitsStill
<1>6. ASSUME NEW e \in Envs, NEW need \in Amounts, CreateEnvironment(e, need) \/ UpdateEnvironment(e, need)
      PROVE  Fits(t)'
  BY <1>1, <1>6, EditFits
<1>7. ASSUME NEW e \in Envs, DeleteEnvironment(e) PROVE Fits(t)'
  <2>1. UNCHANGED trq /\ env' = [env EXCEPT ![e] = NoEnv]
    BY <1>7 DEF DeleteEnvironment
  <2>2. QED
    BY <1>2, <1>5, <2>1 DEF EnvType
<1>8. ASSUME NEW e \in Envs, NEW ok \in BOOLEAN, NEW labels \in BOOLEAN, Limit(e, ok, labels) PROVE Fits(t)'
  <2>1. UNCHANGED trq
    BY <1>8 DEF Limit
  <2>2. env' = env \/ (env[e] # NoEnv /\ env' = [env EXCEPT ![e] = [env[e] EXCEPT !.label = labels]])
    BY <1>8 DEF Limit
  <2>3. env[e] # NoEnv => [env[e] EXCEPT !.label = labels].need = env[e].need
    BY <1>2 DEF EnvType, Env
  <2>4. \A f \in Envs : env'[f] = env[f] \/ (env[f] # NoEnv /\ env'[f].need = env[f].need)
    BY <1>2, <2>2, <2>3 DEF EnvType
  <2>5. QED
    BY <1>5, <2>1, <2>4
<1>9. ASSUME NEW ok \in BOOLEAN, DeleteAllOf(ok) PROVE Fits(t)'
  <2>1. UNCHANGED trq /\ \A e \in Envs : env'[e] = NoEnv \/ env'[e] = env[e]
    BY <1>9 DEF DeleteAllOf
  <2>2. QED
    BY <1>5, <2>1
<1>10. ASSUME Restart \/ \E n \in Spaces : Enforce(n) \/ WatchResourceQuota(n) \/ CollectResourceQuota(n)
       PROVE  UNCHANGED env
  BY <1>10 DEF Restart, Enforce, WatchResourceQuota, CollectResourceQuota, cluster
<1>11. CASE UNCHANGED env
  BY <1>1, <1>11, QuotaFits
<1>12. QED
  BY <1>6, <1>7, <1>8, <1>9, <1>10, <1>11, EnvFrame

LEMMA BooksStep == Inv /\ BooksInv /\ [Next]_vars => BooksInv'
<1> SUFFICES ASSUME Inv, BooksInv, [Next]_vars PROVE BooksInv'
  OBVIOUS
<1>1. Typed'
  BY TypedStep DEF BooksInv
<1>2. CASE Next
  BY <1>1, <1>2, SumStep, LimitStep, FitStep DEF BooksInv
<1>3. CASE UNCHANGED vars
  <2>1. UNCHANGED <<env, rq, rqSeen, trq, trqSeen, trqWork, trqQueue, untold, due, lost, hasty>>
    BY <1>3 DEF vars, cluster, seen, queues, work, history
  <2>2. SumInv'
    <3>1. \A t \in Tenants : Unseen(t)' = Unseen(t)
      BY <2>1 DEF Unseen
    <3>2. QED
      BY <2>1, <3>1, SumUnseen DEF BooksInv
  <2>3. LimitInv'
    BY <2>1 DEF BooksInv, LimitInv, Limited
  <2>4. EnvironmentsFit'
    <3>1. \A t \in Tenants : EnvsOf(t)' = EnvsOf(t) /\ \A e \in EnvsOf(t)' : env'[e].need = env[e].need
      BY <2>1 DEF EnvsOf
    <3>2. \A t \in Tenants \ hasty : Fits(t)'
      BY <1>1, <2>1, <3>1, FitsStill DEF BooksInv, Typed, EnvironmentsFit, Fits
    <3>3. QED
      BY <2>1, <3>2 DEF EnvironmentsFit, Fits
  <2>5. QED
    BY <1>1, <2>2, <2>3, <2>4 DEF BooksInv
<1>4. QED
  BY <1>2, <1>3

LEMMA InitBooks == Init => BooksInv
<1> SUFFICES ASSUME Init PROVE BooksInv
  OBVIOUS
<1>1. Typed
  BY InitTyped
<1>2. SumInv
  <2>1. SUFFICES ASSUME NEW t \in Tenants PROVE Sum(t) = 0 /\ trqSeen[t].alloc = 0 /\ trqWork = Idle
    BY DEF SumInv, SumOf
  <2>2. BooksOf(t) = {}
    BY DEF Init, BooksOf
  <2>3. Sum(t) = 0
    <3> DEFINE d == [n \in Spaces |-> rqSeen[n].status]
    <3>1. Sum(t) = Summed(d, BooksOf(t))
      BY SumIs
    <3> HIDE DEF d
    <3>2. Summed(d, {}) = 0
      BY FS_EmptySet, SummedFirst
    <3>3. QED
      BY <2>2, <3>1, <3>2
  <2>4. QED
    BY <2>3 DEF Init
<1>3. LimitInv
  BY DEF Init, LimitInv
<1>4. EnvironmentsFit
  BY DEF Init, EnvironmentsFit, EnvsOf
<1>5. QED
  BY <1>1, <1>2, <1>3, <1>4 DEF BooksInv

(* What a tenant's environments ask for is never more than its quota on    *)
(* the cluster, whatever order the webhook, the two controllers, the       *)
(* garbage collector and kubernetes act in, when each was admitted on      *)
(* books that were done and nobody has lowered the quota under them:       *)
(* v_environment.go:128, tenantresourcequota_controller.go:47-97, 129-138. *)
THEOREM QuotaSuffices == Spec => []EnvironmentsFit
<1>1. Init => BooksInv
  BY InitBooks
<1>2. Inv /\ BooksInv /\ [Next]_vars => BooksInv'
  BY BooksStep
<1>3. BooksInv => EnvironmentsFit
  BY DEF BooksInv
<1>4. QED
  BY <1>1, <1>2, <1>3, Invariant, PTL DEF Spec
===============================================================================
