# KubeGems: models, checks and proofs

KubeGems is a multi-cluster kubernetes platform: a central service with a web
api, agents in every cluster, and an edge subsystem that reaches clusters behind
NAT through tunnels they open themselves. This directory holds TLA+ models of its
concurrent core, the TLC runs that check them on small instances, and theorems
about them that TLAPS checks for every value of the constants.

Lines are given as `file:line` of the repository; the edge tunnel's files are in
`src/pkg/edge/tunnel/`.

## 1. Inventory

| part | state | operations | what is hard |
|---|---|---|---|
| edge tunnel: route table (`tunnelroutetable.go`, `tunnelserver.go`) | peer id -> tunnel and the peers behind it; the default tunnel; one RWMutex | Connect, OnChange (Refresh, Online, Offline, KeepAlive), Disconnect, advertise, SendKeepAlive, Select | a goroutine per tunnel and one per route packet; check and registration apart; change and advertisement apart; early returns with the lock held; recursive read lock |
| edge tunnel: connections (`tunnelconnmanager.go`, `tunnelconn.go`) | per neighbour a table local id -> connection, a bounded channel each | Open, accept, Read, Write, Close, recv, flush | goroutines started for Open and Close but not for Data; dial timeout against a late answer; ids of two ends; full channel; channel closed under a sender |
| edge tunnel: events (`event.go`) | watchers with bounded channels | Watch, notify | dropped events; snapshot against live events; a channel that is full before it is read |
| edge tunnel: transport (`tunnelservergrpc.go`) | none | ConnectUpstreamWithRetry, Connect | reconnect every 10 s, for ever, one at a time |
| edge server (`src/pkg/edge/server`) | stored clusters, hubs and certificates | OnTunnelConnectedStatusChange, SyncTunnelStatusFrom, PreCreate | order of events; stored clusters read from a cache and patched without a version |
| edge hub, edge agent (`src/pkg/edge/hub`, `agent`) | a route table each | forward, keepalive timer | three levels of tables that must agree |
| edge task controller (`src/pkg/edge/task`) | status of EdgeTask: stages, hash, applied resources | Reconcile, apply, remove | a generation reset between steps, deletion, clusters that come and go |
| plugin installer (`src/pkg/installer`) | Plugin status, helm releases | Install, UnInstall, Reconcile, Sync, dependency check | the status decides what the next reconcile does, and its write can be lost; order of dependencies; partial failure; helm's own state |
| workflow queue (`src/pkg/utils/workflow`, `src/pkg/worker`) | a stream and task records in redis | submit, consume, process, archive, cron | at-least-once delivery, requeue before acknowledgement, steps in order, a worker that is restarted or replaced |
| message bus (`src/pkg/msgbus`) | connected users and what they watch | register, deregister, dispatch | slices shared by the goroutines of websockets |
| kubernetes controllers and webhooks (`src/pkg/controller`) | custom resources | Reconcile of tenants, environments, quotas, gateways, virtual spaces; validation | stale copies, finalizers, the garbage collector, books of quotas that an admission relies on |
| model cache (`src/pkg/service/models/cache`) | tree of tenants, projects, environments in redis | upsert, delete, find parents | stale entries |
| service api (`src/pkg/service`) | a database | request handlers | a call to a cluster inside a transaction; the rest is crud and authorisation |
| application delivery (`src/pkg/apps`, `src/pkg/utils/git`, `argo`) | manifests in git | update, sync | concurrent commits |
| cluster agent apis (`src/pkg/agent`), model store (`src/pkg/model`) | none, a document store | proxying, crud | I/O |
| utilities (`src/pkg/utils`) | none | route matching, quota arithmetic | pure algorithms |

How the edge parts interact: an agent opens a tunnel to a hub and a hub one to the
edge server (ConnectUpstream: `SendRouteChange`, `IsDefaultOut`). The two ends
authenticate, check that the peer's id is free, exchange their tables once
(Refresh), and from then on the lower end reports changes (Online, Offline, and an
agent's KeepAlive). Requests go down: the server selects a tunnel for an agent's id
and opens a connection on it, which every hub forwards and the agent accepts.
Tables also emit the events from which the server derives the phase of a cluster.

How the rest interacts: the service writes a row and, before it commits, an object of
a member cluster (Environment, Tenant, TenantResourceQuota, Plugin). There a
controller works from the copies of its informers, owns what it creates, so that
kubernetes' garbage collector takes it when the owner is gone, and webhooks admit or
refuse what others write from the same stale copies.

What makes each of them correct:

- route table: routes lead to live tunnels; one owner per id; upstream servers
  know what is reachable; a lost tunnel is removed and its removal told;
- connections: payloads arrive in order, once, on the right connection; both ends
  let go of a closed connection;
- events and edge server: the stored phase follows the table;
- task controller: the status is true of what is on the clusters, and a task comes
  to rest;
- workflow: a task runs its steps in order and to an end, once per delivery;
- plugins: what is said to be installed is there, what was removed is not, and every
  plugin comes to rest;
- environments: the row and the object agree; an environment takes no other's
  namespace with it, and is bound, bounded and held in the end;
- tenant quotas: the quota on the cluster is the one recorded, what environments may
  use fits it, and the books follow what kubernetes enforces;
- message bus: a connected watcher hears every change; model cache: what it
  answers is what the database held at some time since the last invalidation.

## 2. Plan

Done: `RouteTable` with `TunnelDirectory`, `TunnelConn`, `EdgeTask` with `TaskLife`,
`EdgeStatus` on `TunnelDirectory`, `Workflow` with `TaskOrder`, `Plugin`,
`Environment`, `TenantQuota`; proofs of every safety and action property of them all,
and of their refinements. Next, in this order:

1. `Overlay`: three route tables composed with FIFO tunnels, as an agent, a hub and
   the server have them.
2. `MsgBus` and `ModelCache`: the switcher's tables under the goroutines of
   websockets, and the cache's invalidation against the database.
3. the route matcher and the installer's Diff as operators checked against reference
   definitions.
4. `VirtualSpace`: the other controllers, which share the shape of `Environment`.

## 3. Modules

| module | models |
|---|---|
| `RouteTable` | one server's table with the goroutines of its tunnels, of received route packets, and of the keepalive timer |
| `TunnelDirectory` | what a table promises: tunnels come up and go down once, ids are owned by the first to come up and released by any to go down |
| `MCRouteTable` | the instances of `RouteTable`: hub, hub with a retry, a pair of tunnels |
| `RouteTable_proofs` | the theorems about it, and that it implements `TunnelDirectory` |
| `TunnelConn` | the two ends of one tunnel, the connections dialled at one and accepted at the other |
| `TunnelConn_proofs` | the theorems about it |
| `EdgeTask` | the controller of one EdgeTask between the api server, its caches, and the edge clusters |
| `TaskLife` | what that controller promises of the clusters: they are touched only while the task is held |
| `MCEdgeTask` | the instances of `EdgeTask`: what users may write |
| `EdgeTask_proofs` | the theorems about it, and that it implements `TaskLife` |
| `EdgeStatus` | the server's tunnels, the events they emit, and the phase that the edge server stores |
| `MCEdgeStatus`, `EdgeStatus_proofs` | its instance and its theorems |
| `Workflow` | clients, the redis stream, and the workers that share it |
| `TaskOrder` | what the queue promises: functions take effect in the order of their lists |
| `MCWorkflow`, `Workflow_proofs` | its instance, its theorems, and that it implements `TaskOrder` |
| `Plugin` | the plugin installer: requests, controller, native and helm bundles |
| `MCPlugin`, `Plugin_proofs` | its instance and its theorems |
| `Environment` | rows and objects of environments, their controller, and the namespaces they bind |
| `MCEnvironment`, `Environment_proofs` | its instance and its theorems |
| `TenantQuota` | rows and objects of tenants' quotas, the two controllers, the webhooks, and what environments take of a quota |
| `MCTenantQuota`, `TenantQuota_proofs` | its instances and its theorems |

### RouteTable

| model | code |
|---|---|
| `records`, `defaultout` | `RouteTable.records`, `.defaultout` |
| `writer`, `readers` | `RouteTable.mu`: `writer` is set when `Lock` is called, which keeps new readers out, and the section runs when `readers` is empty |
| `pc`, `job`, `todo` | where a goroutine is in Connect, OnChange, Disconnect, advertise or SendKeepAlive; its `PacketDataRoute`; what its loop over the records has left |
| `out` | the route packets sent on a tunnel |
| `Authenticate`, `ExistsCheck`, `AdvertiseInit`, `Connect` | authStage, existsCheckStage, RouteExchange and Connect, each with its failure |
| `RecvRoute`, `StartWorker`, `RecvError` | localIn's `go OnChange` and the deferred Disconnect |
| `Lock`, `OnChange`, `OnChangeMissing`, `Disconnect`, `DisconnectMissing` | the critical sections; the `Missing` ones are the early returns (`:96`, `:145`, `:163`, `:176`) that leave `mu` locked, after which the goroutine is `"leaked"` and `writer` stays |
| `AdvertiseBegin`, `AdvertiseSend`, `AdvertiseEnd` | the loop over the records under the read lock, one packet at a time, in any order (Go ranges over maps in no fixed order) |
| `KeepAliveBegin`, `AdvertiseKeepalive`, `KeepAliveEnd` | SendKeepAlive with its nested read lock |

Inputs: every tunnel presents a fixed id; two tunnels may present the same id (a
peer that reconnects while the old stream has not failed yet). What a peer reports
is any subset of the peers that can be behind it; an upstream server reports none,
since the code that accepts a tunnel sets `SendRouteChange` to false. Annotations
and events are left out: neither decides what is stored or sent.

### TunnelConn

| model | code |
|---|---|
| `listed`, `autoinc`, `remote`, `ack`, `raw` | `Connections.connections`, `.autoinc`, and the fields of `TunnelConn`; a connection is named by its end and its local id, ids are never used twice |
| `pc`, `copying` | Open, the user of a dialled connection, accept and the two copies of accepted |
| `net` | packets under way; one FIFO each way, however many hubs forward: a receive loop forwards a packet before it receives the next |
| `accepting`, `closing` | goroutines started by localIn for Open and Close |
| `loop`, `hand` | the receive loop, which looks a connection up and then sends to its channel: a Close between the two is the action `Panic` |
| `DialerWrites`, `DialerReads`, `DialerCloses` | the user of a dialled connection, who may write until the connection is closed, also when it is done reading (`tunnelconn.go:114`) |
| `CopyIn`, `CopyOut`, `CopyingEnds` | the two copies of accepted; a failed write to the service's socket ends its copy as the end of the stream does (`tunnelconn.go:66-69`) |
| `Close` | removes from the table of its own end the connection whose local id is the *remote* id, as `close()` does |

The edge server dials and agents accept, so each end has one role. Payloads are
numbers; number 0 is the empty payload that acknowledges a connection. `Writers`
bounds at which ends anything is written. Left out: the Close with which a hub
answers a packet that it cannot forward (`tunnelserver.go:159-181`).

### EdgeTask

Files: `controller.go`, `helper.go`, `edge_clients.go` of `src/pkg/edge/task`, with
SyncDiff and ApplyResource of `src/pkg/installer/utils/apply.go` and the cached
client of `src/pkg/utils/kube/cache.go`.

| model | code |
|---|---|
| `task`, `cached` | the EdgeTask stored at the api server, and the controller's informer copy of it, which is an older version or the newest |
| `queued` | the task is in the workqueue (one key; a key added while it is processed is processed again) |
| `pc`, `obj`, `st`, `failed` | where the one worker is in Reconcile, the version it holds, the status it computes, and whether a stage returned an error |
| `todo`, `managed` | what is left of SyncDiff's loops, and the list it returns |
| `tunnel`, `phase` | whether a cluster can be reached, and the phase that its EdgeCluster shows |
| `edge`, `cache` | the resources on each cluster, and the cache of the client that EdgeClientsHolder keeps for it |
| `Reconcile`, `AddFinalizer`, `WriteStatus` | Reconcile from its read to the first write, the finalizer, and the status update whose error is dropped (`controller.go:98`) |
| `WriteCleaned`, `RemoveFinalizer` | the two writes of `remove` |
| `WaitForCluster`, `SyncOne`, `SyncEnd`, `CheckResources` | the stages of `apply`; SyncDiff is one step per resource: created, then changed, then removed |
| `FillCache`, `EdgeEvent` | the first read of a client starts an informer and waits for it; later events requeue the task |
| `ClusterPhase` | the phase follows the tunnel, and EdgeClusterTrigger requeues tasks that are not Running |
| `Edit`, `Delete`, `Newest` | the api server: generations, deletion with finalizers, refusal of an older resourceVersion (`obj = task` stands for an equal one) |
| `Lose`, `Regain`, `Register`, `Crash` | tunnels, registration, restarts of the controller |

Abstractions: a manifest says of every resource its content or Absent and stands for
its own hash; a resource is ready once it exists; the kinds of one cluster share a
cache; watches deliver the newest version, late. Left out: the wording of conditions,
events and the time of the stages, the annotation that makes the controller ignore a
resource, the overflow of the event queue, and a task that is created again under the
same name. The branch of SyncDiff that removes is modelled and never taken, for a new
generation has emptied the list that it goes by: the run `task_removal` shows what
that means for a task that is deleted.

### EdgeStatus

Files: `event.go` and `tunnelroutetable.go` of the tunnel, `clusters.go` and
`store_cluster.go` of `src/pkg/edge/server`.

| model | code |
|---|---|
| `status` | the tunnels, as a `TunnelDirectory` has them |
| `route`, `behind`, `telling` | the record of a peer, its children, and the change a goroutine has made and not yet told the watcher |
| `wedged`, `LoseLock` | the lock of the table, and an early return that keeps it |
| `Connect`, `Disconnect`, `Update`, `Tell` | the critical sections of `RouteTable`, each one step, and the event sent after it, dropped when the channel is full (`event.go:67`) |
| `RecvRoute`, `RecvKeepAlive` | reports of the other end, in an order of their own |
| `Watch`, `ReadPeers`, `SendInit` | Watch: registered first, then the snapshot, sent by a blocking send (`event.go:81-106`) |
| `Receive`, `OnTunnelConnectedStatusChange`, `WriteFails` | the loop of SyncTunnelStatusFrom: an event, the read of the cached object, the patch |
| `PreCreate`, `Delete`, `CatchUp`, `Restart` | requests of the API, the informer, a restart of the server |

One peer is followed, any of them (`peer`): what is stored of it depends on no other
peer's object. `doubted` is set where the code gives up on the stored phase: an event
dropped, a write that fails, a peer taken over by another tunnel or left out of a
Refresh untold, the API's patch from a stale copy, a lost lock, a restart. Without
one of these the stored phase is right at rest (`RestMeansTrue`), and a cluster that
keeps sending KeepAlive repairs all of them (`KeptAliveIsOnline`). A hub is never
repaired: its keepalives are skipped (`clusters.go:244-247`). Temporary connections
(`clusters.go:237-240`) are left out: no code of the repository marks a tunnel so.

### Workflow

Files: `client.go`, `server.go`, `backend.go`, `task.go` of `src/pkg/utils/workflow`
and `src/pkg/worker/task/task_archiver.go`.

| model | code |
|---|---|
| `store`, `SubmitPut`, `Remove` | the records under their keys: Put, Get, Del |
| `stream`, `read`, `pending` | the redis stream and the consumer group: entries added, handed out, and not acknowledged per consumer (hostname) |
| `sub`, `batch` | the loop of `RedisBackend.Sub`: read again what is pending, then new entries, a goroutine each (`Dispatch`), no more than `Concurrency` at a time |
| `go` | the goroutines: decode, walk the steps, call a function, write the record, publish again, acknowledge |
| `StartStep`, `Return`, `Finish`, `Requeue`, `Ack` | processone, process and consume, one redis call or function call per action |
| `Crash`, `Replace` | a container that restarts under its hostname, a pod that is replaced under a new one |

`Remove` takes any record, as the archiver does when it is older than five days,
whatever has become of its task. A record has one key: the two ways in which the code
joins it (`client.go:60`, `server.go:193`) agree for every group but the empty one,
and every task of the program has a group. Of the free goroutines `Dispatch` takes
one, since they are alike. The steps of a task with their substeps are numbered in the order of the walk, and
`End` gives the list a step is in. `again` counts entries read a second time, `lost`
marks tasks whose outcome or whose entry a failed call or a replaced pod lost.

### Environment

Files: `handler_resources.go`, `handler_project.go` and `environment/handler.go` of
the service's handlers, `environment_controller.go` and `v_namespace.go` of the
controller.

| model | code |
|---|---|
| `db`, `project`, `req` | rows with their ids, and where a request is: check, row written, call to the cluster, commit; a row is locked from the first write that hits it on |
| `PostProjectEnvironment`, `PutEnvironment`, `DeleteEnvironment`, `DeleteProject` | the requests; DeleteProject deletes the objects of the list it has read |
| `Save`, `Apply`, `DeleteObject`, `DeleteObjectOf`, `Commit` | their steps, each of which may fail |
| `cr`, `born`, `nss`, `quota` | the Environment objects, namespaces with their label and owner, ResourceQuotas |
| `seen`, `Watch`, `Resync`, `queue`, `work` | the informer and the worker |
| `Reconcile`, `Bind`, `Limit`, `Hold`, `Release`, `Unhold` | Reconcile: read, namespace, quota, finalizer and labels; on deletion the policy and the finalizer |
| `CollectNamespace`, `CollectQuota` | the garbage collector, asked through the namespace webhook |
| `Crash` | the controller restarts and lists again |

A deletion is of the id that the request has read (`handler.go:325`): when the row has
been deleted and created again meanwhile it hits none (`hits`), waits for nobody, and
deletes the object of the name all the same. A request for a row that is not there
changes nothing: the handler answers and goes on (`handler.go:313-315`), and a deletion
without an id is refused.

### Plugin

Files: `src/pkg/installer/controller`, `bundle/native`, `bundle/helm`,
`pluginmanager/plugin.go`, `utils/apply.go`.

| model | code |
|---|---|
| `obj`, `seen`, `known` | Plugin objects, their cached copies, and the cached config maps that others take values from |
| `live`, `release` | the resources of each plugin on the cluster; helm's newest record, what the deployed one was rendered from, and whether the newest has a forerunner |
| `Install`, `Disable`, `UnInstall` | requests of users |
| `Take` | Reconcile up to the first write or call: `BeginHold`, `BeginRemove`, `BeginApply` with dependencies and values |
| `AddFinalizer`, `RemoveFinalizer`, `WriteStatus` | the writes of Reconcile, refused for an older version |
| `SyncOne` | SyncDiff, one resource per step: created, changed, removed |
| `HelmStart` | ApplyChart: installs what has no release (`HelmInstall`), leaves one that is as wanted (`HelmLeaves`), and upgrades any other after removeHistories (`HelmUpgrade`), which deletes a record that is alone and not deployed, whereupon the upgrade fails (`HelmForgets`); helm refuses what is pending or has no deployed or failed record (`HelmRefuses`) |
| `HelmOne`, `HelmEnd` | helm writes what the new manifest names, then deletes what only the record it upgrades from names: the deployed one, or else the failed one; an install deletes nothing |
| `Uninstall` | RemoveChart in one step: deletes what the newest record names, which is nothing when there is none |
| `Crash` | the controller restarts, with a release left pending |

Two histories name the leftovers of which the code knows nothing; the safety
properties are about the other resources. `untold` has what a sync that failed made,
until one that succeeds sees to it, and what one touched whose status was never
written. `lost` has what helm made and has no record of: the record was deleted by
removeHistories, or superseded by one that was compared with an older one. A config map
that values are taken from and that is not there is an error (`controller.go:408-412`).
Kustomize and template bundles go the way of native ones. Left out: plugins that
contain plugins, namespaces created for an annotation, downloads and rendering,
CRDs, the ignore annotation, version requirements checked at a request.

### TenantQuota

Files: `tenant/tenant.go`, `tenant/validate.go` and `approve/handler.go` of the
service's handlers, `tenant_controller.go`, `tenantresourcequota_controller.go`,
`v_tenantresourcequota.go`, `v_environment.go` of the controller,
`utils/resourcequota`, `utils/statistics`.

| model | code |
|---|---|
| `row`, `key`, `req` | the stored quota of a tenant on the cluster, its primary key, and where each request is |
| `PostTenantTenantResourceQuota`, `PutTenantTenantResourceQuota`, `Pass`, `CreateTenantResourceQuotaApply`, `DeleteTenantResourceQuota` | the requests up to their transaction; an application saves the row as it read it |
| `Save`, `CreateOrUpdateTenant`, `CreateOrUpdateTenantResourceQuota`, `DeleteTenant`, `Commit` | the row, the two objects, the end of the transaction; each may fail, before or after its call has landed |
| `CheckOverSold`, `AllHard`, `OversoldRate` | the check of what all tenants have been given, with the names its parts use for a resource |
| `ten`, `trq`, `env`, `rq` | Tenant, TenantResourceQuota (hard and the books), Environment, ResourceQuota (hard and what is enforced) |
| `ReconcileTenant`, `HandleTenantResourceQuota`, `AddFinalizers`, `DeleteAllOf`, `RemoveFinalizers` | the tenant controller |
| `ReconcileTenantResourceQuota`, `UpdateStatus`, `Told` | the controller that adds up the books, and whom its handlers requeue |
| `CreateEnvironment`, `UpdateEnvironment`, `DeleteEnvironment` | what users do in the cluster, through the webhook |
| `Limit`, `Enforce` | the environment controller's ResourceQuota, and kubernetes' own controller that enforces it |
| `CollectTenantResourceQuota`, `CollectResourceQuota`, `Restart` | the garbage collector through the webhook, and a restart |

A deletion is of the key that the request has read (`tenant.go:1003-1014`): one of a
former row hits none (`hits`), waits for nobody who writes another, and deletes the
Tenant all the same. `Limit` ignores two errors, that of the ResourceQuota and that of
the environment's labels. `Cost` says what an operation takes of the bound `MaxOps`.

Amounts are of one resource; a status not yet written counts as zero; informers may
skip versions; an environment is deleted in one step (`Environment` has the many),
and a tenant's own status is left out. The histories name what the properties
exempt: `parted` (row and object parted by a failure after the call, by an
application saved over a newer row, by a deletion that had read a former row, or by
the remains of a tenant deleted before),
`hasty` (an admission before the books were done, or a quota lowered), `untold`
(books whose controller nobody told).

## 4. Runs

| run | question | bounds | states |
|---|---|---|---|
| `hub` | routes, ownership and the directory, at a hub with one upstream tunnel and two tunnels of one peer | 3 tunnels, 1 route packet | 2.4 M |
| `retry` | a lost tunnel is removed and its removal told, a route packet is carried out, across a reconnect | 3 tunnels, 1 route packet, keepalive rounds | 226 k |
| `conn_order` | order and holes of a stream; a closed connection is released at the other end | 1 connection, 3 payloads each way, channel of 1, tunnel may be lost | 938 k |
| `conn_pairs` | connections are told apart | 2 connections, 2 payloads written by each dialer, channel of 2 | 3.8 M |
| `task` | what the status says, across edits, stale copies and restarts; the life of a task; a task comes to rest | 1 cluster, 2 resources, 1 each of edits, failed calls, lost status writes, lost tunnels, restarts | 2.0 M |
| `task_removal` | disagreement: what a deleted task's status lists is removed | 1 cluster, 1 resource, nothing fails | (violated) |
| `edge_status` | the stored phase follows the table; a cluster that is kept alive becomes Online | a hub that reconnects, a cluster behind it, a channel of 2, 1 request, failed write or restart | 1.1 M |
| `workflow` | order of functions, repeated deliveries, and that a published task ends | 1 task of 4 steps in 2 levels, 2 workers, a failed redis call, a restart or replacement | 330 k |
| `environment` | row against object; whose namespace goes; an environment comes to rest | 1 environment, 2 namespaces, 3 requests, 1 failed call or crash | 1.2 M |
| `plugin` | what is said to be installed or removed; a plugin comes to rest | 2 plugins, native or helm, one depends on the other and reads its config map, 2 requests, 1 failed call or restart | 481 k |
| `quota` | the quota on the cluster against the row; what environments may use; the books come to be right | 1 tenant, 2 environments, 2 requests at a time: 2 operations of any kind or 3 that create or delete the quota, 1 failed call, lost answer or restart | 1.1 M |
| `oversold` | disagreement: the quotas of all tenants fit the cluster | 2 tenants, 1 request | (violated) |

Why the bounds are enough to be interesting: two tunnels with one id are what it
takes for a record to be taken away under a live tunnel; one route packet in flight
can be applied before, between and after their Disconnects, which is what loses
the lock; two upstream tunnels are a reconnect. Two connections are what it takes
for the ids of the ends to differ (accept goroutines overtake each other), and a
channel of one for a stream to lose a payload and go on. One edit is what it takes
for the worker to hold an older version at every one of its writes; a failed call and
a restart can fall between any two of them, and two resources are what it takes for
SyncDiff to do half of its work.

A capacity of two lets an event be dropped or a snapshot block; two requests at a
time are what it takes for one to write a row or an object between another's check
and its transaction, and three for an environment, or a quota, to be deleted, created
again and found by what is left of the first: a deletion that had read the former row
among them. One failure can fall at any call; a second would
add histories that the properties exempt alike, since their exemptions are per
task, peer, plugin or tenant and stay.

Deadlock is not checked where the system may stop: tunnels and connections end,
tasks end, users ask for nothing more; that goroutines, workers and controllers stop
when they should not is what the liveness properties are about.

Two runs show the code doing what a comment denies. `task_removal`: "remove the edge
resources" (`src/pkg/edge/task/controller.go:121`), once the cluster is online "if
managed resources not empty" (`:115`). The deletion mark of a task makes a new
generation, for which checkGenerationResetStatus (`:147`) empties the list of applied
resources before `remove` looks at it: there is nothing to wait for, nothing is
removed, and the task goes. `oversold`: "To check:
((Capacity * OversoldRate) - (AllTenantAllocated - CurrentTenantAllocated)) >
NewTenantAllocated" (`src/pkg/service/handlers/tenant/validate.go:52`). The quota is
of `limits.cpu`, the rates of `cpu` (`tenant.go:1907`), so `validate.go:63` finds no
rate and skips the resource; the webhook compares the same names with nodes, and
skips it too (`resourcequota.go:171`).

Other disagreements met while modelling. The models have these behaviours, and the
properties above name them as their exemptions:

- A KeepAlive applied after its peer's Disconnect leaves the table locked
  (`tunnelroutetable.go:145`), so that later Disconnects neither remove nor advertise
  anything (comment `:107`).
- A peer that leaves between an upstream tunnel's initial Refresh and its
  registration stays known upstream (`tunnelroutetable.go:310` and `:107`).
- `TunnelConn.close` looks under the remote id in a table keyed by local ids
  (`tunnelconn.go:129`), so Close does not "remove self from connection manager"
  (`:123`). Open leaves its pending connection behind when its packet cannot be sent
  (`tunnelconnmanager.go:145`).
- The stored hash of a task is of the resources and not of the cluster
  (`controller.go:245`): a task that is moved becomes Running on a cluster to which
  nothing was applied, against its condition Distributed (`task.go:91`).
- A queue entry is handled twice when a read fails while it is being handled
  (`backend.go:112`, `:133`); the failure to put a task back into the queue is
  ignored and loses it (`server.go:97`); the entries of a pod that is replaced are
  never read (`backend.go:121`).
- An environment whose edit is pending when it is deleted takes its former namespace
  with it, which it still owns (`environment_controller.go:162`); one created and
  deleted before its finalizer is stored does so whatever its policy; one with
  delLabels whose namespace is gone stays terminating for ever (`:296`). A namespace
  that one environment has owned and another binds later keeps its first owner
  (`:162-178` sets an owner only where there is none) and goes with it.
- A request whose object is gone but whose commit failed cannot be repeated: NotFound
  ends it (`environment/handler.go:349`, `handler_project.go:208`; the same holds of
  tenants' quotas, `tenant.go:1032`).
- A plugin whose status write was lost is skipped or left behind by the next
  reconcile, which trusts the status: changed and changed back (`native.go:63-69`),
  or enabled again and deleted (`installer/controller/controller.go:162`,
  `helm/apply.go:96`). A crash within a helm upgrade leaves a pending release, after
  which every later upgrade fails. Of a first install that fails or is interrupted
  removeHistories deletes the record (`helm-rls.go:124-125`): the attempt that follows
  fails, the next installs anew, and what only the first had made stays on the cluster,
  also when the plugin is disabled and removed then.
- Deletions of environments and quotas are of a row's id and of an object's name: one
  that had read a former row deletes no row and the object of the new one
  (`environment/handler.go:325`, `tenant.go:1011`).
- A tenant deleted and created again may find its former quota, which is owned by
  the former object (`controller_utils.go:43`) and collected after it was written. An
  application for a quota saves the row as it was read (`tenant.go:1399-1445`) and
  undoes a change made meanwhile. A quota may be lowered below what environments
  hold, and approving one checks nothing (`approve/handler.go:111`).

`OnlineTriggers` is stated for states before any lost status write. An error of the
status update that is not a conflict is dropped, so a task can stay Running in the
stored status for an older generation, and the trigger skips what is Running
(`helper.go:99`).

## 5. Fairness

`RouteTable!FairSpec`: weak fairness of every step a goroutine takes by itself, since
Go's scheduler runs what can run. A remote end may be silent for ever, so nothing is
assumed of Authenticate, Connect, RecvRoute and RecvError. Sends on a stream are
taken to return. Weak fairness of `Lock` is what RWMutex gives: a waiting writer
keeps new readers out.

`TunnelConn!FairSpec`: the same for both ends, with the receive loops (a stream
delivers or is lost), and the dial of accept, which has a timeout. The service behind
the acceptor may never speak nor hang up; the copy from its socket must end only
when the socket has been closed on this side.

`EdgeTask!FairSpec`: weak fairness of the watch of tasks, of the worker's steps (a
worker takes what is queued; calls return, with an answer or an error), of the
events of edge clusters, and of the phase that follows a tunnel. Users, tunnels,
registration and restarts owe nothing. `Settles` supposes that every cluster is
reachable and registered in the end: the worker waits for a cache without a timeout
(`cache.go:137`), so one cluster that stays away after it was seen Online would hold
it up. The ten-hourly resync of informers is not modelled, so nothing rests on it.

`EdgeStatus!FairSpec`: what has been changed is told, the watcher subscribes and its
loop applies what it receives (calls return), the informer catches up. For
`KeptAliveIsOnline` also that the keepalives of a tunnel that stays are received:
the other end sends them on a timer and one arrives after any other. Peers, requests
and restarts owe nothing.

`Workflow!FairSpec`: every worker goes on (its loop is restarted by `wait.Until` and
its goroutines return, `server.go:63-74`); a function returns within its timeout.
Clients, failures and restarts owe nothing.

`Environment!FairSpec`: informers deliver and resync (ten hours is not never), the
worker goes on, the garbage collector looks at every namespace. Reconcile of an
environment is strongly fair, since the workqueue is first in, first out: another
environment may keep the one worker busy, yet not for ever.

`Plugin!FairSpec`: informers deliver and every plugin has a worker; a helm call
returns. `TenantQuota!FairSpec`: the informers together go on and so do the
controllers, kubernetes' own included. Users and requests owe nothing, in
both.

## 6. Theorems

### Route table

All from the one assumption `RouteTableAssumption` about the constants: upstream
tunnels are tunnels, report no peers, and their servers' ids are not those of peers.

`RouteTable_proofs` strengthens the safety properties to the inductive invariant
`Inv == TypeOK /\ LockInv /\ JobInv /\ RecordInv /\ ConnectedIsRoutable /\
WedgedOnlyAfterDisconnect`. `LockInv` ties `writer` and `readers` to where the
goroutines are, `JobInv` says what a goroutine speaks for, and that a route
packet's goroutine outlives its tunnel's registration but never precedes it,
`RecordInv` that a record's tunnel is registered and presented the record's id.
Each conjunct has a lemma with one case per action.

- `TypeCorrect`, `RoutesLead`, `ConnectedRoutable`, `WedgeCause`: the invariants
  TypeOK, RouteToLiveTunnel, ConnectedIsRoutable, WedgedOnlyAfterDisconnect;
- `RoutesStable`: the action property RouteStable, from the two actions that write
  records.

Its second part adds `UpstreamInv`: one upstream tunnel is active at a time
(`OneUpstream`); the default tunnel is set before registration (`DefaultInv`); what a
loop still has to serve is registered and not the source of the change (`TodoInv`,
where the reader keeps every Disconnect out); what has been sent begins with a
Refresh (`SentInv`); no upstream id is in any children or packet (`NamesInv`).

- `DefaultFresh`, `FirstIsRefresh`, `NothingEchoed`: DefaultOutFresh, RefreshFirst, NoEcho;
- `LeftIsQuiet`: QuietAfterDisconnect;
- `DirectoryImplemented`: the refinement ImplementsDirectory. The initial states map
  to initial states, a tunnel's own OnChange to `Up`, both outcomes of its Disconnect
  to `Down`, everything else to a stutter.

### Connections

From `TunnelConnAssumption`: numbers, of any size. `TunnelConn_proofs` proves
`TypeCorrect`, `NothingCrosses`, `OrderIsKept`, `LeftoversEnd` and `GapsAreTold`:
TypeOK, NoCrossTalk, InOrder, LeftoverIsAwaited and GapIsTold.
None is inductive: they speak of what has been received, and a packet under way can
break them long before it arrives. `Inv` adds

- `OpenInv`: an Open is one packet, one goroutine or one accepted connection, so the
  accepting end gives out no more ids than were dialled (`AcceptRoom`, by counting);
- `IdInv`: accepted connections name different dialled ones, and a dialled connection
  names the one that names it; `PhaseInv`: what a connection may have by where its
  goroutine is;
- `Flow`, for each end: what has been received, what the loop holds in its hand and
  what is on its way was all written on the connection that names this one
  (`Genuine`), with numbers that grow in that order;
- `AckInv`: nothing reaches a listed connection ahead of its acknowledgement.

No step takes back what `Genuine` says (`Steady`). To the packets under way to an end
a step adds nothing new, but for an Open or one payload (`NetStep`); what is written
next has a greater number than anything of its connection before it (`Fresh`). A read
leaves what was received as it was (`Reading`), and so there is one lemma for each way
a payload moves: written, taken by the loop, delivered, or left in its place.

Two more invariants rest on these. `AwaitedInv`: as long as the tunnel is up, the
acceptor has the Open of every dialled connection, or what it opened for it, or has
sent its Close; so what Close leaves in the dialer's table is always removed by the
other end. `UnbrokenInv`: until a connection is told to close, what its peer has
received, what the loop holds, what is under way and what was written last for it are
one row of numbers without a hole. A payload is dropped only by a step that tells the
writer to close, which is the hypothesis of `Unbroken`.

### Edge task

From `EdgeTaskAssumption`: the contents, and the marks for an absent content, an
unparsable manifest and an empty cache, are told apart; specs name clusters and
manifests; bounds are numbers, of any size.

`EdgeTask_proofs` proves `Inv == TypeOK /\ VersionsOK /\ HoldInv /\ WorkInv`
inductive. RecordHonest alone is not: it says nothing of the versions in the cache and
in the worker's hand, from which the next status is computed. `VersionsOK` says of all
three versions that their status is of an older generation or true of the version
(`TrueOf`); `WorkInv` that the status being computed is true of the version in hand;
`HoldInv` that a deletion mark seen by the worker is in the cache, and that what it
applies exists and is held. `TrueOf` survives because resources on the clusters are
never removed (`StepGrows`), which in turn rests on `WorkInv`.

- `Invariance`, `TypeCorrect`: Inv and TypeOK;
- `RecordIsHonest`, `RunningOfSpec`: RecordHonest, RunningIsOfSpec;
- `UneditedIsThere`: UneditedRunningMeansThere, from `FirstInv`: in the first
  generation every version of the task has the same spec, the hash is stored when all
  of it has been applied, and until a resource fails SyncDiff has applied what is no
  longer in its list;
- `TriggersOnline`: the action property OnlineTriggers, from `OnlineInv`: a worker that
  was not called again holds the newest version the cache knows or has an error to
  report, so that a task at rest has the status of its current generation unless a
  status write was lost;
- `LifeImplemented`: the refinement ImplementsLife. The finalizer's addition is
  `Hold`, a call of SyncOne that reaches the cluster is `Write`, the task's end is
  `Go`, everything else a stutter.

### Edge status

From `EdgeStatusAssumption`. `EdgeStatus_proofs` proves `TypeCorrect`, and
`RestIsTrue`: RestMeansTrue. The inductive invariant is conditional, `~doubted =>
NewsAgree /\ NotOn /\ On`. `On`: while the watcher is served, either a change that
agrees with the table is still to be told, or what will be stored when the channel
and the event in the loop's hand have been applied agrees with it. `NotOn`: before
that nothing is applied, and what the snapshot has wrong is still to be told or in
the channel. `NewsAgree`: an addition not told yet is at odds with the table only
beside a removal not told yet. At rest nothing is under way, and the stored phase is
the table's.

### Workflow

From `ShapeAssumption` and `BoundAssumption`, for tasks of any depth and finitely many
workers and slots. `TypeCorrect`,
and `OrderImplemented`: the refinement ImplementsOrder. The invariant says of every
entry of the stream and every copy in a goroutine's hand that the functions it lists
as Success have succeeded, of a walk that what it has passed is Success or in a list
it has left, and of a record that it says Success only when all have: so a stale
copy can repeat a step and never runs ahead.

`CalledAtMostOnce` and `Final`: CalledOnce and the action property FinishedIsFinal.
`Load(t, s)` counts who may still call the function of step s of t: the client that
has not published it, unread entries, batches, goroutines. `LoadInv` says that calls
and load together are at most one more than `again`, `FinalInv` that a finished task
no entry of which was read again has no load: whoever wrote the outcome held the last
copy. `NoneMade` is what each step owes: only reading an entry again makes a copy.

### Plugins

From `PluginAssumption`. `TypeCorrect`, and `InstalledIsCorrect` and
`RemovedIsCorrect`: InstalledIsThere and RemovedIsGone. For every plugin the
invariant has three facts. `Kept`: what the status says is what is there, but for
`untold`, `lost` and what a reconcile has touched. `ReleaseHolds`: apart from `lost`,
what is there of a helm plugin is named by its newest or its deployed record, a newest
record that is deployed is all there is, and one that removeHistories would delete has
no deployed one beside it; so a removal that follows the newest record, and a change
that follows the deployed one, leave nothing that is not accounted for. `Doing`: while a
reconcile is at work, what it has touched is as it wants it, and what it has neither
touched nor left to do is as its copy of the status says (`SyncedNative`), or, while
helm works, not lost and as the new manifest says (`Helming`, `SyncedHelm`).

### Environments

From `EnvironmentAssumption`: the marks of a namespace that has no label or is not
there are no names of environments or namespaces; bounds are numbers. Any number of
environments, namespaces and requests.

- `TypeCorrect`: TypeOK, with `OpInv`: a request that edits or deletes has the row it
  was given, and one that deletes a project is never in the phase `applied`;
- `RowsStayAgreed`: RowsAgree. `RowInv` says that one transaction that has hit an
  environment's row holds it at a time (`LockInv`); that while one does, the object is as the
  transaction found it or has made it (`Fits`); and that row and object agree when
  none does. `WorkInv`, that only a copy that is being deleted is released, is what
  keeps the controller from removing an object that has a row;
- `OwnTaken`: the action property TakesItsOwn. `BoundInv` says that no namespace but
  the one last bound without a failure carries an environment's label, `OwnedInv` that
  a namespace with an owner has been labelled, `FreeInv` that what delLabels has freed
  stays free until the object goes. The property exempts what another environment has
  bound meanwhile; without the exemption it is false as soon as two environments bind
  one namespace in turn.

### Tenant quotas

From `TenantQuotaAssumption`: finitely many environments and namespaces, and bounds
that are numbers. Any number of tenants, requests and amounts.

- `HardRecorded`: HardIsRecorded. `Locks` says that one transaction that has hit a
  tenant's row (`Holds`) has it at a time, and `Agrees`, for every tenant that has not parted, that what is on
  the cluster is what the row says or what the transaction that has written it will
  commit, and that its tenant lives until a deletion is under way: this is what keeps
  the garbage collector off, the one step of a controller that could take a recorded
  quota. Of the objects only their shape is needed (`Objects`);
- `TypeCorrect`: TypeOK, one lemma for each group of variables, after what each group
  is changed by (`TenFrame`, `TrqFrame`, `EnvFrame`);
- `QuotaSuffices`: EnvironmentsFit. An admission compares with the webhook's copy of
  the books, so the invariant has to follow them back to the environments. `SumInv`:
  the books of a tenant that nobody is to do again hold the sum of its ResourceQuotas,
  or are about to be written, or have changed unseen. `LimitInv`: an environment with
  nothing left to be done for it has its ResourceQuota with its amount, and no two
  share a namespace. Together, books that are done (`Booked`) hold at least what the
  environments ask for (`BooksSuffice`), and the admission's comparison does the rest.

Both sums are folds, about which the provers know nothing, and the library's
induction theorems cannot be used. `Summed(f, S)` is the value at `S` of a function on
the subsets of `S`, and what is to hold of all of them is shown by taking a least
subset where it fails (`Least`, from the well-foundedness of strict inclusion, which is
stated of a set): that any element may be taken out first (`SummedAny`), that sums of
equal terms are equal (`SummedAlike`), and that a sum with an injection into another
with larger terms is no larger (`SummedNoMore`: environments into namespaces).
`TotalIs` and `SumIs` connect the model's operators with it.

### What is only model-checked

Liveness, since the prover has no rule for fairness or ENABLED: FinishesOrStuck,
CloseReleasesPeer, Settles of `EdgeTask`, `Workflow`, `Environment`, `Plugin` and
`TenantQuota`, and KeptAliveIsOnline. Every invariant, action property and refinement
that a passing run checks is also a theorem. RoutesStable, DefaultFresh, FirstIsRefresh,
LeftIsQuiet and RunningOfSpec are proved and no run repeats them. Some cases are left to
the theorems: a task that moves between clusters (the run has one), two connections
that are written to at both ends, several environments and several tenants at a time.

## 7. Not modelled

Certificates, tokens and TLS; the bytes of payloads and annotations; the reconnect
of a tunnel under live connections (a tunnel in `TunnelConn` lives once); an end that
both dials and accepts; data races on Go maps (`ConnectionManager.tunnels`, and the
annotations that OnTunnelConnectedStatusChange writes while PacketEncode reads them),
which end the process; the cancelling of a Watch, which nobody does; the Close that
answers a packet which cannot be forwarded; temporary connections.

Of the queue: tasks submitted by cron under a redis lock, and the in-memory backend.
Of environments: changes of their names, service accounts, network policies; a
namespace terminates in one step. Of tenants: gateways, network policies and virtual
spaces. Of the service most handlers: they read or write one row. The api's generated
documentation (`src/docs/swagger`) is a third of the code and has no behaviour.
Components without a module are listed in `PROJECT.json` with the reason or the plan.
