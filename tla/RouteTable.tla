------------------------------ MODULE RouteTable ------------------------------
(***************************************************************************)
(* The route table of one TunnelServer (an edge agent, an edge hub or the  *)
(* edge server) and the goroutines that work on it: one goroutine per      *)
(* connected tunnel (TunnelServer.Connect), one goroutine per received     *)
(* route packet (localIn starts it and does not wait) and the keepalive    *)
(* timer of an agent.                                                      *)
(*                                                                         *)
(* The table is guarded by a sync.RWMutex.  Every handler changes the      *)
(* table in one critical section and tells the upstream tunnels about the  *)
(* change in a second one, so the two may be far apart.  Three early       *)
(* returns leave the first section without releasing the lock; the model   *)
(* keeps them.                                                             *)
(*                                                                         *)
(* Annotations are left out: they never decide what is stored or sent.     *)
(***************************************************************************)
EXTENDS Naturals, Sequences

CONSTANTS
  Streams,      \* tunnels ever offered to this server; a reconnect is a new one
  Upstream,     \* those opened by ConnectUpstream: SendRouteChange, IsDefaultOut
  Workers,      \* goroutines that may run a received route update
  Ticker,       \* the goroutine of RunKeepAliveRouter
  Peers,        \* peer ids
  RemoteID,     \* the id the other end of a tunnel presents in its handshake
  Behind,       \* the peers the other end of a tunnel can have behind it
  MaxUpdates,   \* bound: route updates received over all tunnels
  MaxTicks,     \* bound: keepalive rounds
  None          \* Go's nil

Procs == Streams \cup Workers \cup {Ticker}

\* A tunnel opened upstream never reports peers: the server that accepted it
\* did so with SendRouteChange = false, so the ids of upstream servers are not
\* known to anybody downstream.
ASSUME RouteTableAssumption ==
  /\ Upstream \subseteq Streams
  /\ RemoteID \in [Streams -> Peers]
  /\ Behind \in [Streams -> SUBSET Peers]
  /\ \A u \in Upstream : Behind[u] = {}
  /\ \A u \in Upstream, s \in Streams : RemoteID[u] \notin Behind[s]
  /\ \A u \in Upstream, s \in Streams \ Upstream : RemoteID[u] # RemoteID[s]
  /\ Streams \cap Workers = {}
  /\ Ticker \notin Streams \cup Workers
  /\ None \notin Procs \cup Peers
  /\ MaxUpdates \in Nat
  /\ MaxTicks \in Nat

VARIABLES
  records,      \* RouteTable.records; chan = None means no entry
  defaultout,   \* RouteTable.defaultout
  writer,       \* the goroutine inside mu.Lock: draining readers, or holding
  readers,      \* the goroutines holding mu.RLock
  pc,           \* where each goroutine is
  job,          \* its PacketDataRoute: first received, then to be advertised
  todo,         \* upstream tunnels its loop over the records has still to serve
  out,          \* the route packets sent on each tunnel, oldest first
  updates,      \* route updates received so far
  ticks         \* keepalive rounds so far

vars == <<records, defaultout, writer, readers, pc, job, todo, out, updates, ticks>>

-----------------------------------------------------------------------------
UpdateKinds == {"KeepAlive", "Online", "Offline"}
Kinds       == UpdateKinds \cup {"Refresh"}

RoutePacket == [kind : Kinds, peers : SUBSET Peers]
Record      == [chan : Streams \cup {None}, children : SUBSET Peers]
Job         == [from : Streams \cup {None}, kind : Kinds, peers : SUBSET Peers]

NoRecord == [chan |-> None, children |-> {}]
NoJob    == [from |-> None, kind |-> "Refresh", peers |-> {}]

\* The packet a peer opens its side of the route exchange with.
Refresh(s, peers) == [from |-> s, kind |-> "Refresh", peers |-> peers]

\* A tunnel's goroutine always speaks for its tunnel, the others for nobody yet.
JobAtRest(p) == IF p \in Streams THEN Refresh(p, {}) ELSE NoJob

\* Where the goroutines of tunnels, of route updates and of the timer can be.
StreamPCs == {"idle", "exists", "exchange", "await", "failed", "lock", "adv",
              "send", "loop", "dlock", "dadv", "dsend", "closed", "leaked"}
WorkerPCs == {"idle", "spawned", "lock", "adv", "send", "leaked"}
TickerPCs == {"idle", "keepalive"}

\* Between the OnChange that registers a tunnel and the critical section of its
\* Disconnect the tunnel is registered; after that it has left.
Registered(s) == pc[s] \in {"adv", "send", "loop", "dlock"}
Left(s)       == pc[s] \in {"dadv", "dsend", "closed", "leaked"}

Exists(id) == records[id].chan # None

\* records other than the excluded one, and everything behind them
AllReachablePeers(exclude) ==
  LET known == {p \in Peers \ {exclude} : Exists(p)}
  IN  known \cup UNION {records[p].children : p \in known}

\* The tunnels Select may return: the map is ranged over in no fixed order.
Select(dest) ==
  LET owners == {p \in Peers : Exists(p) /\ dest \in records[p].children}
  IN  IF Exists(dest) THEN {records[dest].chan}
      ELSE IF owners # {} THEN {records[p].chan : p \in owners}
      ELSE {defaultout} \ {None}

\* Mutant: the source of a change is not left out.
UpstreamChannelsAll(exclude) == {records[p].chan : p \in Peers} \cap Upstream

\* The upstream tunnels of the table, without those of the excluded ids.
UpstreamChannels(exclude) ==
  {records[p].chan : p \in Peers \ exclude} \cap Upstream

Send(s, kind, peers) ==
  out' = [out EXCEPT ![s] = Append(@, [kind |-> kind, peers |-> peers])]

\* sync.RWMutex: a goroutine that has called Lock keeps new readers out even
\* while it still waits for the present ones.
CanRLock == writer = None
Holds(p) == writer = p /\ readers = {}
-----------------------------------------------------------------------------
Init ==
  /\ records = [p \in Peers |-> NoRecord]
  /\ defaultout = None
  /\ writer = None
  /\ readers = {}
  /\ pc = [p \in Procs |-> "idle"]
  /\ job = [p \in Procs |-> JobAtRest(p)]
  /\ todo = [p \in Procs |-> {}]
  /\ out = [s \in Streams |-> <<>>]
  /\ updates = 0
  /\ ticks = 0

-----------------------------------------------------------------------------
(* TunnelServer.Connect, one goroutine per tunnel                           *)

\* authStage.  ConnectUpstreamWithRetry opens an upstream tunnel only after the
\* previous call of Connect has returned.
Authenticate(s) ==
  /\ pc[s] = "idle"
  /\ s \in Upstream =>
       \A u \in Upstream \ {s} : pc[u] \in {"idle", "failed", "closed", "leaked"}
  /\ \E result \in {"exists", "failed"} : pc' = [pc EXCEPT ![s] = result]
  /\ UNCHANGED <<records, defaultout, writer, readers, job, todo, out, updates, ticks>>

\* existsCheckStage: the answer is used long after the read lock is released.
ExistsCheck(s) ==
  /\ pc[s] = "exists"
  /\ CanRLock
  /\ pc' = [pc EXCEPT ![s] = IF Exists(RemoteID[s]) THEN "failed" ELSE "exchange"]
  /\ UNCHANGED <<records, defaultout, writer, readers, job, todo, out, updates, ticks>>

\* Mutant: an empty table is not worth a packet.
AdvertiseInitUnlessEmpty(s) ==
  /\ pc[s] = "exchange"
  /\ s \in Upstream => CanRLock
  /\ IF s \in Upstream /\ AllReachablePeers(RemoteID[s]) # {}
     THEN Send(s, "Refresh", AllReachablePeers(RemoteID[s])) ELSE UNCHANGED out
  /\ pc' = [pc EXCEPT ![s] = "await"]
  /\ UNCHANGED <<records, defaultout, writer, readers, job, todo, updates, ticks>>

\* RouteExchange up to its Recv: advertiseInit sends what is reachable now, and
\* only upstream.
AdvertiseInit(s) ==
  /\ pc[s] = "exchange"
  /\ s \in Upstream => CanRLock
  /\ Send(s, "Refresh", IF s \in Upstream THEN AllReachablePeers(RemoteID[s]) ELSE {})
  /\ pc' = [pc EXCEPT ![s] = "await"]
  /\ UNCHANGED <<records, defaultout, writer, readers, job, todo, updates, ticks>>

ExchangeFails(s) ==
  /\ pc[s] \in {"exchange", "await"}
  /\ pc' = [pc EXCEPT ![s] = "failed"]
  /\ UNCHANGED <<records, defaultout, writer, readers, job, todo, out, updates, ticks>>

\* Mutant: the first upstream tunnel stays the default one.
DefaultOutKept(s) == IF s \in Upstream /\ defaultout = None THEN s ELSE defaultout

DefaultOutAfter(s) == IF s \in Upstream THEN s ELSE defaultout

\* The peer's own Refresh arrives; RouteTable.Connect sets the default tunnel
\* without the lock and goes on to OnChange.
Connect(s) ==
  /\ pc[s] = "await"
  /\ \E peers \in SUBSET Behind[s] : job' = [job EXCEPT ![s] = Refresh(s, peers)]
  /\ defaultout' = DefaultOutAfter(s)
  /\ pc' = [pc EXCEPT ![s] = "lock"]
  /\ UNCHANGED <<records, writer, readers, todo, out, updates, ticks>>

\* Mutant: route updates are taken while the tunnel is still being registered.
RecvRouteEarly(s, w) ==
  /\ pc[s] \in {"lock", "adv", "send", "loop"}
  /\ s \notin Upstream
  /\ pc[w] = "idle"
  /\ updates < MaxUpdates
  /\ \E kind \in UpdateKinds, peers \in SUBSET Behind[s] :
       job' = [job EXCEPT ![w] = [from |-> s, kind |-> kind, peers |-> peers]]
  /\ updates' = updates + 1
  /\ pc' = [pc EXCEPT ![w] = "spawned"]
  /\ UNCHANGED <<records, defaultout, writer, readers, todo, out, ticks>>

\* The loop of Connect: localIn hands a route update to a new goroutine.
RecvRoute(s, w) ==
  /\ pc[s] = "loop"
  /\ s \notin Upstream
  /\ pc[w] = "idle"
  /\ updates < MaxUpdates
  /\ \E kind \in UpdateKinds, peers \in SUBSET Behind[s] :
       /\ kind # "KeepAlive" => peers # {}
       /\ job' = [job EXCEPT ![w] = [from |-> s, kind |-> kind, peers |-> peers]]
  /\ updates' = updates + 1
  /\ pc' = [pc EXCEPT ![w] = "spawned"]
  /\ UNCHANGED <<records, defaultout, writer, readers, todo, out, ticks>>

\* The goroutine of a route update reaches OnChange's mu.Lock.
StartWorker(w) ==
  /\ pc[w] = "spawned"
  /\ pc' = [pc EXCEPT ![w] = "lock"]
  /\ UNCHANGED <<records, defaultout, writer, readers, job, todo, out, updates, ticks>>

\* Recv fails: the deferred Disconnect runs and calls mu.Lock.
RecvError(s) ==
  /\ pc[s] = "loop"
  /\ pc' = [pc EXCEPT ![s] = "dlock"]
  /\ UNCHANGED <<records, defaultout, writer, readers, job, todo, out, updates, ticks>>

Lock(p) ==
  /\ pc[p] \in {"lock", "dlock"}
  /\ writer = None
  /\ writer' = p
  /\ UNCHANGED <<records, defaultout, readers, pc, job, todo, out, updates, ticks>>
-----------------------------------------------------------------------------
(* RouteTable.OnChange                                                      *)

\* Mutant: a second tunnel takes the record over.
UpdatedTakesOver(rec, j) ==
  [chan |-> j.from, children |-> IF j.kind = "Refresh" THEN j.peers ELSE rec.children]

\* Mutant: a tunnel with nothing behind it is not recorded.
UpdatedIfPeers(rec, j) ==
  [chan     |-> IF rec.chan = None /\ j.peers # {} THEN j.from ELSE rec.chan,
   children |-> j.peers]

\* The record an update leaves behind.  An update of an existing record never
\* replaces its channel.
Updated(rec, j) ==
  [chan     |-> IF rec.chan = None THEN j.from ELSE rec.chan,
   children |-> CASE j.kind = "Refresh" -> j.peers
                  [] j.kind = "Offline" -> rec.children \ j.peers
                  [] OTHER              -> rec.children \cup j.peers]

\* changeddata: a Refresh is announced as Online, and Refresh and KeepAlive
\* speak for the sender as well.
Changed(j) ==
  [from  |-> j.from,
   kind  |-> IF j.kind = "Refresh" THEN "Online" ELSE j.kind,
   peers |-> IF j.kind \in {"Refresh", "KeepAlive"}
             THEN j.peers \cup {RemoteID[j.from]} ELSE j.peers]

OnChange(p) ==
  /\ pc[p] = "lock"
  /\ Holds(p)
  /\ LET id == RemoteID[job[p].from]
     IN  /\ job[p].kind # "Refresh" => Exists(id)
         /\ records' = [records EXCEPT ![id] = Updated(@, job[p])]
  /\ job' = [job EXCEPT ![p] = Changed(job[p])]
  /\ writer' = None
  /\ pc' = [pc EXCEPT ![p] = "adv"]
  /\ UNCHANGED <<defaultout, readers, todo, out, updates, ticks>>

\* The record is gone: OnChange returns and mu stays locked.
OnChangeMissing(p) ==
  /\ pc[p] = "lock"
  /\ Holds(p)
  /\ job[p].kind # "Refresh"
  /\ ~Exists(RemoteID[job[p].from])
  /\ pc' = [pc EXCEPT ![p] = "leaked"]
  /\ UNCHANGED <<records, defaultout, writer, readers, job, todo, out, updates, ticks>>
-----------------------------------------------------------------------------
(* RouteTable.Disconnect                                                    *)

\* The Offline that Disconnect announces: the peer and everything behind it.
Removed(s) ==
  [from  |-> s, kind |-> "Offline",
   peers |-> records[RemoteID[s]].children \cup {RemoteID[s]}]

\* Mutant: the record stays in the table.
DisconnectKeepsRecord(s) ==
  /\ pc[s] = "dlock"
  /\ Holds(s)
  /\ Exists(RemoteID[s])
  /\ job' = [job EXCEPT ![s] = Removed(s)]
  /\ writer' = None
  /\ pc' = [pc EXCEPT ![s] = "dadv"]
  /\ UNCHANGED <<records, defaultout, readers, todo, out, updates, ticks>>

\* Mutant: a tunnel removes the record only when it is its own.
DisconnectOwn(s) ==
  /\ pc[s] = "dlock"
  /\ Holds(s)
  /\ Exists(RemoteID[s])
  /\ job' = [job EXCEPT ![s] = Removed(s)]
  /\ records' = IF records[RemoteID[s]].chan = s
                THEN [records EXCEPT ![RemoteID[s]] = NoRecord] ELSE records
  /\ writer' = None
  /\ pc' = [pc EXCEPT ![s] = "dadv"]
  /\ UNCHANGED <<defaultout, readers, todo, out, updates, ticks>>

Disconnect(s) ==
  /\ pc[s] = "dlock"
  /\ Holds(s)
  /\ Exists(RemoteID[s])
  /\ job' = [job EXCEPT ![s] = Removed(s)]
  /\ records' = [records EXCEPT ![RemoteID[s]] = NoRecord]
  /\ writer' = None
  /\ pc' = [pc EXCEPT ![s] = "dadv"]
  /\ UNCHANGED <<defaultout, readers, todo, out, updates, ticks>>

\* Another tunnel with the same id has removed the record: the deferred call
\* returns and mu stays locked.
DisconnectMissing(s) ==
  /\ pc[s] = "dlock"
  /\ Holds(s)
  /\ ~Exists(RemoteID[s])
  /\ pc' = [pc EXCEPT ![s] = "leaked"]
  /\ UNCHANGED <<records, defaultout, writer, readers, job, todo, out, updates, ticks>>
-----------------------------------------------------------------------------
(* RouteTable.advertise: a second critical section, under the read lock     *)

\* Mutant: the tunnels are collected under the lock and served without it.
AdvertiseUnlocked(p) ==
  /\ pc[p] \in {"adv", "dadv"}
  /\ CanRLock
  /\ todo' = [todo EXCEPT ![p] = UpstreamChannels({RemoteID[job[p].from]})]
  /\ pc' = [pc EXCEPT ![p] = IF @ = "adv" THEN "send" ELSE "dsend"]
  /\ UNCHANGED <<records, defaultout, writer, readers, job, out, updates, ticks>>

AdvertiseBegin(p) ==
  /\ pc[p] \in {"adv", "dadv"}
  /\ CanRLock
  /\ readers' = readers \cup {p}
  /\ todo' = [todo EXCEPT ![p] = UpstreamChannels({RemoteID[job[p].from]})]
  /\ pc' = [pc EXCEPT ![p] = IF @ = "adv" THEN "send" ELSE "dsend"]
  /\ UNCHANGED <<records, defaultout, writer, job, out, updates, ticks>>

AdvertiseSend(p) ==
  /\ pc[p] \in {"send", "dsend"}
  /\ \E s \in todo[p] :
       /\ Send(s, job[p].kind, job[p].peers)
       /\ todo' = [todo EXCEPT ![p] = @ \ {s}]
  /\ UNCHANGED <<records, defaultout, writer, readers, pc, job, updates, ticks>>

\* Mutant: the goroutine of a route update goes on to receive.
AfterAdvertiseLoop(p) == IF pc[p] = "send" THEN "loop" ELSE "closed"

\* Where a goroutine goes after an advertisement.
AfterAdvertise(p) ==
  CASE p \in Workers                    -> "idle"
    [] p \notin Workers /\ pc[p] = "send" -> "loop"
    [] OTHER                            -> "closed"

\* Mutant: RUnlock is forgotten.
AdvertiseNoUnlock(p) ==
  /\ pc[p] \in {"send", "dsend"}
  /\ todo[p] = {}
  /\ pc' = [pc EXCEPT ![p] = AfterAdvertise(p)]
  /\ job' = [job EXCEPT ![p] = JobAtRest(p)]
  /\ UNCHANGED <<records, defaultout, writer, readers, todo, out, updates, ticks>>

\* RUnlock.  A tunnel goes on to its receive loop or returns from Connect; a
\* route update's goroutine ends.
AdvertiseEnd(p) ==
  /\ pc[p] \in {"send", "dsend"}
  /\ todo[p] = {}
  /\ readers' = readers \ {p}
  /\ pc' = [pc EXCEPT ![p] = AfterAdvertise(p)]
  /\ job' = [job EXCEPT ![p] = JobAtRest(p)]
  /\ UNCHANGED <<records, defaultout, writer, todo, out, updates, ticks>>
-----------------------------------------------------------------------------
(* RouteTable.SendKeepAlive, run by an agent's timer                        *)

KeepAliveBegin ==
  /\ pc[Ticker] = "idle"
  /\ ticks < MaxTicks
  /\ CanRLock
  /\ readers' = readers \cup {Ticker}
  /\ todo' = [todo EXCEPT ![Ticker] = UpstreamChannels({})]
  /\ ticks' = ticks + 1
  /\ pc' = [pc EXCEPT ![Ticker] = "keepalive"]
  /\ UNCHANGED <<records, defaultout, writer, job, out, updates>>

\* advertiseKeepalive read-locks again inside SendKeepAlive's read lock, so it
\* waits for a writer that waits for SendKeepAlive.
AdvertiseKeepalive ==
  /\ pc[Ticker] = "keepalive"
  /\ CanRLock
  /\ \E s \in todo[Ticker] :
       /\ Send(s, "KeepAlive", AllReachablePeers(RemoteID[s]))
       /\ todo' = [todo EXCEPT ![Ticker] = @ \ {s}]
  /\ UNCHANGED <<records, defaultout, writer, readers, pc, job, updates, ticks>>

KeepAliveEnd ==
  /\ pc[Ticker] = "keepalive"
  /\ todo[Ticker] = {}
  /\ readers' = readers \ {Ticker}
  /\ pc' = [pc EXCEPT ![Ticker] = "idle"]
  /\ UNCHANGED <<records, defaultout, writer, job, todo, out, updates, ticks>>
-----------------------------------------------------------------------------
StreamStep(s) ==
  \/ Authenticate(s) \/ ExistsCheck(s) \/ AdvertiseInit(s) \/ ExchangeFails(s)
  \/ Connect(s) \/ RecvError(s) \/ Disconnect(s) \/ DisconnectMissing(s)

\* The steps of a goroutine that carries a route change.
ChangeStep(p) ==
  \/ Lock(p) \/ OnChange(p) \/ OnChangeMissing(p)
  \/ AdvertiseBegin(p) \/ AdvertiseSend(p) \/ AdvertiseEnd(p)

KeepAliveStep == KeepAliveBegin \/ AdvertiseKeepalive \/ KeepAliveEnd

Next ==
  \/ \E s \in Streams : StreamStep(s)
  \/ \E s \in Streams, w \in Workers : RecvRoute(s, w)
  \/ \E w \in Workers : StartWorker(w)
  \/ \E p \in Streams \cup Workers : ChangeStep(p)
  \/ KeepAliveStep

Spec == Init /\ [][Next]_vars

\* Go's scheduler runs every goroutine that can run.  Nothing is assumed about
\* the remote ends: they may stay silent for ever.
Fairness ==
  /\ \A p \in Streams \cup Workers : WF_vars(ChangeStep(p))
  /\ \A s \in Streams :
       /\ WF_vars(ExistsCheck(s) \/ AdvertiseInit(s))
       /\ WF_vars(Disconnect(s) \/ DisconnectMissing(s))
  /\ \A w \in Workers : WF_vars(StartWorker(w))
  /\ WF_vars(AdvertiseKeepalive \/ KeepAliveEnd)

FairSpec == Spec /\ Fairness
-----------------------------------------------------------------------------
(* Properties                                                               *)

TypeOK ==
  /\ records \in [Peers -> Record]
  /\ defaultout \in Streams \cup {None}
  /\ writer \in Procs \cup {None}
  /\ readers \in SUBSET Procs
  /\ pc \in [Procs -> StreamPCs \cup WorkerPCs \cup TickerPCs]
  /\ \A s \in Streams : pc[s] \in StreamPCs
  /\ \A w \in Workers : pc[w] \in WorkerPCs
  /\ pc[Ticker] \in TickerPCs
  /\ job \in [Procs -> Job]
  /\ todo \in [Procs -> SUBSET Streams]
  /\ out \in [Streams -> Seq(RoutePacket)]
  /\ updates \in 0 .. MaxUpdates
  /\ ticks \in 0 .. MaxTicks

\* A destination the table knows is only ever routed to a tunnel whose goroutine
\* has registered it and not yet run its Disconnect, whatever route updates are
\* still to be applied and however many tunnels share an id (Select after
\* OnChange and Disconnect).
RouteToLiveTunnel ==
  \A dest \in AllReachablePeers(None) : \A s \in Select(dest) : Registered(s)

\* While an upstream tunnel is registered, packets without a route leave by it
\* and not by a tunnel of an earlier connection, although defaultout is written
\* without the lock and Disconnect never clears it (RouteTable.Connect).
DefaultOutFresh ==
  \A u \in Upstream : Registered(u) => defaultout = u

\* A registered tunnel can be reached under its id unless another tunnel that
\* presented the same id has run its Disconnect (OnChange and Disconnect look
\* records up by id, not by tunnel).
ConnectedIsRoutable ==
  \A s \in Streams :
    Registered(s) =>
      \/ Exists(RemoteID[s])
      \/ \E t \in Streams \ {s} : RemoteID[t] = RemoteID[s] /\ Left(t)

\* mu is left locked for ever only when a goroutine speaks for a peer whose
\* tunnel, or another with the same id, has run Disconnect (the early returns of
\* OnChange and Disconnect): without such an earlier step no lock is lost.
Wedged == writer # None /\ pc[writer] = "leaked"

WedgedOnlyAfterDisconnect ==
  Wedged =>
    \E t \in Streams \ {writer} :
      /\ RemoteID[t] = RemoteID[job[writer].from]
      /\ pc[t] \in {"dadv", "dsend", "closed"}

\* The first route packet on every tunnel is the Refresh of the route exchange
\* and no other is: RouteExchange takes the first packet for the peer's initial
\* table without looking at its kind.
RefreshFirst ==
  \A s \in Streams : \A i \in DOMAIN out[s] : (out[s][i].kind = "Refresh") <=> (i = 1)

\* An upstream peer is never told about itself, by whichever goroutine and
\* whatever the interleaving of its tunnels' lives: peers upstream would
\* otherwise route their own id back here (advertise skips the source of a
\* change, allRechablePeers the receiver).
NoEcho ==
  \A u \in Upstream : \A i \in DOMAIN out[u] :
    out[u][i].peers \cap {RemoteID[v] : v \in Upstream} = {}

\* A tunnel is told nothing after its own Disconnect has begun to tell the
\* others: the channels are collected from the records under the read lock.
QuietAfterDisconnect ==
  [][\A s \in Streams : Left(s) => out'[s] = out[s]]_vars

\* As long as a peer is in the table its tunnel stays the same one: a second
\* tunnel that presents the same id never takes the first one's traffic over
\* (the "may not happen" branch of OnChange).
RouteStable ==
  [][\A p \in Peers :
       records[p].chan # None /\ records'[p].chan # None
         => records'[p].chan = records[p].chan]_vars

\* The two ways in which the server can stop for good.
KeepAliveDeadlock == Ticker \in readers /\ todo[Ticker] # {} /\ writer # None
Stuck == Wedged \/ KeepAliveDeadlock

\* A tunnel whose Recv has failed is removed and its removal advertised to the
\* end ("advertise we remove peers we direct connect and it's subpeers"), and
\* what a route update's goroutine was started for is applied and advertised,
\* unless the table's lock is lost or the timer of keepalives waits for a writer
\* that waits for it (Disconnect, localIn, OnChange).
FinishesOrStuck ==
  /\ \A s \in Streams : pc[s] = "dlock" ~> (pc[s] = "closed" \/ Stuck)
  /\ \A w \in Workers : pc[w] = "spawned" ~> (pc[w] = "idle" \/ Stuck)

-----------------------------------------------------------------------------
(* What the table promises to the rest of the server                        *)

Status(s) == IF Registered(s) THEN "up" ELSE IF Left(s) THEN "down" ELSE "new"

Directory == INSTANCE TunnelDirectory WITH
  status <- [s \in Streams |-> Status(s)],
  route  <- [p \in Peers |-> records[p].chan]

\* Goroutines, locks and advertisements hide a directory in which tunnels come up
\* and go down once, the first to come up owns the id, and any to go down takes
\* the entry with it.
ImplementsDirectory == Directory!Spec
=============================================================================
