------------------------------- MODULE EdgeStatus -------------------------------
(***************************************************************************)
(* What the edge server stores about its hubs and clusters.  The tunnels   *)
(* of the server are a TunnelDirectory; what is behind each of them is     *)
(* kept beside it, a critical section of the route table is one step       *)
(* (RouteTable has the goroutines and the lock), and a second step tells   *)
(* the watcher over a channel.  One loop applies the events, peer by peer, *)
(* to the stored objects; the API registers and deletes clusters.          *)
(*                                                                         *)
(* What is stored of a peer depends on no other peer's object: one peer is *)
(* followed, any of them, and an event says whether it is about that one.  *)
(* Objects are read from the informer's cache and written with a patch of  *)
(* the fields that differ from the copy that was read, without a check of  *)
(* its version.  Of an object the phase is kept: Status.Tunnel.Connected   *)
(* and the annotations are written by the same patches.  Connections that  *)
(* are marked as temporary (clusters.go:237) are left out: no code here    *)
(* marks one.                                                              *)
(***************************************************************************)
EXTENDS Naturals, Sequences

CONSTANTS
  Streams,      \* tunnels ever offered to the server; a reconnect is a new one
  Workers,      \* goroutines that may run a received route update
  Peers,        \* peer ids
  RemoteID,     \* the id the other end of a tunnel presents
  Behind,       \* the peers the other end of a tunnel can have behind it
  None,         \* Go's nil
  Hubs,         \* the peers that are edge hubs; the others are edge clusters
  Capacity,     \* of the watcher's channel
  MaxUpdates,   \* bound: peers coming and going behind a tunnel
  MaxFaults     \* bound: requests to the API, writes that fail, restarts

ASSUME EdgeStatusAssumption ==
  /\ RemoteID \in [Streams -> Peers]
  /\ Behind \in [Streams -> SUBSET (Peers \ Hubs)]
  /\ Streams \cap Workers = {}
  /\ None \notin Streams
  /\ Hubs \subseteq Peers
  /\ Capacity \in Nat \ {0}
  /\ MaxUpdates \in Nat /\ MaxFaults \in Nat

VARIABLES
  peer,         \* the peer that is followed; it never changes
  status,       \* of every tunnel: new, up or down
  route,        \* the tunnel of the record of a peer
  behind,       \* the children of that record
  telling,      \* the change a goroutine has made and not yet told
  wedged,       \* the lock of the table is lost
  watch,        \* how far Watch is
  snapshot,     \* whether the peer was among those it has read
  queue,        \* the watcher's channel
  sync,         \* the loop of SyncTunnelStatusFrom
  stored,       \* the phase of the stored object of the peer
  cached,       \* what the informer knows of it
  updates,      \* updates so far
  faults,       \* requests, failed writes and restarts so far
  doubted       \* history: the stored phase may be wrong, see RestMeansTrue

table == <<status, route, behind, telling, wedged, updates>>
watcher == <<watch, snapshot, queue>>
vars == <<peer, table, watcher, sync, stored, cached, faults, doubted>>

Directory == INSTANCE TunnelDirectory

-----------------------------------------------------------------------------
Kinds  == {"Online", "KeepAlive", "Offline"}
Event  == Kinds \cup {"other"}    \* of the followed peer, or of others only
Phases == {"none", "Waiting", "Online", "Offline"}

TypeOK ==
  /\ peer \in Peers
  /\ status \in [Streams -> {"new", "up", "down"}]
  /\ route \in [Peers -> Streams \cup {None}]
  /\ behind \in [Peers -> SUBSET Peers]
  /\ telling \in [Streams \cup Workers -> Event \cup {"told"}]
  /\ wedged \in BOOLEAN
  /\ watch \in {"off", "added", "read", "on"}
  /\ snapshot \in BOOLEAN
  /\ queue \in Seq(Event) /\ Len(queue) <= Capacity
  /\ sync \in Kinds \cup {"idle"}
  /\ stored \in Phases
  /\ cached \in Phases
  /\ updates \in 0 .. MaxUpdates
  /\ faults \in 0 .. MaxFaults
  /\ doubted \in BOOLEAN

Init ==
  /\ peer \in Peers
  /\ Directory!Init
  /\ behind = [p \in Peers |-> {}]
  /\ telling = [g \in Streams \cup Workers |-> "told"]
  /\ wedged = FALSE
  /\ watch = "off" /\ snapshot = FALSE /\ queue = <<>>
  /\ sync = "idle"
  /\ stored = "none" /\ cached = "none"
  /\ updates = 0 /\ faults = 0
  /\ doubted = FALSE

Exists(id) == route[id] # None

\* allRechablePeers
Reachable ==
  LET known == {p \in Peers : Exists(p)}
  IN  known \cup UNION {behind[p] : p \in known}

-----------------------------------------------------------------------------
(* The table (Connect, Disconnect, OnChange, advertise)                      *)

\* A goroutine makes its change under the lock and tells it afterwards.
Changes(g, kind, peers) ==
  /\ ~wedged /\ telling[g] = "told"
  /\ telling' = [telling EXCEPT ![g] = IF peer \in peers THEN kind ELSE "other"]
  /\ UNCHANGED <<peer, wedged, watcher, sync, stored, cached, faults>>

\* OnChange of a Refresh: in a record that is there, what is behind the peer is
\* replaced, and what was is not told.
Connect(s, peers) ==
  LET id == RemoteID[s] IN
  /\ Directory!Up(s)
  /\ Changes(s, "Online", peers \cup {id})
  /\ behind' = [behind EXCEPT ![id] = peers]
  /\ doubted' = (doubted \/ (Exists(id) /\ peer \in behind[id] \ peers))
  /\ UNCHANGED updates

\* Mutant: only the hub itself is taken away.
DisconnectAlone(s) ==
  LET id == RemoteID[s] IN
  /\ Directory!Down(s) /\ Exists(id)
  /\ Changes(s, "Offline", {id})
  /\ behind' = [behind EXCEPT ![id] = {}]
  /\ UNCHANGED <<updates, doubted>>

Disconnect(s) ==
  LET id == RemoteID[s] IN
  /\ Directory!Down(s) /\ Exists(id)
  /\ Changes(s, "Offline", behind[id] \cup {id})
  /\ behind' = [behind EXCEPT ![id] = {}]
  /\ UNCHANGED <<updates, doubted>>

\* OnChange of a route packet, which may come late: the tunnel may be down and
\* the record another tunnel's.
Update(s, w, kind, peers) ==
  LET id == RemoteID[s] IN
  /\ status[s] # "new" /\ Exists(id)
  /\ behind' = [behind EXCEPT ![id] = IF kind = "Offline" THEN @ \ peers ELSE @ \cup peers]
  /\ Changes(w, kind, IF kind = "KeepAlive" THEN peers \cup {id} ELSE peers)
  /\ UNCHANGED <<status, route, doubted>>

RecvRoute(s, w, kind, peers) ==
  /\ updates < MaxUpdates /\ updates' = updates + 1
  /\ kind # "KeepAlive" => peers # {}
  /\ Update(s, w, kind, peers)

\* A hub repeats what its clusters tell it for as long as it is connected: these
\* updates are not counted.
RecvKeepAlive(s, w) ==
  /\ status[s] = "up" /\ UNCHANGED updates
  /\ Update(s, w, "KeepAlive", behind[RemoteID[s]])

\* Without a record Disconnect and OnChange return and keep the lock.
LoseLock(s) ==
  /\ status[s] # "new" /\ ~Exists(RemoteID[s])
  /\ ~wedged /\ wedged' = TRUE
  /\ UNCHANGED <<peer, status, route, behind, telling, updates, watcher, sync, stored,
                 cached, faults, doubted>>

\* Another goroutine has still to tell the opposite, or the peer is gone from
\* behind one hub and there is another.
Crossed(g) ==
  \/ \E h \in Streams \cup Workers :
       /\ {telling[g], telling[h]} \subseteq Kinds
       /\ (telling[h] = "Offline") # (telling[g] = "Offline")
  \/ telling[g] = "Offline" /\ peer \in Reachable

\* sendWatcherEvent: an event for a full channel is dropped.
Tell(g) ==
  LET full == Len(queue) = Capacity
      lost == watch # "off" /\ full /\ telling[g] \in Kinds
  IN
  /\ ~wedged /\ telling[g] # "told"
  /\ telling' = [telling EXCEPT ![g] = "told"]
  /\ queue' = IF watch = "off" \/ full THEN queue ELSE Append(queue, telling[g])
  /\ doubted' = (doubted \/ lost \/ Crossed(g))
  /\ UNCHANGED <<peer, status, route, behind, wedged, updates, watch, snapshot, sync,
                 stored, cached, faults>>

\* Watch: the watcher is stored, the table is read, and the init list is sent
\* after what has been told since.
Watch ==
  /\ watch = "off"
  /\ watch' = "added"
  /\ UNCHANGED <<peer, table, snapshot, queue, sync, stored, cached, faults, doubted>>

ReadPeers ==
  /\ watch = "added" /\ ~wedged
  /\ watch' = "read"
  /\ snapshot' = (peer \in Reachable)
  /\ UNCHANGED <<peer, table, queue, sync, stored, cached, faults, doubted>>

\* Mutant: the init list is put into the channel without waiting for room.
SendInitNow ==
  /\ watch = "read"
  /\ watch' = "on"
  /\ queue' = Append(queue, IF snapshot THEN "Online" ELSE "other")
  /\ snapshot' = FALSE
  /\ UNCHANGED <<peer, table, sync, stored, cached, faults, doubted>>

SendInit ==
  /\ watch = "read" /\ Len(queue) < Capacity
  /\ watch' = "on"
  /\ queue' = Append(queue, IF snapshot THEN "Online" ELSE "other")
  /\ snapshot' = FALSE
  /\ doubted' = (doubted \/ (snapshot /\ \E i \in DOMAIN queue : queue[i] = "Offline"))
  /\ UNCHANGED <<peer, table, sync, stored, cached, faults>>

-----------------------------------------------------------------------------
(* CreateOrUpdateWithStatus: the copy is read from the cache, the phase is   *)
(* written when it is to differ from the copy's.  A cluster the cache does   *)
(* not know is created, which fails when it is there.  A copy that is read   *)
(* long before it is written is one the cache has not caught up with.        *)

Patched(base, phase, now) ==
  IF base = "none" THEN IF now = "none" THEN phase ELSE now
  ELSE IF now = "none" \/ base = phase THEN now ELSE phase

Write(phase) ==
  /\ stored' = Patched(cached, phase, stored)
  /\ doubted' = (doubted \/ cached # stored)

CatchUp ==
  /\ cached # stored
  /\ cached' = stored
  /\ UNCHANGED <<peer, table, watcher, sync, stored, faults, doubted>>

Disturb == faults < MaxFaults /\ faults' = faults + 1

-----------------------------------------------------------------------------
(* SyncTunnelStatusFrom: one event after the other                           *)

Receive ==
  /\ watch = "on" /\ sync = "idle" /\ queue # <<>>
  /\ sync' = IF Head(queue) \in Kinds THEN Head(queue) ELSE "idle"
  /\ queue' = Tail(queue)
  /\ UNCHANGED <<peer, table, watch, snapshot, stored, cached, faults, doubted>>

\* Mutant: a heartbeat of a cluster is ignored too.
HeartbeatIgnored ==
  /\ sync # "idle"
  /\ IF sync = "KeepAlive" THEN UNCHANGED <<stored, doubted>>
     ELSE Write(IF sync = "Offline" THEN "Offline" ELSE "Online")
  /\ sync' = "idle"
  /\ UNCHANGED <<peer, table, watcher, cached, faults>>

\* A hub has no heartbeat.
OnTunnelConnectedStatusChange ==
  /\ sync # "idle"
  /\ IF peer \in Hubs /\ sync = "KeepAlive" THEN UNCHANGED <<stored, doubted>>
     ELSE Write(IF sync = "Offline" THEN "Offline" ELSE "Online")
  /\ sync' = "idle"
  /\ UNCHANGED <<peer, table, watcher, cached, faults>>

\* An error is logged and the loop goes on.
WriteFails ==
  /\ sync # "idle"
  /\ Disturb
  /\ doubted' = TRUE
  /\ sync' = "idle"
  /\ UNCHANGED <<peer, table, watcher, stored, cached>>

-----------------------------------------------------------------------------
(* The API knows clusters only. *)

PreCreate ==
  /\ peer \notin Hubs
  /\ Disturb
  /\ Write(IF cached = "Online" THEN "Online" ELSE "Waiting")
  /\ UNCHANGED <<peer, table, watcher, sync, cached>>

Delete ==
  /\ peer \notin Hubs
  /\ Disturb
  /\ stored # "none" /\ stored' = "none"
  /\ doubted' = TRUE
  /\ UNCHANGED <<peer, table, watcher, sync, cached>>

-----------------------------------------------------------------------------
\* The server comes back without tunnels, events and requests; the cache is
\* filled before it works.
Restart ==
  /\ Disturb
  /\ status' = [s \in Streams |-> IF status[s] = "up" THEN "down" ELSE status[s]]
  /\ route' = [p \in Peers |-> None]
  /\ behind' = [p \in Peers |-> {}]
  /\ telling' = [g \in Streams \cup Workers |-> "told"]
  /\ wedged' = FALSE
  /\ watch' = "off" /\ snapshot' = FALSE /\ queue' = <<>>
  /\ sync' = "idle"
  /\ cached' = stored
  /\ doubted' = (doubted \/ stored = "Online")
  /\ UNCHANGED <<peer, updates, stored>>

Subscribe == Watch \/ ReadPeers \/ SendInit
Sync == Receive \/ OnTunnelConnectedStatusChange \/ WriteFails

Next ==
  \/ \E s \in Streams : \/ \E peers \in SUBSET Behind[s] : Connect(s, peers)
                         \/ Disconnect(s) \/ LoseLock(s)
  \/ \E s \in Streams, w \in Workers :
       \/ \E kind \in Kinds, peers \in SUBSET Behind[s] : RecvRoute(s, w, kind, peers)
       \/ RecvKeepAlive(s, w)
  \/ \E g \in Streams \cup Workers : Tell(g)
  \/ Subscribe
  \/ Sync \/ CatchUp
  \/ PreCreate \/ Delete
  \/ Restart

Spec == Init /\ [][Next]_vars

\* Goroutines run, the informer catches up, and a connected hub repeats its
\* clusters.  Nothing is assumed about tunnels coming and going.
Fairness ==
  /\ \A g \in Streams \cup Workers : WF_vars(Tell(g))
  /\ \A s \in Streams : WF_vars(\E w \in Workers : RecvKeepAlive(s, w))
  /\ WF_vars(Subscribe)
  /\ WF_vars(Sync) /\ WF_vars(CatchUp)

FairSpec == Spec /\ Fairness

-----------------------------------------------------------------------------
Rest ==
  /\ \A g \in Streams \cup Workers : telling[g] = "told"
  /\ watch = "on" /\ queue = <<>> /\ sync = "idle"

\* When nobody is at work and every event has been applied, what is stored as
\* Online is what the table reaches, however the goroutines of tunnels and route
\* packets, the snapshot of Watch, the sync loop and the API have interleaved;
\* unless an event was dropped, two goroutines were telling the opposite at a
\* time, the peer was lost from behind one hub and not another, the snapshot
\* followed a removal, a second tunnel replaced what was behind the first, a copy
\* was stale when it was patched, a write failed, the object was deleted, or the
\* server restarted (advertise, sendWatcherEvent, Watch,
\* OnTunnelConnectedStatusChange, PreCreate).
RestMeansTrue ==
  Rest /\ ~doubted => (stored = "Online" <=> peer \in Reachable)

\* The channel filled up between Watch's Store and its send: nobody receives yet.
WatchBlocked == watch = "read" /\ Len(queue) = Capacity

\* A cluster that stays reachable is finally stored as Online, whatever was lost
\* or overwritten before: keepalives repair it, unless the table's lock is lost
\* or Watch blocks (the heartbeat branch of OnTunnelConnectedStatusChange).
KeptAliveIsOnline ==
  <>[](peer \in Reachable \ Hubs /\ ~wedged /\ ~WatchBlocked) => <>[](stored = "Online")
=============================================================================
