--------------------------- MODULE EdgeStatus_proofs ---------------------------
(***************************************************************************)
(* Proofs about EdgeStatus, for any number of tunnels, workers, hubs and   *)
(* clusters, any capacity of the watcher's channel and any number of       *)
(* updates and faults: TypeOK and RestMeansTrue are invariants.  The       *)
(* inductive invariant follows the last news of the peer on its way from   *)
(* the goroutine that made the change, through the channel and the loop    *)
(* that applies it, to the stored object.                                  *)
(***************************************************************************)
EXTENDS EdgeStatus, TLAPS

Tellers == Streams \cup Workers

-----------------------------------------------------------------------------
(* The types *)

LEMMA TypeInit == Init => TypeOK
  <1>1. <<>> \in Seq(Event) /\ Len(<<>>) <= Capacity
    BY EdgeStatusAssumption
  <1>2. ASSUME Init PROVE queue \in Seq(Event) /\ Len(queue) <= Capacity
    BY <1>1, <1>2 DEF Init
  <1>3. ASSUME Init PROVE snapshot \in BOOLEAN /\ wedged \in BOOLEAN /\ doubted \in BOOLEAN
    BY <1>3, Zenon DEF Init
  <1>4. ASSUME Init
        PROVE  /\ telling \in [Streams \cup Workers -> Event \cup {"told"}]
               /\ status \in [Streams -> {"new", "up", "down"}]
               /\ route \in [Peers -> Streams \cup {None}]
               /\ behind \in [Peers -> SUBSET Peers]
    BY <1>4 DEF Init, Directory!Init
  <1>5. ASSUME Init
        PROVE  /\ peer \in Peers
               /\ watch = "off" /\ sync = "idle" /\ stored = "none" /\ cached = "none"
               /\ updates \in 0 .. MaxUpdates /\ faults \in 0 .. MaxFaults
    BY <1>5, EdgeStatusAssumption DEF Init
  <1>6. QED
    BY <1>2, <1>3, <1>4, <1>5 DEF TypeOK, Phases

LEMMA ChangesType ==
  ASSUME TypeOK, NEW g \in Tellers, NEW kind \in Kinds, NEW peers, Changes(g, kind, peers),
         status' \in [Streams -> {"new", "up", "down"}],
         route' \in [Peers -> Streams \cup {None}],
         behind' \in [Peers -> SUBSET Peers],
         updates' \in 0 .. MaxUpdates, doubted' \in BOOLEAN
  PROVE  TypeOK'
  BY DEF Changes, TypeOK, Tellers, Event, Kinds, watcher

LEMMA PatchedType ==
  ASSUME NEW base \in Phases, NEW phase \in Phases, NEW now \in Phases
  PROVE  Patched(base, phase, now) \in Phases
  BY DEF Patched, Phases

LEMMA UpdateType ==
  ASSUME TypeOK, NEW s \in Streams, NEW w \in Workers, NEW kind \in Kinds,
         NEW peers \in SUBSET Peers, Update(s, w, kind, peers),
         updates' \in 0 .. MaxUpdates
  PROVE  TypeOK'
  <1>1. RemoteID[s] \in Peers /\ w \in Tellers
    BY EdgeStatusAssumption DEF Tellers
  <1>2. behind' \in [Peers -> SUBSET Peers]
    BY <1>1 DEF Update, TypeOK
  <1>3. status' = status /\ route' = route /\ doubted' = doubted
    BY DEF Update
  <1>4. \E told \in SUBSET Peers : Changes(w, kind, told)
    BY <1>1 DEF Update
  <1>5. QED
    BY <1>1, <1>2, <1>3, <1>4, ChangesType DEF TypeOK

LEMMA TypeStep == TypeOK /\ [Next]_vars => TypeOK'
  <1> SUFFICES ASSUME TypeOK, [Next]_vars PROVE TypeOK'
    OBVIOUS
  <1> USE EdgeStatusAssumption
  <1>1. ASSUME NEW s \in Streams, NEW peers \in SUBSET Behind[s], Connect(s, peers)
        PROVE  TypeOK'
    <2>1. RemoteID[s] \in Peers /\ s \in Tellers /\ peers \subseteq Peers
      BY DEF Tellers
    <2>2. status' \in [Streams -> {"new", "up", "down"}] /\ route' \in [Peers -> Streams \cup {None}]
      BY <1>1, <2>1 DEF Connect, Directory!Up, TypeOK
    <2>3. behind' \in [Peers -> SUBSET Peers] /\ doubted' \in BOOLEAN /\ updates' = updates
      BY <1>1, <2>1 DEF Connect, TypeOK
    <2>4. Changes(s, "Online", peers \cup {RemoteID[s]}) /\ "Online" \in Kinds
      BY <1>1 DEF Connect, Kinds
    <2>5. QED
      BY <2>1, <2>2, <2>3, <2>4, ChangesType DEF TypeOK
  <1>2. ASSUME NEW s \in Streams, Disconnect(s)
        PROVE  TypeOK'
    <2>1. RemoteID[s] \in Peers /\ s \in Tellers
      BY DEF Tellers
    <2>2. status' \in [Streams -> {"new", "up", "down"}] /\ route' \in [Peers -> Streams \cup {None}]
      BY <1>2, <2>1 DEF Disconnect, Directory!Down, TypeOK
    <2>3. behind' \in [Peers -> SUBSET Peers] /\ doubted' = doubted /\ updates' = updates
      BY <1>2, <2>1 DEF Disconnect, TypeOK
    <2>4. Changes(s, "Offline", behind[RemoteID[s]] \cup {RemoteID[s]}) /\ "Offline" \in Kinds
      BY <1>2 DEF Disconnect, Kinds
    <2>5. QED
      BY <2>1, <2>2, <2>3, <2>4, ChangesType DEF TypeOK
  <1>3. ASSUME NEW s \in Streams, LoseLock(s)
        PROVE  TypeOK'
    BY <1>3 DEF LoseLock, TypeOK, watcher
  <1>4. ASSUME NEW s \in Streams, NEW w \in Workers, NEW kind \in Kinds,
               NEW peers \in SUBSET Behind[s], RecvRoute(s, w, kind, peers)
        PROVE  TypeOK'
    <2>1. peers \subseteq Peers /\ Update(s, w, kind, peers) /\ updates' \in 0 .. MaxUpdates
      BY <1>4 DEF RecvRoute, TypeOK
    <2>2. QED
      BY <2>1, UpdateType
  <1>5. ASSUME NEW s \in Streams, NEW w \in Workers, RecvKeepAlive(s, w)
        PROVE  TypeOK'
    <2>1. /\ behind[RemoteID[s]] \subseteq Peers /\ updates' \in 0 .. MaxUpdates
          /\ Update(s, w, "KeepAlive", behind[RemoteID[s]]) /\ "KeepAlive" \in Kinds
      BY <1>5 DEF RecvKeepAlive, TypeOK, Kinds
    <2>2. QED
      BY <2>1, UpdateType
  <1>6. ASSUME NEW g \in Streams \cup Workers, Tell(g)
        PROVE  TypeOK'
    <2>1. telling[g] \in Event
      BY <1>6 DEF Tell, TypeOK
    <2>2. telling' \in [Streams \cup Workers -> Event \cup {"told"}]
      BY <1>6 DEF Tell, TypeOK
    <2>3. queue' \in Seq(Event) /\ Len(queue') <= Capacity
      BY <1>6, <2>1 DEF Tell, TypeOK
    <2>4. doubted' \in BOOLEAN
      BY <1>6 DEF Tell
    <2>5. QED
      BY <1>6, <2>2, <2>3, <2>4 DEF Tell, TypeOK
  <1>7. CASE Watch
    BY <1>7 DEF Watch, TypeOK, table
  <1>8. CASE ReadPeers
    BY <1>8 DEF ReadPeers, TypeOK, table
  <1>9. CASE SendInit
    <2>1. (IF snapshot THEN "Online" ELSE "other") \in Event
      BY DEF Event, Kinds
    <2>2. queue' \in Seq(Event) /\ Len(queue') <= Capacity
      BY <1>9, <2>1 DEF SendInit, TypeOK
    <2>3. QED
      BY <1>9, <2>2 DEF SendInit, TypeOK, table
  <1>10. CASE Receive
    <2>1. queue' \in Seq(Event) /\ Len(queue') <= Capacity
      BY <1>10 DEF Receive, TypeOK
    <2>2. QED
      BY <1>10, <2>1 DEF Receive, TypeOK, table
  <1>11. CASE OnTunnelConnectedStatusChange
    <2>1. "Online" \in Phases /\ "Offline" \in Phases /\ cached \in Phases /\ stored \in Phases
      BY DEF TypeOK, Phases
    <2>2. stored' \in Phases
      BY <1>11, <2>1, PatchedType DEF OnTunnelConnectedStatusChange, Write
    <2>3. doubted' \in BOOLEAN
      BY <1>11, Zenon DEF OnTunnelConnectedStatusChange, Write, TypeOK
    <2>4. QED
      BY <1>11, <2>2, <2>3 DEF OnTunnelConnectedStatusChange, TypeOK, table, watcher
  <1>12. CASE WriteFails
    BY <1>12 DEF WriteFails, Disturb, TypeOK, table, watcher
  <1>13. CASE CatchUp
    BY <1>13 DEF CatchUp, TypeOK, table, watcher
  <1>14. CASE PreCreate
    <2>1. stored' \in Phases /\ doubted' \in BOOLEAN
      BY <1>14, PatchedType DEF PreCreate, Write, TypeOK, Phases
    <2>2. QED
      BY <1>14, <2>1 DEF PreCreate, Disturb, TypeOK, table, watcher
  <1>15. CASE Delete
    BY <1>15 DEF Delete, Disturb, TypeOK, table, watcher, Phases
  <1>16. CASE Restart
    <2>0. snapshot' \in BOOLEAN /\ wedged' \in BOOLEAN
      BY <1>16, Zenon DEF Restart
    <2>1. status' \in [Streams -> {"new", "up", "down"}] /\ queue' \in Seq(Event) /\ Len(queue') <= Capacity
      BY <1>16 DEF Restart, TypeOK
    <2>2. doubted' \in BOOLEAN
      BY <1>16 DEF Restart, TypeOK
    <2>3. route' \in [Peers -> Streams \cup {None}] /\ behind' \in [Peers -> SUBSET Peers]
      BY <1>16 DEF Restart
    <2>4. telling' \in [Streams \cup Workers -> Event \cup {"told"}]
      BY <1>16 DEF Restart
    <2>5. /\ watch' = "off" /\ sync' = "idle" /\ peer' = peer /\ stored' = stored /\ cached' = stored
          /\ updates' = updates /\ faults' \in 0 .. MaxFaults
      BY <1>16 DEF Restart, Disturb, TypeOK
    <2>6. QED
      BY <2>0, <2>1, <2>2, <2>3, <2>4, <2>5 DEF TypeOK
  <1>17. CASE UNCHANGED vars
    BY <1>17 DEF vars, table, watcher, TypeOK
  <1>18. QED
    BY <1>1, <1>2, <1>3, <1>4, <1>5, <1>6, <1>7, <1>8, <1>9, <1>10, <1>11, <1>12, <1>13,
       <1>14, <1>15, <1>16, <1>17 DEF Next, Subscribe, Sync

\* Every state of the model is well typed, and the channel is never overfull.
THEOREM TypeCorrect == Spec => []TypeOK
  BY TypeInit, TypeStep, PTL DEF Spec

-----------------------------------------------------------------------------
(* News of peer p in a channel q *)

\* News that makes the stored phase Online: a hub has no heartbeat.
Good(p, k) == k = "Online" \/ (k = "KeepAlive" /\ p \notin Hubs)

\* The last news in q that matters is good, is bad, or there is none.
EndsGood(p, q) ==
  \E i \in DOMAIN q : Good(p, q[i]) /\ \A j \in DOMAIN q : j > i => q[j] # "Offline"
EndsOffline(p, q) ==
  \E i \in DOMAIN q : q[i] = "Offline" /\ \A j \in DOMAIN q : j > i => ~Good(p, q[j])
Quiet(p, q) == \A i \in DOMAIN q : ~Good(p, q[i]) /\ q[i] # "Offline"
SomeOffline(q) == \E i \in DOMAIN q : q[i] = "Offline"

LEMMA AppendFacts ==
  ASSUME NEW q \in Seq(Event), NEW k \in Event
  PROVE  /\ DOMAIN Append(q, k) = DOMAIN q \cup {Len(q) + 1}
         /\ \A i \in DOMAIN q : Append(q, k)[i] = q[i] /\ i \in Nat /\ i < Len(q) + 1
         /\ Append(q, k)[Len(q) + 1] = k
         /\ Len(q) + 1 \in Nat
  OBVIOUS

LEMMA AppendNews ==
  ASSUME NEW p, NEW q \in Seq(Event), NEW k \in Event
  PROVE  /\ Good(p, k) => EndsGood(p, Append(q, k))
         /\ k = "Offline" => EndsOffline(p, Append(q, k)) /\ SomeOffline(Append(q, k))
         /\ SomeOffline(q) => SomeOffline(Append(q, k))
         /\ ~Good(p, k) => (EndsOffline(p, q) => EndsOffline(p, Append(q, k)))
         /\ k # "Offline" => (EndsGood(p, q) => EndsGood(p, Append(q, k)))
         /\ ~Good(p, k) /\ k # "Offline" => (Quiet(p, q) => Quiet(p, Append(q, k)))
  <1> DEFINE r == Append(q, k)
             n == Len(q) + 1
  <1>1. /\ DOMAIN r = DOMAIN q \cup {n}
        /\ \A i \in DOMAIN q : r[i] = q[i] /\ i \in Nat /\ i < n
        /\ r[n] = k /\ n \in Nat
    BY AppendFacts
  <1> HIDE DEF r, n
  <1>2. \A j \in DOMAIN r : ~(j > n)
    BY <1>1
  <1>3. Good(p, k) => EndsGood(p, r)
    BY <1>1, <1>2 DEF EndsGood
  <1>4. k = "Offline" => EndsOffline(p, r) /\ SomeOffline(r)
    BY <1>1, <1>2 DEF EndsOffline, SomeOffline
  <1>5. SomeOffline(q) => SomeOffline(r)
    BY <1>1 DEF SomeOffline
  <1>6. ~Good(p, k) => (EndsOffline(p, q) => EndsOffline(p, r))
    BY <1>1 DEF EndsOffline
  <1>7. k # "Offline" => (EndsGood(p, q) => EndsGood(p, r))
    BY <1>1 DEF EndsGood
  <1>8. ~Good(p, k) /\ k # "Offline" => (Quiet(p, q) => Quiet(p, r))
    BY <1>1 DEF Quiet
  <1>9. QED
    BY <1>3, <1>4, <1>5, <1>6, <1>7, <1>8 DEF r

LEMMA TailFacts ==
  ASSUME NEW q \in Seq(Event), q # <<>>
  PROVE  /\ \A j \in DOMAIN Tail(q) : j + 1 \in DOMAIN q /\ Tail(q)[j] = q[j + 1] /\ j + 1 > 1
         /\ \A i \in DOMAIN q : i \in Nat /\ (i = 1 \/ (i - 1 \in DOMAIN Tail(q) /\ i - 1 + 1 = i))
         /\ 1 \in DOMAIN q /\ Head(q) = q[1]
         /\ DOMAIN Tail(q) \subseteq Nat
  OBVIOUS

LEMMA TailNews ==
  ASSUME NEW p, NEW q \in Seq(Event), q # <<>>
  PROVE  /\ EndsGood(p, q) =>
              EndsGood(p, Tail(q)) \/ (Quiet(p, Tail(q)) /\ Good(p, Head(q)))
         /\ EndsOffline(p, q) =>
              EndsOffline(p, Tail(q)) \/ (Quiet(p, Tail(q)) /\ Head(q) = "Offline")
         /\ Quiet(p, q) => Quiet(p, Tail(q)) /\ ~Good(p, Head(q)) /\ Head(q) # "Offline"
  <1> DEFINE t == Tail(q)
  <1>1. /\ \A j \in DOMAIN t : j \in Nat /\ j + 1 \in DOMAIN q /\ t[j] = q[j + 1] /\ j + 1 > 1
        /\ \A i \in DOMAIN q : i \in Nat /\ (i = 1 \/ (i - 1 \in DOMAIN t /\ i - 1 + 1 = i))
        /\ 1 \in DOMAIN q /\ Head(q) = q[1]
    BY TailFacts
  <1> HIDE DEF t
  <1>2. ASSUME EndsGood(p, q)
        PROVE  EndsGood(p, t) \/ (Quiet(p, t) /\ Good(p, Head(q)))
    <2>1. PICK i \in DOMAIN q : Good(p, q[i]) /\ \A j \in DOMAIN q : j > i => q[j] # "Offline"
      BY <1>2 DEF EndsGood
    <2>2. CASE i = 1
      <3>1. \A j \in DOMAIN t : t[j] # "Offline"
        BY <1>1, <2>1, <2>2
      <3>2. (\E j \in DOMAIN t : Good(p, t[j])) => EndsGood(p, t)
        BY <3>1 DEF EndsGood
      <3>3. QED
        BY <1>1, <2>1, <2>2, <3>1, <3>2 DEF Quiet
    <2>3. CASE i # 1
      <3>1. i - 1 \in DOMAIN t /\ t[i - 1] = q[i] /\ i \in Nat
        BY <1>1, <2>3
      <3>2. \A j \in DOMAIN t : j > i - 1 => t[j] # "Offline"
        BY <1>1, <2>1, <3>1
      <3>3. QED
        BY <2>1, <3>1, <3>2 DEF EndsGood
    <2>4. QED
      BY <2>2, <2>3
  <1>3. ASSUME EndsOffline(p, q)
        PROVE  EndsOffline(p, t) \/ (Quiet(p, t) /\ Head(q) = "Offline")
    <2>1. PICK i \in DOMAIN q : q[i] = "Offline" /\ \A j \in DOMAIN q : j > i => ~Good(p, q[j])
      BY <1>3 DEF EndsOffline
    <2>2. CASE i = 1
      <3>1. \A j \in DOMAIN t : ~Good(p, t[j])
        BY <1>1, <2>1, <2>2
      <3>2. (\E j \in DOMAIN t : t[j] = "Offline") => EndsOffline(p, t)
        BY <3>1 DEF EndsOffline
      <3>3. QED
        BY <1>1, <2>1, <2>2, <3>1, <3>2 DEF Quiet
    <2>3. CASE i # 1
      <3>1. i - 1 \in DOMAIN t /\ t[i - 1] = q[i] /\ i \in Nat
        BY <1>1, <2>3
      <3>2. \A j \in DOMAIN t : j > i - 1 => ~Good(p, t[j])
        BY <1>1, <2>1, <3>1
      <3>3. QED
        BY <2>1, <3>1, <3>2 DEF EndsOffline
    <2>4. QED
      BY <2>2, <2>3
  <1>4. ASSUME Quiet(p, q)
        PROVE  Quiet(p, t) /\ ~Good(p, Head(q)) /\ Head(q) # "Offline"
    BY <1>1, <1>4 DEF Quiet
  <1>5. QED
    BY <1>2, <1>3, <1>4 DEF t

-----------------------------------------------------------------------------
(* The inductive invariant *)

Up == peer \in Reachable
ToTellGood == \E g \in Tellers : Good(peer, telling[g])
ToTellOffline == \E g \in Tellers : telling[g] = "Offline"

\* What will be stored when the events on their way have been applied
WillBeOnline ==
  \/ EndsGood(peer, queue)
  \/ Quiet(peer, queue) /\ (Good(peer, sync) \/ (sync # "Offline" /\ stored = "Online"))
WillNotBeOnline ==
  \/ EndsOffline(peer, queue)
  \/ Quiet(peer, queue) /\ (sync = "Offline" \/ (~Good(peer, sync) /\ stored # "Online"))

\* An addition not told yet is at odds only with a removal not told yet.
NewsAgree == ~Up /\ ToTellGood => ToTellOffline

\* Before the watcher is on, nothing is applied, and what has been told waits in
\* the channel.
NotOn ==
  watch # "on" =>
    /\ stored # "Online" /\ sync = "idle"
    /\ watch = "off" => queue = <<>>
    /\ ~Up => ToTellOffline \/ EndsOffline(peer, queue) \/ Quiet(peer, queue)
    /\ watch = "read" /\ Up /\ ~snapshot => ToTellGood \/ EndsGood(peer, queue)
    /\ watch = "read" /\ ~Up /\ snapshot => ToTellOffline \/ SomeOffline(queue)

On ==
  watch = "on" =>
    /\ Up => ToTellGood \/ WillBeOnline
    /\ ~Up => ToTellOffline \/ WillNotBeOnline

Followed == ~doubted => NewsAgree /\ NotOn /\ On

\* A step of the table that adds one piece of news
LEMMA TableStep ==
  ASSUME TypeOK, Followed, NEW g \in Tellers, NEW k \in Event,
         telling[g] = "told", telling' = [telling EXCEPT ![g] = k],
         UNCHANGED <<peer, watch, snapshot, queue, sync, stored>>,
         doubted => doubted',
         Up /\ ~Up' => k = "Offline" \/ doubted',
         ~Up /\ Up' => Good(peer, k),
         Good(peer, k) => Up'
  PROVE  Followed'
  <1> SUFFICES ASSUME ~doubted' PROVE NewsAgree' /\ NotOn' /\ On'
    BY Zenon DEF Followed
  <1>1. NewsAgree /\ NotOn /\ On
    BY Zenon DEF Followed
  <1>2. telling \in [Tellers -> Event \cup {"told"}]
    BY DEF TypeOK, Tellers
  <1>3. telling'[g] = k /\ \A h \in Tellers : h # g => telling'[h] = telling[h]
    BY <1>2
  <1>4. ToTellGood => ToTellGood'
    BY <1>3 DEF ToTellGood, Good
  <1>5. ToTellOffline => ToTellOffline'
    BY <1>3 DEF ToTellOffline
  <1>6. ToTellGood' => ToTellGood \/ Good(peer, k)
    BY <1>3 DEF ToTellGood, Good
  <1>7. (k = "Offline" => ToTellOffline') /\ (Good(peer, k) => ToTellGood')
    BY <1>3 DEF ToTellOffline, ToTellGood, Good
  <1>8. /\ WillBeOnline => WillBeOnline'
        /\ WillNotBeOnline => WillNotBeOnline'
        /\ EndsOffline(peer, queue)' = EndsOffline(peer, queue)
        /\ EndsGood(peer, queue)' = EndsGood(peer, queue)
        /\ Quiet(peer, queue)' = Quiet(peer, queue)
        /\ SomeOffline(queue)' = SomeOffline(queue)
    BY DEF WillBeOnline, WillNotBeOnline, EndsOffline, EndsGood, Quiet, SomeOffline, Good
  <1>9. NewsAgree'
    BY <1>1, <1>5, <1>6, <1>7, Zenon DEF NewsAgree
  <1>10. NotOn'
    BY <1>1, <1>4, <1>5, <1>7, <1>8 DEF NotOn
  <1>11. On'
    BY <1>1, <1>4, <1>5, <1>7, <1>8 DEF On
  <1>12. QED
    BY <1>9, <1>10, <1>11

LEMMA FollowedConnect ==
  ASSUME TypeOK, Followed, NEW s \in Streams, NEW peers \in SUBSET Behind[s], Connect(s, peers)
  PROVE  Followed'
  <1> DEFINE id == RemoteID[s]
             k == IF peer \in peers \cup {id} THEN "Online" ELSE "other"
  <1>1. id \in Peers /\ s \in Tellers /\ s # None /\ peers \subseteq Peers
    BY EdgeStatusAssumption DEF Tellers
  <1>2. /\ route \in [Peers -> Streams \cup {None}] /\ behind \in [Peers -> SUBSET Peers]
        /\ peer \in Peers
    BY DEF TypeOK
  <1>3. /\ route' = [route EXCEPT ![id] = IF @ = None THEN s ELSE @]
        /\ behind' = [behind EXCEPT ![id] = peers]
        /\ peer' = peer
        /\ doubted' = (doubted \/ (Exists(id) /\ peer \in behind[id] \ peers))
    BY DEF Connect, Changes, Directory!Up
  <1>4. /\ route'[id] # None /\ behind'[id] = peers
        /\ \A x \in Peers : x # id => route'[x] = route[x] /\ behind'[x] = behind[x]
        /\ \A x \in Peers : route[x] # None => route'[x] # None
    BY <1>1, <1>2, <1>3
  <1>5. /\ k \in Event /\ telling[s] = "told" /\ telling' = [telling EXCEPT ![s] = k]
        /\ UNCHANGED <<watch, snapshot, queue, sync, stored>>
    BY DEF Connect, Changes, Event, Kinds, watcher
  <1>6. Up /\ ~Up' => doubted'
    <2>1. Up /\ ~Up' => route[id] # None /\ peer \in behind[id] \ peers
      <3>1. peer' = peer
        BY <1>3
      <3>2. QED
        BY <1>1, <1>2, <1>4, <3>1 DEF Up, Reachable, Exists
    <2>2. QED
      BY <1>3, <2>1 DEF Exists
  <1>7. ~Up /\ Up' => k = "Online"
    BY <1>1, <1>2, <1>3, <1>4 DEF Up, Reachable, Exists
  <1>8. k = "Online" => Up'
    BY <1>1, <1>2, <1>3, <1>4 DEF Up, Reachable, Exists
  <1>9. Good(peer, k) <=> k = "Online"
    BY DEF Good
  <1>10. doubted => doubted'
    BY <1>3
  <1> HIDE DEF k, id
  <1>11. QED
    BY <1>1, <1>3, <1>5, <1>6, <1>7, <1>8, <1>9, <1>10, TableStep

LEMMA FollowedDisconnect ==
  ASSUME TypeOK, Followed, NEW s \in Streams, Disconnect(s)
  PROVE  Followed'
  <1> DEFINE id == RemoteID[s]
             k == IF peer \in behind[id] \cup {id} THEN "Offline" ELSE "other"
  <1>1. id \in Peers /\ s \in Tellers
    BY EdgeStatusAssumption DEF Tellers
  <1>2. /\ route \in [Peers -> Streams \cup {None}] /\ behind \in [Peers -> SUBSET Peers]
        /\ peer \in Peers
    BY DEF TypeOK
  <1>3. /\ route' = [route EXCEPT ![id] = None]
        /\ behind' = [behind EXCEPT ![id] = {}]
        /\ peer' = peer /\ doubted' = doubted
    BY DEF Disconnect, Changes, Directory!Down
  <1>4. /\ route'[id] = None /\ behind'[id] = {}
        /\ \A x \in Peers : x # id => route'[x] = route[x] /\ behind'[x] = behind[x]
    BY <1>1, <1>2, <1>3
  <1>5. /\ k \in Event /\ telling[s] = "told" /\ telling' = [telling EXCEPT ![s] = k]
        /\ UNCHANGED <<watch, snapshot, queue, sync, stored>>
    BY DEF Disconnect, Changes, Event, Kinds, watcher
  <1>6. Up /\ ~Up' => k = "Offline"
    BY <1>1, <1>2, <1>3, <1>4 DEF Up, Reachable, Exists
  <1>7. Up' => Up
    BY <1>1, <1>2, <1>3, <1>4 DEF Up, Reachable, Exists
  <1>8. ~Good(peer, k)
    BY DEF Good
  <1> HIDE DEF k, id
  <1>9. QED
    BY <1>1, <1>3, <1>5, <1>6, <1>7, <1>8, TableStep

LEMMA FollowedUpdate ==
  ASSUME TypeOK, Followed, NEW s \in Streams, NEW w \in Workers, NEW kind \in Kinds,
         NEW peers \in SUBSET Peers, Update(s, w, kind, peers),
         peers \cap Hubs = {} \/ (kind = "KeepAlive" /\ peers = behind[RemoteID[s]])
  PROVE  Followed'
  <1> DEFINE id == RemoteID[s]
             told == IF kind = "KeepAlive" THEN peers \cup {id} ELSE peers
             k == IF peer \in told THEN kind ELSE "other"
  <1>1. id \in Peers /\ w \in Tellers
    BY EdgeStatusAssumption DEF Tellers
  <1>2. /\ route \in [Peers -> Streams \cup {None}] /\ behind \in [Peers -> SUBSET Peers]
        /\ peer \in Peers
    BY DEF TypeOK
  <1>3. /\ route' = route /\ route[id] # None
        /\ behind' = [behind EXCEPT ![id] = IF kind = "Offline" THEN @ \ peers ELSE @ \cup peers]
        /\ peer' = peer /\ doubted' = doubted
    BY DEF Update, Changes, Exists
  <1>4. /\ behind'[id] = IF kind = "Offline" THEN behind[id] \ peers ELSE behind[id] \cup peers
        /\ \A x \in Peers : x # id => behind'[x] = behind[x]
    BY <1>1, <1>2, <1>3
  <1>5. Changes(w, kind, told)
    BY DEF Update
  <1>6. /\ k \in Event /\ telling[w] = "told" /\ telling' = [telling EXCEPT ![w] = k]
        /\ UNCHANGED <<watch, snapshot, queue, sync, stored>>
    BY <1>5 DEF Changes, Event, watcher
  <1>7. Up /\ ~Up' => kind = "Offline" /\ peer \in peers
    BY <1>1, <1>2, <1>3, <1>4 DEF Up, Reachable, Exists
  <1>8. ~Up /\ Up' => kind # "Offline" /\ peer \in peers /\ peer \notin behind[id]
    BY <1>1, <1>2, <1>3, <1>4 DEF Up, Reachable, Exists
  <1>9. kind # "Offline" /\ peer \in peers \cup {id} => Up'
    BY <1>1, <1>2, <1>3, <1>4 DEF Up, Reachable, Exists
  <1>10. Up /\ ~Up' => k = "Offline"
    BY <1>7
  <1>11. ~Up /\ Up' => Good(peer, k)
    BY <1>8 DEF Good, Kinds
  <1>12. Good(peer, k) => Up'
    BY <1>9 DEF Good
  <1> HIDE DEF k, id, told
  <1>13. QED
    BY <1>1, <1>3, <1>6, <1>10, <1>11, <1>12, TableStep

\* A goroutine tells its news.
LEMMA FollowedTell ==
  ASSUME TypeOK, Followed, NEW g \in Tellers, Tell(g)
  PROVE  Followed'
  <1> SUFFICES ASSUME ~doubted' PROVE NewsAgree' /\ NotOn' /\ On'
    BY Zenon DEF Followed
  <1> DEFINE k == telling[g]
  <1>1. ~doubted /\ ~Crossed(g) /\ ~(watch # "off" /\ Len(queue) = Capacity /\ k \in Kinds)
    BY DEF Tell
  <1>2. NewsAgree /\ NotOn /\ On
    BY <1>1, Zenon DEF Followed
  <1>3. telling \in [Tellers -> Event \cup {"told"}] /\ queue \in Seq(Event)
    BY DEF TypeOK, Tellers
  <1>4. k \in Event /\ telling'[g] = "told" /\ \A h \in Tellers : h # g => telling'[h] = telling[h]
    BY <1>3 DEF Tell
  <1>5. /\ peer' = peer /\ watch' = watch /\ snapshot' = snapshot /\ sync' = sync /\ stored' = stored
        /\ route' = route /\ behind' = behind
    BY DEF Tell
  <1>6. Up' = Up
    BY <1>5 DEF Up, Reachable, Exists
  <1>7. k = "Offline" => ~Up /\ ~ToTellGood
    BY <1>1, <1>4 DEF Crossed, Up, ToTellGood, Tellers, Good, Kinds
  <1>8. Good(peer, k) => Up /\ ~ToTellOffline
    <2>1. Good(peer, k) => ~ToTellOffline
      BY <1>1, <1>4 DEF Crossed, ToTellOffline, Tellers, Good, Kinds
    <2>2. Good(peer, k) => ToTellGood
      BY DEF ToTellGood
    <2>3. QED
      BY <1>2, <2>1, <2>2 DEF NewsAgree
  <1>9. ToTellGood => ToTellGood' \/ Good(peer, k)
    BY <1>4, <1>5 DEF ToTellGood, Good
  <1>10. ToTellOffline => ToTellOffline' \/ k = "Offline"
    BY <1>4 DEF ToTellOffline
  <1>11. ToTellGood' => ToTellGood
    BY <1>4, <1>5 DEF ToTellGood, Good
  <1>12. \/ queue' = queue /\ (watch = "off" \/ ~(Good(peer, k) \/ k = "Offline"))
         \/ queue' = Append(queue, k) /\ watch # "off"
    BY <1>1 DEF Tell, Good, Kinds
  <1> HIDE DEF k
  <1>13. NewsAgree'
    BY <1>2, <1>6, <1>7, <1>10, <1>11 DEF NewsAgree
  <1> DEFINE Ends(q, r) ==
               /\ EndsGood(peer, q) => EndsGood(peer, r) \/ k = "Offline"
               /\ EndsOffline(peer, q) => EndsOffline(peer, r) \/ Good(peer, k)
               /\ Quiet(peer, q) => Quiet(peer, r) \/ Good(peer, k) \/ k = "Offline"
               /\ SomeOffline(q) => SomeOffline(r)
               /\ watch # "off" /\ Good(peer, k) => EndsGood(peer, r)
               /\ watch # "off" /\ k = "Offline" => EndsOffline(peer, r) /\ SomeOffline(r)
  <1>14. Ends(queue, queue')
    <2>1. CASE queue' = queue /\ (watch = "off" \/ ~(Good(peer, k) \/ k = "Offline"))
      BY <2>1
    <2>2. CASE queue' = Append(queue, k) /\ watch # "off"
      BY <1>3, <1>4, <2>2, AppendNews
    <2>3. QED
      BY <1>12, <2>1, <2>2
  <1>15. /\ EndsGood(peer, queue)' = EndsGood(peer, queue')
         /\ EndsOffline(peer, queue)' = EndsOffline(peer, queue')
         /\ Quiet(peer, queue)' = Quiet(peer, queue')
         /\ SomeOffline(queue)' = SomeOffline(queue')
         /\ Good(peer, sync)' = Good(peer, sync)
    BY <1>5 DEF EndsGood, EndsOffline, Quiet, SomeOffline, Good
  <1>16. NotOn'
    <2>1. watch = "off" => queue' = queue
      BY <1>12
    <2>2. watch = "off" => Quiet(peer, queue')
      BY <1>2, <1>3, <2>1 DEF NotOn, Quiet
    <2>3. QED
      BY <1>2, <1>5, <1>6, <1>7, <1>8, <1>9, <1>10, <1>14, <1>15, <2>1, <2>2 DEF NotOn
  <1>17. On'
    BY <1>2, <1>5, <1>6, <1>7, <1>8, <1>9, <1>10, <1>14, <1>15 DEF On, WillBeOnline, WillNotBeOnline
  <1>18. QED
    BY <1>13, <1>16, <1>17

LEMMA FollowedInit == Init => Followed
  <1> SUFFICES ASSUME Init PROVE Followed
    OBVIOUS
  <1>1. \A g \in Tellers : telling[g] = "told"
    BY DEF Init, Tellers
  <1>2. ~ToTellGood
    BY <1>1 DEF ToTellGood, Good
  <1>3. Quiet(peer, queue)
    BY DEF Init, Quiet
  <1>4. QED
    BY <1>2, <1>3 DEF Init, Followed, NewsAgree, NotOn, On

\* The watcher is on with the init list in its channel.
LEMMA FollowedSendInit ==
  ASSUME TypeOK, Followed, SendInit
  PROVE  Followed'
  <1> SUFFICES ASSUME ~doubted' PROVE NewsAgree' /\ NotOn' /\ On'
    BY Zenon DEF Followed
  <1> DEFINE k == IF snapshot THEN "Online" ELSE "other"
  <1>1. ~doubted /\ (snapshot => ~SomeOffline(queue))
    BY DEF SendInit, SomeOffline
  <1>2. NewsAgree /\ NotOn /\ On
    BY <1>1, Zenon DEF Followed
  <1>3. /\ watch = "read" /\ watch' = "on" /\ queue' = Append(queue, k)
        /\ peer' = peer /\ sync' = sync /\ stored' = stored
        /\ route' = route /\ behind' = behind /\ telling' = telling
    BY DEF SendInit, table
  <1>4. Up' = Up /\ ToTellGood' = ToTellGood /\ ToTellOffline' = ToTellOffline
    BY <1>3 DEF Up, Reachable, Exists, ToTellGood, ToTellOffline, Good
  <1>5. queue \in Seq(Event) /\ k \in Event /\ k # "Offline" /\ (snapshot <=> Good(peer, k))
    BY DEF TypeOK, Event, Kinds, Good
  <1> HIDE DEF k
  <1>6. /\ Good(peer, k) => EndsGood(peer, queue')
        /\ EndsGood(peer, queue) => EndsGood(peer, queue')
        /\ ~Good(peer, k) => (EndsOffline(peer, queue) => EndsOffline(peer, queue'))
        /\ ~Good(peer, k) => (Quiet(peer, queue) => Quiet(peer, queue'))
    BY <1>3, <1>5, AppendNews
  <1>7. /\ EndsGood(peer, queue)' = EndsGood(peer, queue')
        /\ EndsOffline(peer, queue)' = EndsOffline(peer, queue')
        /\ Quiet(peer, queue)' = Quiet(peer, queue')
        /\ Good(peer, sync)' = Good(peer, sync)
    BY <1>3 DEF EndsGood, EndsOffline, Quiet, Good
  <1>8. NewsAgree'
    BY <1>2, <1>4 DEF NewsAgree
  <1>9. NotOn'
    BY <1>3 DEF NotOn
  <1>10. ASSUME Up' PROVE ToTellGood' \/ WillBeOnline'
    BY <1>2, <1>3, <1>4, <1>5, <1>6, <1>7, <1>10 DEF NotOn, WillBeOnline
  <1>11. ASSUME ~Up' PROVE ToTellOffline' \/ WillNotBeOnline'
    <2>1. CASE snapshot
      BY <1>1, <1>2, <1>3, <1>4, <1>11, <2>1 DEF NotOn
    <2>2. CASE ~snapshot
      <3>1. ~Good(peer, sync) /\ stored # "Online"
        BY <1>2, <1>3 DEF NotOn, Good
      <3>2. QED
        BY <1>2, <1>3, <1>4, <1>5, <1>6, <1>7, <1>11, <2>2, <3>1 DEF NotOn, WillNotBeOnline
    <2>3. QED
      BY <2>1, <2>2
  <1>12. QED
    BY <1>8, <1>9, <1>10, <1>11 DEF On

LEMMA FollowedReceive ==
  ASSUME TypeOK, Followed, Receive
  PROVE  Followed'
  <1> SUFFICES ASSUME ~doubted' PROVE NewsAgree' /\ NotOn' /\ On'
    BY Zenon DEF Followed
  <1>1. /\ watch = "on" /\ watch' = watch /\ queue # <<>> /\ queue' = Tail(queue) /\ sync = "idle"
        /\ sync' = IF Head(queue) \in Kinds THEN Head(queue) ELSE "idle"
        /\ peer' = peer /\ stored' = stored /\ doubted' = doubted
        /\ route' = route /\ behind' = behind /\ telling' = telling
    BY DEF Receive, table
  <1>2. NewsAgree /\ NotOn /\ On
    BY <1>1, Zenon DEF Followed
  <1>3. Up' = Up /\ ToTellGood' = ToTellGood /\ ToTellOffline' = ToTellOffline
    BY <1>1 DEF Up, Reachable, Exists, ToTellGood, ToTellOffline, Good
  <1>4. queue \in Seq(Event)
    BY DEF TypeOK
  <1>5. /\ EndsGood(peer, queue) =>
             EndsGood(peer, queue') \/ (Quiet(peer, queue') /\ Good(peer, Head(queue)))
        /\ EndsOffline(peer, queue) =>
             EndsOffline(peer, queue') \/ (Quiet(peer, queue') /\ Head(queue) = "Offline")
        /\ Quiet(peer, queue) =>
             Quiet(peer, queue') /\ ~Good(peer, Head(queue)) /\ Head(queue) # "Offline"
    BY <1>1, <1>4, TailNews
  <1>6. /\ EndsGood(peer, queue)' = EndsGood(peer, queue')
        /\ EndsOffline(peer, queue)' = EndsOffline(peer, queue')
        /\ Quiet(peer, queue)' = Quiet(peer, queue')
        /\ Good(peer, sync)' = Good(peer, sync')
    BY <1>1 DEF EndsGood, EndsOffline, Quiet, Good
  <1>7. /\ Good(peer, Head(queue)) <=> Good(peer, sync')
        /\ (Head(queue) = "Offline") <=> (sync' = "Offline")
        /\ ~Good(peer, sync) /\ sync # "Offline"
    BY <1>1 DEF Good, Kinds
  <1>8. NewsAgree'
    BY <1>2, <1>3 DEF NewsAgree
  <1>9. NotOn'
    BY <1>1 DEF NotOn
  <1>10. On'
    BY <1>1, <1>2, <1>3, <1>5, <1>6, <1>7 DEF On, WillBeOnline, WillNotBeOnline
  <1>11. QED
    BY <1>8, <1>9, <1>10

\* The sync loop and the API leave the table and the channel alone.
LEMMA FollowedWrite ==
  ASSUME TypeOK, Followed, UNCHANGED <<peer, table, watcher>>,
         doubted => doubted',
         ~doubted' => /\ watch # "on" => sync' = sync
                      /\ \/ sync' = sync /\ (stored' = "Online" <=> stored = "Online")
                         \/ Good(peer, sync) /\ sync' = "idle" /\ stored' = "Online"
                         \/ sync = "Offline" /\ sync' = "idle" /\ stored' # "Online"
                         \/ /\ ~Good(peer, sync) /\ sync # "Offline" /\ sync' = "idle"
                            /\ stored' = stored
  PROVE  Followed'
  <1> SUFFICES ASSUME ~doubted' PROVE NewsAgree' /\ NotOn' /\ On'
    BY Zenon DEF Followed
  <1>1. NewsAgree /\ NotOn /\ On
    BY Zenon DEF Followed
  <1>2. /\ peer' = peer /\ watch' = watch /\ snapshot' = snapshot /\ queue' = queue
        /\ route' = route /\ behind' = behind /\ telling' = telling
    BY DEF table, watcher
  <1>3. /\ Up' = Up /\ ToTellGood' = ToTellGood /\ ToTellOffline' = ToTellOffline
        /\ EndsGood(peer, queue)' = EndsGood(peer, queue)
        /\ EndsOffline(peer, queue)' = EndsOffline(peer, queue)
        /\ Quiet(peer, queue)' = Quiet(peer, queue)
        /\ SomeOffline(queue)' = SomeOffline(queue)
        /\ Good(peer, sync)' = Good(peer, sync')
    BY <1>2 DEF Up, Reachable, Exists, ToTellGood, ToTellOffline, EndsGood, EndsOffline, Quiet,
                SomeOffline, Good
  <1>4. ~Good(peer, "idle") /\ (Good(peer, sync) => sync # "Offline")
    BY DEF Good
  <1>5. NewsAgree'
    BY <1>1, <1>3 DEF NewsAgree
  <1>6. NotOn'
    <2>1. watch # "on" => sync = "idle"
      BY <1>1 DEF NotOn
    <2>2. watch # "on" => stored' # "Online" /\ sync' = "idle"
      BY <1>1, <1>4, <2>1 DEF NotOn
    <2>3. QED
      BY <1>1, <1>2, <1>3, <2>2 DEF NotOn
  <1>7. WillBeOnline => WillBeOnline'
    BY <1>3, <1>4 DEF WillBeOnline
  <1>8. WillNotBeOnline => WillNotBeOnline'
    BY <1>3, <1>4 DEF WillNotBeOnline
  <1>9. On'
    BY <1>1, <1>2, <1>3, <1>7, <1>8 DEF On
  <1>10. QED
    BY <1>5, <1>6, <1>9

LEMMA WriteOnline ==
  ASSUME NEW phase \in Phases, Write(phase), ~doubted', phase # "none"
  PROVE  ~doubted /\ cached = stored /\ stored' = phase
  BY DEF Write, Patched

LEMMA FollowedStep == TypeOK /\ Followed /\ [Next]_vars => Followed'
  <1> SUFFICES ASSUME TypeOK, Followed, [Next]_vars PROVE Followed'
    OBVIOUS
  <1>1. ASSUME NEW s \in Streams, NEW peers \in SUBSET Behind[s], Connect(s, peers)
        PROVE  Followed'
    BY <1>1, FollowedConnect
  <1>2. ASSUME NEW s \in Streams, Disconnect(s)
        PROVE  Followed'
    BY <1>2, FollowedDisconnect
  <1>3. ASSUME NEW s \in Streams, LoseLock(s)
        PROVE  Followed'
    <2>1. UNCHANGED <<peer, status, route, behind, telling, updates, watcher, sync, stored, cached, doubted>>
      BY <1>3 DEF LoseLock
    <2>2. QED
      BY <2>1
      DEF Followed, NewsAgree, NotOn, On, Up, Reachable, Exists, ToTellGood, ToTellOffline, WillBeOnline,
          WillNotBeOnline, EndsGood, EndsOffline, Quiet, SomeOffline, Good, watcher
  <1>4. ASSUME NEW s \in Streams, NEW w \in Workers, NEW kind \in Kinds,
               NEW peers \in SUBSET Behind[s], RecvRoute(s, w, kind, peers)
        PROVE  Followed'
    <2>1. peers \subseteq Peers /\ peers \cap Hubs = {}
      BY EdgeStatusAssumption
    <2>2. QED
      BY <1>4, <2>1, FollowedUpdate DEF RecvRoute
  <1>5. ASSUME NEW s \in Streams, NEW w \in Workers, RecvKeepAlive(s, w)
        PROVE  Followed'
    <2>1. behind[RemoteID[s]] \subseteq Peers /\ "KeepAlive" \in Kinds
      BY EdgeStatusAssumption DEF TypeOK, Kinds
    <2>2. QED
      BY <1>5, <2>1, FollowedUpdate DEF RecvKeepAlive
  <1>6. ASSUME NEW g \in Streams \cup Workers, Tell(g)
        PROVE  Followed'
    BY <1>6, FollowedTell DEF Tellers
  <1>7. CASE Watch
    <2>1. /\ UNCHANGED <<peer, status, route, behind, telling, snapshot, queue, sync, stored, doubted>>
          /\ watch = "off" /\ watch' = "added"
      BY <1>7 DEF Watch, table
    <2>2. QED
      BY <2>1
      DEF Followed, NewsAgree, NotOn, On, Up, Reachable, Exists, ToTellGood, ToTellOffline,
          EndsGood, EndsOffline, Quiet, Good
  <1>8. CASE ReadPeers
    <2>1. /\ UNCHANGED <<peer, status, route, behind, telling, queue, sync, stored, doubted>>
          /\ watch = "added" /\ watch' = "read" /\ snapshot' = Up
      BY <1>8 DEF ReadPeers, table, Up
    <2>2. Up' = Up
      BY <2>1 DEF Up, Reachable, Exists
    <2>3. QED
      BY <2>1, <2>2
      DEF Followed, NewsAgree, NotOn, On, ToTellGood, ToTellOffline,
          EndsGood, EndsOffline, Quiet, Good
  <1>9. CASE SendInit
    BY <1>9, FollowedSendInit
  <1>10. CASE Receive
    BY <1>10, FollowedReceive
  <1>11. CASE OnTunnelConnectedStatusChange
    <2>1. /\ UNCHANGED <<peer, table, watcher>> /\ sync # "idle" /\ sync' = "idle"
          /\ IF peer \in Hubs /\ sync = "KeepAlive" THEN UNCHANGED <<stored, doubted>>
             ELSE Write(IF sync = "Offline" THEN "Offline" ELSE "Online")
      BY <1>11 DEF OnTunnelConnectedStatusChange
    <2>2. doubted => doubted'
      BY <2>1 DEF Write
    <2>3. ~doubted' => watch = "on"
      <3>1. ~doubted' => NotOn
        BY <2>2, Zenon DEF Followed
      <3>2. QED
        BY <2>1, <3>1 DEF NotOn
    <2>4. sync \in Kinds /\ "Online" \in Phases /\ "Offline" \in Phases
      BY <2>1 DEF TypeOK, Phases
    <2>5. CASE peer \in Hubs /\ sync = "KeepAlive"
      BY <2>1, <2>2, <2>3, <2>5, FollowedWrite DEF Good
    <2>6. CASE ~(peer \in Hubs /\ sync = "KeepAlive") /\ sync = "Offline"
      <3>1. ~doubted' => stored' = "Offline"
        BY <2>1, <2>4, <2>6, WriteOnline
      <3>2. QED
        BY <2>1, <2>2, <2>3, <2>6, <3>1, FollowedWrite
    <2>7. CASE ~(peer \in Hubs /\ sync = "KeepAlive") /\ sync # "Offline"
      <3>1. ~doubted' => stored' = "Online"
        BY <2>1, <2>4, <2>7, WriteOnline
      <3>2. Good(peer, sync)
        BY <2>4, <2>7 DEF Good, Kinds
      <3>3. QED
        BY <2>1, <2>2, <2>3, <3>1, <3>2, FollowedWrite
    <2>8. QED
      BY <2>5, <2>6, <2>7
  <1>12. CASE WriteFails
    BY <1>12 DEF WriteFails, Followed
  <1>13. CASE CatchUp
    BY <1>13, FollowedWrite DEF CatchUp
  <1>14. CASE PreCreate
    <2>1. UNCHANGED <<peer, table, watcher, sync>> /\ Write(IF cached = "Online" THEN "Online" ELSE "Waiting")
      BY <1>14 DEF PreCreate
    <2>2. doubted => doubted'
      BY <2>1 DEF Write
    <2>3. ~doubted' => (stored' = "Online" <=> stored = "Online")
      BY <2>1, WriteOnline DEF Phases
    <2>4. QED
      BY <2>1, <2>2, <2>3, FollowedWrite
  <1>15. CASE Delete
    BY <1>15 DEF Delete, Followed
  <1>16. CASE Restart
    <2>1. /\ \A g \in Tellers : telling'[g] = "told"
          /\ watch' = "off" /\ queue' = <<>> /\ sync' = "idle" /\ stored' = stored
      BY <1>16 DEF Restart, Tellers
    <2>2. ~doubted' => stored' # "Online"
      BY <1>16, <2>1 DEF Restart
    <2>3. ~ToTellGood'
      BY <2>1 DEF ToTellGood, Good
    <2>4. Quiet(peer, queue)'
      BY <2>1 DEF Quiet
    <2>5. QED
      BY <2>1, <2>2, <2>3, <2>4 DEF Followed, NewsAgree, NotOn, On
  <1>17. CASE UNCHANGED vars
    <2>1. UNCHANGED <<peer, status, route, behind, telling, watch, snapshot, queue, sync, stored, doubted>>
      BY <1>17 DEF vars, table, watcher
    <2>2. QED
      BY <2>1
      DEF Followed, NewsAgree, NotOn, On, Up, Reachable, Exists, ToTellGood, ToTellOffline, WillBeOnline,
          WillNotBeOnline, EndsGood, EndsOffline, Quiet, SomeOffline, Good
  <1>18. QED
    BY <1>1, <1>2, <1>3, <1>4, <1>5, <1>6, <1>7, <1>8, <1>9, <1>10, <1>11, <1>12, <1>13,
       <1>14, <1>15, <1>16, <1>17 DEF Next, Subscribe, Sync

LEMMA FollowedRests == Followed => RestMeansTrue
  <1> SUFFICES ASSUME Followed, Rest, ~doubted PROVE stored = "Online" <=> peer \in Reachable
    BY DEF RestMeansTrue
  <1>1. On
    BY Zenon DEF Followed
  <1>2. ~ToTellGood /\ ~ToTellOffline
    BY DEF Rest, ToTellGood, ToTellOffline, Good, Tellers
  <1>3. queue = <<>> /\ sync = "idle" /\ watch = "on"
    BY DEF Rest
  <1>4. ~EndsGood(peer, queue) /\ ~EndsOffline(peer, queue) /\ ~Good(peer, sync)
    BY <1>3 DEF EndsGood, EndsOffline, Good
  <1>5. QED
    BY <1>1, <1>2, <1>3, <1>4 DEF On, WillBeOnline, WillNotBeOnline, Up

\* Once every event has been applied, what is stored as Online is what the route
\* table reaches, unless one of the hazards that RestMeansTrue names has struck.
THEOREM RestIsTrue == Spec => []RestMeansTrue
  <1>1. Init => Followed
    BY FollowedInit
  <1>2. TypeOK /\ Followed /\ [Next]_vars => Followed'
    BY FollowedStep
  <1>3. Followed => RestMeansTrue
    BY FollowedRests
  <1>4. QED
    BY <1>1, <1>2, <1>3, TypeCorrect, PTL DEF Spec
=============================================================================
