--------------------------- MODULE RouteTable_proofs ---------------------------
(***************************************************************************)
(* What holds of every route table, however many tunnels, goroutines and   *)
(* peers there are and however long it runs.                               *)
(***************************************************************************)
EXTENDS RouteTable, TLAPS

-----------------------------------------------------------------------------
(* Type correctness, one lemma per group of actions                         *)

LEMMA InitTypeOK == Init => TypeOK
  BY RouteTableAssumption
  DEF Init, TypeOK, Procs, NoRecord, NoJob, JobAtRest, Refresh, Record, Job, Kinds, UpdateKinds,
      StreamPCs, WorkerPCs, TickerPCs

\* What a server knows is a set of peers.
LEMMA ReachableType ==
  ASSUME TypeOK, NEW x
  PROVE  AllReachablePeers(x) \subseteq Peers
  BY DEF AllReachablePeers, TypeOK, Record, Exists

LEMMA SendType ==
  ASSUME TypeOK, NEW s \in Streams, NEW k \in Kinds, NEW ps \in SUBSET Peers, Send(s, k, ps)
  PROVE  out' \in [Streams -> Seq(RoutePacket)]
<1>1. [kind |-> k, peers |-> ps] \in RoutePacket
  BY DEF RoutePacket
<1>2. Append(out[s], [kind |-> k, peers |-> ps]) \in Seq(RoutePacket)
  BY <1>1 DEF TypeOK
<1> QED
  BY <1>2 DEF Send, TypeOK

LEMMA StreamType ==
  ASSUME TypeOK, NEW s \in Streams, StreamStep(s)
  PROVE  TypeOK'
<1> USE RouteTableAssumption
<1>1. CASE Authenticate(s)
  BY <1>1 DEF Authenticate, TypeOK, Procs, StreamPCs
<1>2. CASE ExistsCheck(s)
  BY <1>2 DEF ExistsCheck, TypeOK, Procs, StreamPCs
<1>3. CASE AdvertiseInit(s)
  <2>1. out' \in [Streams -> Seq(RoutePacket)]
    BY <1>3, SendType, ReachableType DEF AdvertiseInit, Kinds
  <2> QED
    BY <1>3, <2>1 DEF AdvertiseInit, TypeOK, Procs, StreamPCs
<1>4. CASE ExchangeFails(s)
  BY <1>4 DEF ExchangeFails, TypeOK, Procs, StreamPCs
<1>5. CASE Connect(s)
  <2>1. PICK peers \in SUBSET Behind[s] : job' = [job EXCEPT ![s] = Refresh(s, peers)]
    BY <1>5 DEF Connect
  <2>2. Refresh(s, peers) \in Job
    BY DEF Refresh, Job, Kinds
  <2>3. job' \in [Procs -> Job]
    BY <2>1, <2>2 DEF TypeOK, Procs
  <2> QED
    BY <1>5, <2>3 DEF Connect, DefaultOutAfter, TypeOK, Procs, StreamPCs
<1>6. CASE RecvError(s)
  BY <1>6 DEF RecvError, TypeOK, Procs, StreamPCs
<1>7. CASE Disconnect(s)
  <2>1. Removed(s) \in Job
    BY DEF Removed, Job, Kinds, UpdateKinds, TypeOK, Record
  <2>2. NoRecord \in Record
    BY DEF NoRecord, Record
  <2> QED
    BY <1>7, <2>1, <2>2 DEF Disconnect, TypeOK, Procs, StreamPCs
<1>8. CASE DisconnectMissing(s)
  BY <1>8 DEF DisconnectMissing, TypeOK, Procs, StreamPCs
<1> QED
  BY <1>1, <1>2, <1>3, <1>4, <1>5, <1>6, <1>7, <1>8 DEF StreamStep

LEMMA UpdateType ==
  ASSUME TypeOK, NEW s \in Streams, NEW w \in Workers, RecvRoute(s, w)
  PROVE  TypeOK'
<1> USE RouteTableAssumption
<1>1. PICK kind \in UpdateKinds, peers \in SUBSET Behind[s] :
        job' = [job EXCEPT ![w] = [from |-> s, kind |-> kind, peers |-> peers]]
  BY DEF RecvRoute
<1>2. [from |-> s, kind |-> kind, peers |-> peers] \in Job
  BY DEF Job, Kinds
<1>3. job' \in [Procs -> Job]
  BY <1>1, <1>2 DEF TypeOK, Procs
<1>4. updates' \in 0 .. MaxUpdates
  BY DEF RecvRoute, TypeOK
<1> QED
  BY <1>3, <1>4 DEF RecvRoute, TypeOK, Procs, WorkerPCs

LEMMA ChangeType ==
  ASSUME TypeOK, NEW p \in Streams \cup Workers, ChangeStep(p),
         pc[p] \in {"lock", "adv", "dadv", "send", "dsend"} => job[p].from \in Streams
  PROVE  TypeOK'
<1> USE RouteTableAssumption
<1>1. CASE Lock(p)
  BY <1>1 DEF Lock, TypeOK, Procs
<1>2. CASE OnChange(p)
  <2>1. job[p] \in Job /\ job[p].from \in Streams
    BY <1>2 DEF OnChange, TypeOK, Procs
  <2>2. Changed(job[p]) \in Job
    BY <2>1 DEF Changed, Job, Kinds, UpdateKinds
  <2>3. \A rec \in Record : Updated(rec, job[p]) \in Record
    BY <2>1 DEF Updated, Job, Record
  <2>4. records' \in [Peers -> Record]
    BY <1>2, <2>3 DEF OnChange, TypeOK
  <2>5. job' \in [Procs -> Job]
    BY <1>2, <2>2 DEF OnChange, TypeOK
  <2> QED
    BY <1>2, <2>4, <2>5 DEF OnChange, TypeOK, Procs, StreamPCs, WorkerPCs
<1>3. CASE OnChangeMissing(p)
  BY <1>3 DEF OnChangeMissing, TypeOK, Procs, StreamPCs, WorkerPCs
<1>4. CASE AdvertiseBegin(p)
  <2>1. UpstreamChannels({RemoteID[job[p].from]}) \subseteq Streams
    BY DEF UpstreamChannels
  <2> QED
    BY <1>4, <2>1 DEF AdvertiseBegin, TypeOK, Procs, StreamPCs, WorkerPCs
<1>5. CASE AdvertiseSend(p)
  <2>1. PICK s \in todo[p] : Send(s, job[p].kind, job[p].peers)
                           /\ todo' = [todo EXCEPT ![p] = @ \ {s}]
    BY <1>5 DEF AdvertiseSend
  <2>2. s \in Streams /\ job[p].kind \in Kinds /\ job[p].peers \in SUBSET Peers
    BY DEF TypeOK, Procs, Job
  <2>3. out' \in [Streams -> Seq(RoutePacket)]
    BY <2>1, <2>2, SendType
  <2>4. todo' \in [Procs -> SUBSET Streams]
    BY <2>1 DEF TypeOK
  <2> QED
    BY <1>5, <2>3, <2>4 DEF AdvertiseSend, TypeOK
<1>6. CASE AdvertiseEnd(p)
  <2>1. JobAtRest(p) \in Job
    BY DEF JobAtRest, Refresh, NoJob, Job, Kinds
  <2>2. AfterAdvertise(p) \in IF p \in Workers THEN WorkerPCs ELSE StreamPCs
    BY DEF AfterAdvertise, WorkerPCs, StreamPCs
  <2> QED
    BY <1>6, <2>1, <2>2 DEF AdvertiseEnd, TypeOK, Procs
<1> QED
  BY <1>1, <1>2, <1>3, <1>4, <1>5, <1>6 DEF ChangeStep

LEMMA KeepAliveType ==
  ASSUME TypeOK, KeepAliveStep
  PROVE  TypeOK'
<1> USE RouteTableAssumption
<1>1. CASE KeepAliveBegin
  BY <1>1 DEF KeepAliveBegin, UpstreamChannels, TypeOK, Procs, TickerPCs
<1>2. CASE AdvertiseKeepalive
  <2>1. PICK s \in todo[Ticker] :
          /\ Send(s, "KeepAlive", AllReachablePeers(RemoteID[s]))
          /\ todo' = [todo EXCEPT ![Ticker] = @ \ {s}]
    BY <1>2 DEF AdvertiseKeepalive
  <2>2. s \in Streams
    BY DEF TypeOK, Procs
  <2>3. out' \in [Streams -> Seq(RoutePacket)]
    BY <2>1, <2>2, SendType, ReachableType DEF Kinds, UpdateKinds
  <2>4. todo' \in [Procs -> SUBSET Streams]
    BY <2>1 DEF TypeOK
  <2> QED
    BY <1>2, <2>3, <2>4 DEF AdvertiseKeepalive, TypeOK
<1>3. CASE KeepAliveEnd
  BY <1>3 DEF KeepAliveEnd, TypeOK, Procs, TickerPCs
<1> QED
  BY <1>1, <1>2, <1>3 DEF KeepAliveStep
-----------------------------------------------------------------------------
(* The inductive invariant                                                  *)

\* The lock: a writer has called Lock and not yet released it, only the writer
\* can have left without releasing it, and the readers are those that advertise.
LockInv ==
  /\ writer # None => pc[writer] \in {"lock", "dlock", "leaked"}
  /\ \A p \in Procs : pc[p] = "leaked" => writer = p
  /\ \A p \in Procs : p \in readers <=> pc[p] \in {"send", "dsend", "keepalive"}

\* A tunnel's goroutine carries the tunnel's own Refresh until OnChange has run,
\* and a worker an update of a tunnel that has been registered.
JobInv ==
  /\ \A s \in Streams : job[s].from = s
  /\ \A s \in Streams :
       pc[s] \in {"idle", "exists", "exchange", "await", "lock"} => job[s].kind = "Refresh"
  /\ \A w \in Workers :
       pc[w] # "idle" =>
         /\ job[w].from \in Streams \ Upstream
         /\ Registered(job[w].from) \/ Left(job[w].from)
  /\ \A w \in Workers : pc[w] \in {"spawned", "lock"} => job[w].kind # "Refresh"
  /\ \A p \in Streams \cup Workers :
       pc[p] \in {"adv", "send", "dadv", "dsend"} => job[p].kind # "Refresh"

\* A record leads to a registered tunnel that presented its id.
RecordInv ==
  \A p \in Peers :
    Exists(p) => /\ records[p].chan \in Streams
                 /\ RemoteID[records[p].chan] = p
                 /\ Registered(records[p].chan)

Inv ==
  /\ TypeOK
  /\ LockInv
  /\ JobInv
  /\ RecordInv
  /\ ConnectedIsRoutable
  /\ WedgedOnlyAfterDisconnect

LEMMA InitInv == Init => Inv
<1> SUFFICES ASSUME Init PROVE Inv
  OBVIOUS
<1> USE RouteTableAssumption DEF Init
<1>1. LockInv /\ JobInv
  BY DEF LockInv, JobInv, Procs, JobAtRest, Refresh
<1>2. RecordInv /\ ConnectedIsRoutable
  BY DEF RecordInv, ConnectedIsRoutable, Exists, NoRecord, Registered, Procs
<1>3. WedgedOnlyAfterDisconnect
  BY DEF WedgedOnlyAfterDisconnect, Wedged
<1> QED
  BY <1>1, <1>2, <1>3, InitTypeOK DEF Inv

LEMMA TypeStep ==
  ASSUME TypeOK, JobInv, [Next]_vars
  PROVE  TypeOK'
<1>1. ASSUME NEW p \in Streams \cup Workers, ChangeStep(p) PROVE TypeOK'
  <2>1. pc[p] \in {"lock", "adv", "dadv", "send", "dsend"} => job[p].from \in Streams
    BY RouteTableAssumption DEF JobInv
  <2> QED
    BY <1>1, <2>1, ChangeType
<1>2. ASSUME NEW w \in Workers, StartWorker(w) PROVE TypeOK'
  BY <1>2, RouteTableAssumption DEF StartWorker, TypeOK, Procs, WorkerPCs
<1>3. CASE UNCHANGED vars
  BY <1>3 DEF vars, TypeOK
<1> QED
  BY <1>1, <1>2, <1>3, StreamType, UpdateType, KeepAliveType DEF Next

LEMMA LockStep ==
  ASSUME TypeOK, LockInv, [Next]_vars
  PROVE  LockInv'
<1> USE RouteTableAssumption DEF TypeOK, LockInv, Procs, StreamPCs, WorkerPCs, TickerPCs
<1>1. ASSUME NEW s \in Streams, Authenticate(s) PROVE LockInv'
  BY <1>1 DEF Authenticate
<1>2. ASSUME NEW s \in Streams, ExistsCheck(s) PROVE LockInv'
  BY <1>2 DEF ExistsCheck
<1>3. ASSUME NEW s \in Streams, AdvertiseInit(s) PROVE LockInv'
  BY <1>3 DEF AdvertiseInit
<1>4. ASSUME NEW s \in Streams, ExchangeFails(s) PROVE LockInv'
  BY <1>4 DEF ExchangeFails
<1>5. ASSUME NEW s \in Streams, Connect(s) PROVE LockInv'
  BY <1>5 DEF Connect
<1>6. ASSUME NEW s \in Streams, RecvError(s) PROVE LockInv'
  BY <1>6 DEF RecvError
<1>7. ASSUME NEW s \in Streams, Disconnect(s) PROVE LockInv'
  BY <1>7 DEF Disconnect, Holds
<1>8. ASSUME NEW s \in Streams, DisconnectMissing(s) PROVE LockInv'
  BY <1>8 DEF DisconnectMissing, Holds
<1>9. ASSUME NEW s \in Streams, NEW w \in Workers, RecvRoute(s, w) PROVE LockInv'
  BY <1>9 DEF RecvRoute
<1>10. ASSUME NEW w \in Workers, StartWorker(w) PROVE LockInv'
  BY <1>10 DEF StartWorker
<1>11. ASSUME NEW p \in Streams \cup Workers, Lock(p) PROVE LockInv'
  BY <1>11 DEF Lock
<1>12. ASSUME NEW p \in Streams \cup Workers, OnChange(p) PROVE LockInv'
  BY <1>12 DEF OnChange, Holds
<1>13. ASSUME NEW p \in Streams \cup Workers, OnChangeMissing(p) PROVE LockInv'
  BY <1>13 DEF OnChangeMissing, Holds
<1>14. ASSUME NEW p \in Streams \cup Workers, AdvertiseBegin(p) PROVE LockInv'
  BY <1>14 DEF AdvertiseBegin
<1>15. ASSUME NEW p \in Streams \cup Workers, AdvertiseSend(p) PROVE LockInv'
  BY <1>15 DEF AdvertiseSend
<1>16. ASSUME NEW p \in Streams \cup Workers, AdvertiseEnd(p) PROVE LockInv'
  BY <1>16 DEF AdvertiseEnd, AfterAdvertise
<1>17. CASE KeepAliveBegin
  BY <1>17 DEF KeepAliveBegin
<1>18. CASE AdvertiseKeepalive
  BY <1>18 DEF AdvertiseKeepalive
<1>19. CASE KeepAliveEnd
  BY <1>19 DEF KeepAliveEnd
<1>20. CASE UNCHANGED vars
  BY <1>20 DEF vars
<1> QED
  BY <1>1, <1>2, <1>3, <1>4, <1>5, <1>6, <1>7, <1>8, <1>9, <1>10,
     <1>11, <1>12, <1>13, <1>14, <1>15, <1>16, <1>17, <1>18, <1>19, <1>20
  DEF Next, StreamStep, ChangeStep, KeepAliveStep

LEMMA JobStep ==
  ASSUME TypeOK, JobInv, [Next]_vars
  PROVE  JobInv'
<1> USE RouteTableAssumption DEF TypeOK, JobInv, Registered, Left, Procs, StreamPCs, WorkerPCs, TickerPCs
<1>1. ASSUME NEW s \in Streams, Authenticate(s) PROVE JobInv'
  BY <1>1 DEF Authenticate
<1>2. ASSUME NEW s \in Streams, ExistsCheck(s) PROVE JobInv'
  BY <1>2 DEF ExistsCheck
<1>3. ASSUME NEW s \in Streams, AdvertiseInit(s) PROVE JobInv'
  BY <1>3 DEF AdvertiseInit
<1>4. ASSUME NEW s \in Streams, ExchangeFails(s) PROVE JobInv'
  BY <1>4 DEF ExchangeFails
<1>5. ASSUME NEW s \in Streams, Connect(s) PROVE JobInv'
  BY <1>5 DEF Connect, Refresh
<1>6. ASSUME NEW s \in Streams, RecvError(s) PROVE JobInv'
  BY <1>6 DEF RecvError
<1>7. ASSUME NEW s \in Streams, Disconnect(s) PROVE JobInv'
  BY <1>7 DEF Disconnect, Removed
<1>8. ASSUME NEW s \in Streams, DisconnectMissing(s) PROVE JobInv'
  BY <1>8 DEF DisconnectMissing
<1>9. ASSUME NEW s \in Streams, NEW w \in Workers, RecvRoute(s, w) PROVE JobInv'
  BY <1>9 DEF RecvRoute, UpdateKinds
<1>10. ASSUME NEW w \in Workers, StartWorker(w) PROVE JobInv'
  BY <1>10 DEF StartWorker
<1>11. ASSUME NEW p \in Streams \cup Workers, Lock(p) PROVE JobInv'
  BY <1>11 DEF Lock
<1>12. ASSUME NEW p \in Streams \cup Workers, OnChange(p) PROVE JobInv'
  BY <1>12 DEF OnChange, Changed
<1>13. ASSUME NEW p \in Streams \cup Workers, OnChangeMissing(p) PROVE JobInv'
  BY <1>13 DEF OnChangeMissing
<1>14. ASSUME NEW p \in Streams \cup Workers, AdvertiseBegin(p) PROVE JobInv'
  BY <1>14 DEF AdvertiseBegin
<1>15. ASSUME NEW p \in Streams \cup Workers, AdvertiseSend(p) PROVE JobInv'
  BY <1>15 DEF AdvertiseSend
<1>16. ASSUME NEW p \in Streams \cup Workers, AdvertiseEnd(p) PROVE JobInv'
  BY <1>16 DEF AdvertiseEnd, AfterAdvertise, JobAtRest, Refresh, NoJob
<1>17. CASE KeepAliveBegin
  BY <1>17 DEF KeepAliveBegin
<1>18. CASE AdvertiseKeepalive
  BY <1>18 DEF AdvertiseKeepalive
<1>19. CASE KeepAliveEnd
  BY <1>19 DEF KeepAliveEnd
<1>20. CASE UNCHANGED vars
  BY <1>20 DEF vars
<1> QED
  BY <1>1, <1>2, <1>3, <1>4, <1>5, <1>6, <1>7, <1>8, <1>9, <1>10,
     <1>11, <1>12, <1>13, <1>14, <1>15, <1>16, <1>17, <1>18, <1>19, <1>20
  DEF Next, StreamStep, ChangeStep, KeepAliveStep

\* What OnChange does to the channels: only that of an absent record changes.
LEMMA OnChangeEffect ==
  ASSUME TypeOK, JobInv, NEW p \in Streams \cup Workers, OnChange(p)
  PROVE  /\ job[p].from \in Streams /\ RemoteID[job[p].from] \in Peers
         /\ pc' = [pc EXCEPT ![p] = "adv"]
         /\ \A q \in Peers : records'[q].chan =
              IF q = RemoteID[job[p].from] /\ ~Exists(q) THEN job[p].from
              ELSE records[q].chan
<1>1. job[p].from \in Streams /\ RemoteID[job[p].from] \in Peers
  <2>1. CASE p \in Streams
    BY <2>1, RouteTableAssumption DEF JobInv
  <2>2. CASE p \in Workers
    <3>1. pc[p] # "idle"
      BY DEF OnChange
    <3> QED
      BY <2>2, <3>1, RouteTableAssumption DEF JobInv
  <2> QED
    BY <2>1, <2>2
<1>2. /\ records' = [records EXCEPT ![RemoteID[job[p].from]] =
                      Updated(records[RemoteID[job[p].from]], job[p])]
      /\ pc' = [pc EXCEPT ![p] = "adv"]
  BY DEF OnChange
<1>3. \A rec : Updated(rec, job[p]).chan =
        IF rec.chan = None THEN job[p].from ELSE rec.chan
  BY DEF Updated
<1>4. records \in [Peers -> Record]
  BY DEF TypeOK
<1> QED
  BY <1>1, <1>2, <1>3, <1>4 DEF Exists

LEMMA RecordStep ==
  ASSUME TypeOK, JobInv, RecordInv, [Next]_vars
  PROVE  RecordInv'
<1>0. \A p \in Streams \cup Workers : OnChange(p) =>
        /\ job[p].from \in Streams /\ RemoteID[job[p].from] \in Peers
        /\ pc' = [pc EXCEPT ![p] = "adv"]
        /\ \A q \in Peers : records'[q].chan =
             IF q = RemoteID[job[p].from] /\ ~Exists(q) THEN job[p].from
             ELSE records[q].chan
  BY OnChangeEffect
<1> USE RouteTableAssumption DEF TypeOK, JobInv, RecordInv, Registered, Exists, Procs, StreamPCs, WorkerPCs, TickerPCs
<1>1. ASSUME NEW s \in Streams, Authenticate(s) PROVE RecordInv'
  BY <1>1 DEF Authenticate
<1>2. ASSUME NEW s \in Streams, ExistsCheck(s) PROVE RecordInv'
  BY <1>2 DEF ExistsCheck
<1>3. ASSUME NEW s \in Streams, AdvertiseInit(s) PROVE RecordInv'
  BY <1>3 DEF AdvertiseInit
<1>4. ASSUME NEW s \in Streams, ExchangeFails(s) PROVE RecordInv'
  BY <1>4 DEF ExchangeFails
<1>5. ASSUME NEW s \in Streams, Connect(s) PROVE RecordInv'
  BY <1>5 DEF Connect
<1>6. ASSUME NEW s \in Streams, RecvError(s) PROVE RecordInv'
  BY <1>6 DEF RecvError
<1>7. ASSUME NEW s \in Streams, Disconnect(s) PROVE RecordInv'
  BY <1>7 DEF Disconnect, NoRecord
<1>8. ASSUME NEW s \in Streams, DisconnectMissing(s) PROVE RecordInv'
  BY <1>8 DEF DisconnectMissing
<1>9. ASSUME NEW s \in Streams, NEW w \in Workers, RecvRoute(s, w) PROVE RecordInv'
  BY <1>9 DEF RecvRoute
<1>10. ASSUME NEW w \in Workers, StartWorker(w) PROVE RecordInv'
  BY <1>10 DEF StartWorker
<1>11. ASSUME NEW p \in Streams \cup Workers, Lock(p) PROVE RecordInv'
  BY <1>11 DEF Lock
<1>12. ASSUME NEW p \in Streams \cup Workers, OnChange(p) PROVE RecordInv'
  <2>1. /\ job[p].from \in Streams /\ RemoteID[job[p].from] \in Peers
        /\ pc' = [pc EXCEPT ![p] = "adv"]
        /\ \A q \in Peers : records'[q].chan =
             IF q = RemoteID[job[p].from] /\ ~Exists(q) THEN job[p].from
             ELSE records[q].chan
    BY <1>0, <1>12
  <2>2. \A s \in Streams : Registered(s) => Registered(s)'
    BY <2>1
  <2>3. SUFFICES ASSUME NEW q \in Peers, Exists(q)'
                 PROVE  /\ records'[q].chan \in Streams
                        /\ RemoteID[records'[q].chan] = q
                        /\ Registered(records[q].chan)'
    OBVIOUS
  <2>4. CASE Exists(q)
    <3>1. /\ records'[q].chan = records[q].chan /\ records[q].chan \in Streams
          /\ RemoteID[records[q].chan] = q /\ Registered(records[q].chan)
      BY <2>1, <2>4
    <3> QED
      BY <2>2, <3>1
  <2>5. CASE ~Exists(q)
    <3>1. q = RemoteID[job[p].from] /\ records'[q].chan = job[p].from
      BY <2>1, <2>3, <2>5
    <3>2. p \in Streams
      BY <1>12, <2>5, <3>1 DEF OnChange
    <3>3. job[p].from = p /\ pc'[p] = "adv"
      BY <2>1, <3>2
    <3> QED
      BY <2>1, <3>1, <3>3
  <2> QED
    BY <2>4, <2>5
<1>13. ASSUME NEW p \in Streams \cup Workers, OnChangeMissing(p) PROVE RecordInv'
  BY <1>13 DEF OnChangeMissing
<1>14. ASSUME NEW p \in Streams \cup Workers, AdvertiseBegin(p) PROVE RecordInv'
  BY <1>14 DEF AdvertiseBegin
<1>15. ASSUME NEW p \in Streams \cup Workers, AdvertiseSend(p) PROVE RecordInv'
  BY <1>15 DEF AdvertiseSend
<1>16. ASSUME NEW p \in Streams \cup Workers, AdvertiseEnd(p) PROVE RecordInv'
  BY <1>16 DEF AdvertiseEnd, AfterAdvertise
<1>17. CASE KeepAliveBegin
  BY <1>17 DEF KeepAliveBegin
<1>18. CASE AdvertiseKeepalive
  BY <1>18 DEF AdvertiseKeepalive
<1>19. CASE KeepAliveEnd
  BY <1>19 DEF KeepAliveEnd
<1>20. CASE UNCHANGED vars
  BY <1>20 DEF vars
<1> QED
  BY <1>1, <1>2, <1>3, <1>4, <1>5, <1>6, <1>7, <1>8, <1>9, <1>10,
     <1>11, <1>12, <1>13, <1>14, <1>15, <1>16, <1>17, <1>18, <1>19, <1>20
  DEF Next, StreamStep, ChangeStep, KeepAliveStep

LEMMA RoutableStep ==
  ASSUME TypeOK, JobInv, ConnectedIsRoutable, [Next]_vars
  PROVE  ConnectedIsRoutable'
<1>0. \A p \in Streams \cup Workers : OnChange(p) =>
        /\ job[p].from \in Streams /\ RemoteID[job[p].from] \in Peers
        /\ pc' = [pc EXCEPT ![p] = "adv"]
        /\ \A q \in Peers : records'[q].chan =
             IF q = RemoteID[job[p].from] /\ ~Exists(q) THEN job[p].from
             ELSE records[q].chan
  BY OnChangeEffect
<1> USE RouteTableAssumption DEF TypeOK, JobInv, ConnectedIsRoutable, Registered, Left, Exists, Procs, StreamPCs, WorkerPCs, TickerPCs
<1>1. ASSUME NEW s \in Streams, Authenticate(s) PROVE ConnectedIsRoutable'
  <2>1. PICK result \in {"exists", "failed"} : pc' = [pc EXCEPT ![s] = result]
    BY <1>1 DEF Authenticate
  <2> QED
    BY <1>1, <2>1 DEF Authenticate
<1>2. ASSUME NEW s \in Streams, ExistsCheck(s) PROVE ConnectedIsRoutable'
  BY <1>2 DEF ExistsCheck
<1>3. ASSUME NEW s \in Streams, AdvertiseInit(s) PROVE ConnectedIsRoutable'
  BY <1>3 DEF AdvertiseInit
<1>4. ASSUME NEW s \in Streams, ExchangeFails(s) PROVE ConnectedIsRoutable'
  BY <1>4 DEF ExchangeFails
<1>5. ASSUME NEW s \in Streams, Connect(s) PROVE ConnectedIsRoutable'
  BY <1>5 DEF Connect
<1>6. ASSUME NEW s \in Streams, RecvError(s) PROVE ConnectedIsRoutable'
  <2>1. /\ pc[s] = "loop" /\ pc' = [pc EXCEPT ![s] = "dlock"] /\ UNCHANGED records
    BY <1>6 DEF RecvError
  <2>2. \A t \in Streams : (Registered(t)' => Registered(t)) /\ (Left(t) => Left(t)')
    BY <2>1
  <2>3. \A q : Exists(q)' <=> Exists(q)
    BY <2>1
  <2> HIDE DEF Registered, Left, Exists, Procs, TypeOK, JobInv
  <2> QED
    BY <2>2, <2>3
<1>7. ASSUME NEW s \in Streams, Disconnect(s) PROVE ConnectedIsRoutable'
  BY <1>7 DEF Disconnect
<1>8. ASSUME NEW s \in Streams, DisconnectMissing(s) PROVE ConnectedIsRoutable'
  BY <1>8 DEF DisconnectMissing
<1>9. ASSUME NEW s \in Streams, NEW w \in Workers, RecvRoute(s, w) PROVE ConnectedIsRoutable'
  BY <1>9 DEF RecvRoute
<1>10. ASSUME NEW w \in Workers, StartWorker(w) PROVE ConnectedIsRoutable'
  BY <1>10 DEF StartWorker
<1>11. ASSUME NEW p \in Streams \cup Workers, Lock(p) PROVE ConnectedIsRoutable'
  BY <1>11 DEF Lock
<1>12. ASSUME NEW p \in Streams \cup Workers, OnChange(p) PROVE ConnectedIsRoutable'
  <2>1. /\ job[p].from \in Streams /\ RemoteID[job[p].from] \in Peers
        /\ pc' = [pc EXCEPT ![p] = "adv"]
        /\ \A q \in Peers : records'[q].chan =
             IF q = RemoteID[job[p].from] /\ ~Exists(q) THEN job[p].from
             ELSE records[q].chan
    BY <1>0, <1>12
  <2>2. \A q \in Peers : Exists(q) \/ q = RemoteID[job[p].from] => Exists(q)'
    BY <2>1
  <2>3. \A s \in Streams : Left(s) => Left(s)'
    BY <1>12, <2>1 DEF OnChange
  <2>4. \A s \in Streams : Registered(s)' => Registered(s) \/ s = job[p].from
    BY <1>12, <2>1 DEF OnChange
  <2> QED
    BY <2>1, <2>2, <2>3, <2>4
<1>13. ASSUME NEW p \in Streams \cup Workers, OnChangeMissing(p) PROVE ConnectedIsRoutable'
  BY <1>13 DEF OnChangeMissing
<1>14. ASSUME NEW p \in Streams \cup Workers, AdvertiseBegin(p) PROVE ConnectedIsRoutable'
  BY <1>14 DEF AdvertiseBegin
<1>15. ASSUME NEW p \in Streams \cup Workers, AdvertiseSend(p) PROVE ConnectedIsRoutable'
  BY <1>15 DEF AdvertiseSend
<1>16. ASSUME NEW p \in Streams \cup Workers, AdvertiseEnd(p) PROVE ConnectedIsRoutable'
  BY <1>16 DEF AdvertiseEnd, AfterAdvertise
<1>17. CASE KeepAliveBegin
  BY <1>17 DEF KeepAliveBegin
<1>18. CASE AdvertiseKeepalive
  BY <1>18 DEF AdvertiseKeepalive
<1>19. CASE KeepAliveEnd
  BY <1>19 DEF KeepAliveEnd
<1>20. CASE UNCHANGED vars
  BY <1>20 DEF vars
<1> QED
  BY <1>1, <1>2, <1>3, <1>4, <1>5, <1>6, <1>7, <1>8, <1>9, <1>10,
     <1>11, <1>12, <1>13, <1>14, <1>15, <1>16, <1>17, <1>18, <1>19, <1>20
  DEF Next, StreamStep, ChangeStep, KeepAliveStep

LEMMA WedgeStep ==
  ASSUME Inv, [Next]_vars
  PROVE  WedgedOnlyAfterDisconnect'
<1> USE RouteTableAssumption DEF Inv, TypeOK, LockInv, JobInv, Registered, Left, WedgedOnlyAfterDisconnect, Wedged, Procs, StreamPCs, WorkerPCs, TickerPCs
<1>1. ASSUME NEW s \in Streams, Authenticate(s) PROVE WedgedOnlyAfterDisconnect'
  BY <1>1 DEF Authenticate
<1>2. ASSUME NEW s \in Streams, ExistsCheck(s) PROVE WedgedOnlyAfterDisconnect'
  BY <1>2 DEF ExistsCheck
<1>3. ASSUME NEW s \in Streams, AdvertiseInit(s) PROVE WedgedOnlyAfterDisconnect'
  BY <1>3 DEF AdvertiseInit
<1>4. ASSUME NEW s \in Streams, ExchangeFails(s) PROVE WedgedOnlyAfterDisconnect'
  BY <1>4 DEF ExchangeFails
<1>5. ASSUME NEW s \in Streams, Connect(s) PROVE WedgedOnlyAfterDisconnect'
  BY <1>5 DEF Connect
<1>6. ASSUME NEW s \in Streams, RecvError(s) PROVE WedgedOnlyAfterDisconnect'
  BY <1>6 DEF RecvError
<1>7. ASSUME NEW s \in Streams, Disconnect(s) PROVE WedgedOnlyAfterDisconnect'
  BY <1>7 DEF Disconnect
<1>8. ASSUME NEW s \in Streams, DisconnectMissing(s) PROVE WedgedOnlyAfterDisconnect'
  <2>1. /\ writer = s /\ writer' = s /\ job' = job /\ job[s].from = s
        /\ pc' = [pc EXCEPT ![s] = "leaked"]
        /\ Registered(s) /\ ~Exists(RemoteID[s])
    BY <1>8 DEF DisconnectMissing, Holds
  <2>2. PICK t \in Streams \ {s} : RemoteID[t] = RemoteID[s] /\ Left(t)
    BY <2>1 DEF ConnectedIsRoutable
  <2>3. pc[t] # "leaked" /\ pc'[t] = pc[t]
    BY <2>1, <2>2
  <2> QED
    BY <2>1, <2>2, <2>3
<1>9. ASSUME NEW s \in Streams, NEW w \in Workers, RecvRoute(s, w) PROVE WedgedOnlyAfterDisconnect'
  BY <1>9 DEF RecvRoute
<1>10. ASSUME NEW w \in Workers, StartWorker(w) PROVE WedgedOnlyAfterDisconnect'
  BY <1>10 DEF StartWorker
<1>11. ASSUME NEW p \in Streams \cup Workers, Lock(p) PROVE WedgedOnlyAfterDisconnect'
  BY <1>11 DEF Lock
<1>12. ASSUME NEW p \in Streams \cup Workers, OnChange(p) PROVE WedgedOnlyAfterDisconnect'
  BY <1>12 DEF OnChange
<1>13. ASSUME NEW p \in Streams \cup Workers, OnChangeMissing(p) PROVE WedgedOnlyAfterDisconnect'
  <2> DEFINE t == job[p].from
  <2>1. p \in Workers /\ t \in Streams /\ ~Exists(RemoteID[t])
    BY <1>13 DEF OnChangeMissing
  <2>2. (Registered(t) \/ Left(t)) /\ ConnectedIsRoutable
    BY <1>13, <2>1 DEF OnChangeMissing
  <2>3. /\ writer = p /\ writer' = p /\ job' = job
        /\ pc' = [pc EXCEPT ![p] = "leaked"]
    BY <1>13 DEF OnChangeMissing, Holds
  <2>4. \A u \in Streams : u # p /\ pc[u] # "leaked"
    BY <2>1, <2>3
  <2>5. CASE Left(t)
    BY <2>1, <2>3, <2>4, <2>5
  <2>6. CASE Registered(t)
    <3>1. PICK u \in Streams \ {t} : RemoteID[u] = RemoteID[t] /\ Left(u)
      BY <2>1, <2>2, <2>6 DEF ConnectedIsRoutable
    <3> QED
      BY <2>1, <2>3, <2>4, <3>1
  <2> QED
    BY <2>2, <2>5, <2>6
<1>14. ASSUME NEW p \in Streams \cup Workers, AdvertiseBegin(p) PROVE WedgedOnlyAfterDisconnect'
  BY <1>14 DEF AdvertiseBegin
<1>15. ASSUME NEW p \in Streams \cup Workers, AdvertiseSend(p) PROVE WedgedOnlyAfterDisconnect'
  BY <1>15 DEF AdvertiseSend
<1>16. ASSUME NEW p \in Streams \cup Workers, AdvertiseEnd(p) PROVE WedgedOnlyAfterDisconnect'
  BY <1>16 DEF AdvertiseEnd, AfterAdvertise
<1>17. CASE KeepAliveBegin
  BY <1>17 DEF KeepAliveBegin
<1>18. CASE AdvertiseKeepalive
  BY <1>18 DEF AdvertiseKeepalive
<1>19. CASE KeepAliveEnd
  BY <1>19 DEF KeepAliveEnd
<1>20. CASE UNCHANGED vars
  BY <1>20 DEF vars
<1> QED
  BY <1>1, <1>2, <1>3, <1>4, <1>5, <1>6, <1>7, <1>8, <1>9, <1>10,
     <1>11, <1>12, <1>13, <1>14, <1>15, <1>16, <1>17, <1>18, <1>19, <1>20
  DEF Next, StreamStep, ChangeStep, KeepAliveStep

LEMMA InvStep == Inv /\ [Next]_vars => Inv'
  BY TypeStep, LockStep, JobStep, RecordStep, RoutableStep, WedgeStep DEF Inv

THEOREM Invariance == Spec => []Inv
  BY InitInv, InvStep, PTL DEF Spec

-----------------------------------------------------------------------------
\* Every variable of the table and of its goroutines keeps its type.
THEOREM TypeCorrect == Spec => []TypeOK
<1>1. Inv => TypeOK
  BY DEF Inv
<1> QED
  BY <1>1, Invariance, PTL

\* Select never answers with a tunnel that is not registered for a destination
\* that the table knows, for any number of tunnels, also with the same id.
THEOREM RoutesLead == Spec => []RouteToLiveTunnel
<1>1. Inv => RouteToLiveTunnel
  <2> SUFFICES ASSUME Inv, NEW dest \in AllReachablePeers(None), NEW s \in Select(dest)
               PROVE  Registered(s)
    BY DEF RouteToLiveTunnel
  <2>1. \E p \in Peers : Exists(p) /\ s = records[p].chan
    <3>1. CASE Exists(dest) /\ dest \in Peers
      BY <3>1 DEF Select
    <3>2. CASE \E p \in Peers : Exists(p) /\ dest \in records[p].children
      BY <3>2 DEF Select, AllReachablePeers, Inv, TypeOK, Record
    <3> QED
      BY <3>1, <3>2 DEF AllReachablePeers
  <2> QED
    BY <2>1 DEF Inv, RecordInv
<1> QED
  BY <1>1, Invariance, PTL

\* A registered tunnel stays reachable under its id until another tunnel with the
\* same id has been disconnected.
THEOREM ConnectedRoutable == Spec => []ConnectedIsRoutable
<1>1. Inv => ConnectedIsRoutable
  BY DEF Inv
<1> QED
  BY <1>1, Invariance, PTL

\* The only cause of a lock that is never released is an earlier Disconnect under
\* the same id.
THEOREM WedgeCause == Spec => []WedgedOnlyAfterDisconnect
<1>1. Inv => WedgedOnlyAfterDisconnect
  BY DEF Inv
<1> QED
  BY <1>1, Invariance, PTL

-----------------------------------------------------------------------------
(* Steps that change the table                                              *)

\* Records change in OnChange, which keeps the channel of an existing record, and
\* in Disconnect, which removes the record.
LEMMA RecordChange ==
  ASSUME TypeOK, [Next]_vars, NEW p \in Peers
  PROVE  \/ records'[p].chan = records[p].chan
         \/ records[p].chan = None
         \/ records'[p].chan = None
<1> USE RouteTableAssumption DEF TypeOK
<1>1. ASSUME NEW q \in Streams \cup Workers, OnChange(q)
      PROVE  records'[p].chan = records[p].chan \/ records[p].chan = None
  BY <1>1 DEF OnChange, Updated
<1>2. ASSUME NEW s \in Streams, Disconnect(s)
      PROVE  records'[p].chan = records[p].chan \/ records'[p].chan = None
  BY <1>2 DEF Disconnect, NoRecord
<1>3. CASE UNCHANGED records
  BY <1>3
<1>4. \/ UNCHANGED records
      \/ \E q \in Streams \cup Workers : OnChange(q)
      \/ \E s \in Streams : Disconnect(s)
  BY DEF Next, vars, StreamStep, ChangeStep, KeepAliveStep, Authenticate, ExistsCheck,
         AdvertiseInit, ExchangeFails, Connect, RecvError, DisconnectMissing, RecvRoute,
         StartWorker, Lock, OnChangeMissing, AdvertiseBegin, AdvertiseSend, AdvertiseEnd,
         KeepAliveBegin, AdvertiseKeepalive, KeepAliveEnd
<1> QED
  BY <1>1, <1>2, <1>3, <1>4

\* No tunnel takes over the record of another one.
THEOREM RoutesStable == Spec => RouteStable
<1>1. Inv /\ [Next]_vars =>
        [\A p \in Peers :
           records[p].chan # None /\ records'[p].chan # None
             => records'[p].chan = records[p].chan]_vars
  BY RecordChange DEF Inv
<1> QED
  BY <1>1, Invariance, PTL DEF Spec, RouteStable
-----------------------------------------------------------------------------
(***************************************************************************)
(* The upstream side: which tunnel is the default one, and what is sent    *)
(* upstream; and that the table implements the directory.                  *)
(***************************************************************************)
-----------------------------------------------------------------------------
(* One upstream tunnel at a time                                            *)

Returned == {"idle", "failed", "closed", "leaked"}

\* ConnectUpstreamWithRetry calls Connect again only when it has returned.
OneUpstream ==
  \A u, v \in Upstream : u # v => pc[u] \in Returned \/ pc[v] \in Returned

\* The default tunnel is set before the tunnel is registered.
DefaultInv ==
  \A u \in Upstream : pc[u] \in {"lock", "adv", "send", "loop", "dlock"} => defaultout = u

\* What is still to be served by a loop over the records is registered, the
\* reader that serves it keeps every Disconnect out, and it is not the source.
TodoInv ==
  \A p \in Procs : \A s \in todo[p] :
    /\ p \in readers
    /\ s \in Upstream
    /\ Registered(s)
    /\ p # Ticker => RemoteID[s] # RemoteID[job[p].from]

\* Before the route exchange nothing has been sent, and after it something has.
SentInv ==
  /\ \A s \in Streams : pc[s] \in {"idle", "exists", "exchange"} => out[s] = <<>>
  /\ \A s \in Streams :
       pc[s] \in {"await", "lock", "adv", "send", "loop", "dlock"} => out[s] # <<>>
  /\ RefreshFirst

UpstreamIDs == {RemoteID[v] : v \in Upstream}

\* No upstream server's id is among the peers behind a tunnel, and only upstream
\* tunnels' own changes name one.
NamesInv ==
  /\ \A p \in Peers : records[p].children \cap UpstreamIDs = {}
  /\ \A p \in Streams \cup Workers :
       p \notin Upstream \/ pc[p] = "lock" => job[p].peers \cap UpstreamIDs = {}
  /\ NoEcho

LEMMA OneUpstreamStep ==
  ASSUME TypeOK, OneUpstream, [Next]_vars
  PROVE  OneUpstream'
<1> USE RouteTableAssumption DEF TypeOK, OneUpstream, Returned, Procs, StreamPCs, WorkerPCs, TickerPCs
<1>1. ASSUME NEW s \in Streams, Authenticate(s) PROVE OneUpstream'
  <2>1. PICK result \in {"exists", "failed"} : pc' = [pc EXCEPT ![s] = result]
    BY <1>1 DEF Authenticate
  <2> QED
    BY <1>1, <2>1 DEF Authenticate
<1>2. ASSUME NEW s \in Streams, ExistsCheck(s) PROVE OneUpstream'
  BY <1>2 DEF ExistsCheck
<1>3. ASSUME NEW s \in Streams, AdvertiseInit(s) PROVE OneUpstream'
  BY <1>3 DEF AdvertiseInit
<1>4. ASSUME NEW s \in Streams, ExchangeFails(s) PROVE OneUpstream'
  BY <1>4 DEF ExchangeFails
<1>5. ASSUME NEW s \in Streams, Connect(s) PROVE OneUpstream'
  BY <1>5 DEF Connect
<1>6. ASSUME NEW s \in Streams, RecvError(s) PROVE OneUpstream'
  BY <1>6 DEF RecvError
<1>7. ASSUME NEW s \in Streams, Disconnect(s) PROVE OneUpstream'
  BY <1>7 DEF Disconnect
<1>8. ASSUME NEW s \in Streams, DisconnectMissing(s) PROVE OneUpstream'
  BY <1>8 DEF DisconnectMissing
<1>9. ASSUME NEW s \in Streams, NEW w \in Workers, RecvRoute(s, w) PROVE OneUpstream'
  BY <1>9 DEF RecvRoute
<1>10. ASSUME NEW w \in Workers, StartWorker(w) PROVE OneUpstream'
  BY <1>10 DEF StartWorker
<1>11. ASSUME NEW p \in Streams \cup Workers, Lock(p) PROVE OneUpstream'
  BY <1>11 DEF Lock
<1>12. ASSUME NEW p \in Streams \cup Workers, OnChange(p) PROVE OneUpstream'
  BY <1>12 DEF OnChange
<1>13. ASSUME NEW p \in Streams \cup Workers, OnChangeMissing(p) PROVE OneUpstream'
  BY <1>13 DEF OnChangeMissing
<1>14. ASSUME NEW p \in Streams \cup Workers, AdvertiseBegin(p) PROVE OneUpstream'
  BY <1>14 DEF AdvertiseBegin
<1>15. ASSUME NEW p \in Streams \cup Workers, AdvertiseSend(p) PROVE OneUpstream'
  BY <1>15 DEF AdvertiseSend
<1>16. ASSUME NEW p \in Streams \cup Workers, AdvertiseEnd(p) PROVE OneUpstream'
  BY <1>16 DEF AdvertiseEnd, AfterAdvertise
<1>17. CASE KeepAliveBegin
  BY <1>17 DEF KeepAliveBegin
<1>18. CASE AdvertiseKeepalive
  BY <1>18 DEF AdvertiseKeepalive
<1>19. CASE KeepAliveEnd
  BY <1>19 DEF KeepAliveEnd
<1>20. CASE UNCHANGED vars
  BY <1>20 DEF vars
<1> QED
  BY <1>1, <1>2, <1>3, <1>4, <1>5, <1>6, <1>7, <1>8, <1>9, <1>10,
     <1>11, <1>12, <1>13, <1>14, <1>15, <1>16, <1>17, <1>18, <1>19, <1>20
  DEF Next, StreamStep, ChangeStep, KeepAliveStep

LEMMA DefaultStep ==
  ASSUME TypeOK, OneUpstream, DefaultInv, [Next]_vars
  PROVE  DefaultInv'
<1> USE RouteTableAssumption DEF TypeOK, OneUpstream, Returned, DefaultInv, Procs, StreamPCs, WorkerPCs, TickerPCs
<1>1. ASSUME NEW s \in Streams, Authenticate(s) PROVE DefaultInv'
  BY <1>1 DEF Authenticate
<1>2. ASSUME NEW s \in Streams, ExistsCheck(s) PROVE DefaultInv'
  BY <1>2 DEF ExistsCheck
<1>3. ASSUME NEW s \in Streams, AdvertiseInit(s) PROVE DefaultInv'
  BY <1>3 DEF AdvertiseInit
<1>4. ASSUME NEW s \in Streams, ExchangeFails(s) PROVE DefaultInv'
  BY <1>4 DEF ExchangeFails
<1>5. ASSUME NEW s \in Streams, Connect(s) PROVE DefaultInv'
  <2>1. /\ pc[s] = "await" /\ pc' = [pc EXCEPT ![s] = "lock"]
        /\ defaultout' = IF s \in Upstream THEN s ELSE defaultout
    BY <1>5 DEF Connect, DefaultOutAfter
  <2>2. CASE s \in Upstream
    <3>1. \A u \in Upstream : u # s => pc[u] \in Returned
      BY <2>1, <2>2
    <3>2. \A u \in Upstream : u # s => pc'[u] = pc[u]
      BY <2>1
    <3> QED
      BY <2>1, <2>2, <3>1, <3>2
  <2>3. CASE s \notin Upstream
    <3>1. \A u \in Upstream : pc'[u] = pc[u]
      BY <2>1, <2>3
    <3> QED
      BY <2>1, <2>3, <3>1
  <2> QED
    BY <2>2, <2>3
<1>6. ASSUME NEW s \in Streams, RecvError(s) PROVE DefaultInv'
  BY <1>6 DEF RecvError
<1>7. ASSUME NEW s \in Streams, Disconnect(s) PROVE DefaultInv'
  BY <1>7 DEF Disconnect
<1>8. ASSUME NEW s \in Streams, DisconnectMissing(s) PROVE DefaultInv'
  BY <1>8 DEF DisconnectMissing
<1>9. ASSUME NEW s \in Streams, NEW w \in Workers, RecvRoute(s, w) PROVE DefaultInv'
  BY <1>9 DEF RecvRoute
<1>10. ASSUME NEW w \in Workers, StartWorker(w) PROVE DefaultInv'
  BY <1>10 DEF StartWorker
<1>11. ASSUME NEW p \in Streams \cup Workers, Lock(p) PROVE DefaultInv'
  BY <1>11 DEF Lock
<1>12. ASSUME NEW p \in Streams \cup Workers, OnChange(p) PROVE DefaultInv'
  BY <1>12 DEF OnChange
<1>13. ASSUME NEW p \in Streams \cup Workers, OnChangeMissing(p) PROVE DefaultInv'
  BY <1>13 DEF OnChangeMissing
<1>14. ASSUME NEW p \in Streams \cup Workers, AdvertiseBegin(p) PROVE DefaultInv'
  BY <1>14 DEF AdvertiseBegin
<1>15. ASSUME NEW p \in Streams \cup Workers, AdvertiseSend(p) PROVE DefaultInv'
  BY <1>15 DEF AdvertiseSend
<1>16. ASSUME NEW p \in Streams \cup Workers, AdvertiseEnd(p) PROVE DefaultInv'
  BY <1>16 DEF AdvertiseEnd, AfterAdvertise
<1>17. CASE KeepAliveBegin
  BY <1>17 DEF KeepAliveBegin
<1>18. CASE AdvertiseKeepalive
  BY <1>18 DEF AdvertiseKeepalive
<1>19. CASE KeepAliveEnd
  BY <1>19 DEF KeepAliveEnd
<1>20. CASE UNCHANGED vars
  BY <1>20 DEF vars
<1> QED
  BY <1>1, <1>2, <1>3, <1>4, <1>5, <1>6, <1>7, <1>8, <1>9, <1>10,
     <1>11, <1>12, <1>13, <1>14, <1>15, <1>16, <1>17, <1>18, <1>19, <1>20
  DEF Next, StreamStep, ChangeStep, KeepAliveStep

LEMMA TodoStep ==
  ASSUME Inv, TodoInv, [Next]_vars
  PROVE  TodoInv'
<1> USE RouteTableAssumption DEF Inv, TypeOK, LockInv, JobInv, RecordInv, TodoInv, Registered, Procs, StreamPCs, WorkerPCs, TickerPCs
<1>1. ASSUME NEW s \in Streams, Authenticate(s) PROVE TodoInv'
  BY <1>1 DEF Authenticate
<1>2. ASSUME NEW s \in Streams, ExistsCheck(s) PROVE TodoInv'
  BY <1>2 DEF ExistsCheck
<1>3. ASSUME NEW s \in Streams, AdvertiseInit(s) PROVE TodoInv'
  BY <1>3 DEF AdvertiseInit
<1>4. ASSUME NEW s \in Streams, ExchangeFails(s) PROVE TodoInv'
  BY <1>4 DEF ExchangeFails
<1>5. ASSUME NEW s \in Streams, Connect(s) PROVE TodoInv'
  BY <1>5 DEF Connect
<1>6. ASSUME NEW s \in Streams, RecvError(s) PROVE TodoInv'
  BY <1>6 DEF RecvError
<1>7. ASSUME NEW s \in Streams, Disconnect(s) PROVE TodoInv'
  BY <1>7 DEF Disconnect, Holds
<1>8. ASSUME NEW s \in Streams, DisconnectMissing(s) PROVE TodoInv'
  BY <1>8 DEF DisconnectMissing, Holds
<1>9. ASSUME NEW s \in Streams, NEW w \in Workers, RecvRoute(s, w) PROVE TodoInv'
  BY <1>9 DEF RecvRoute
<1>10. ASSUME NEW w \in Workers, StartWorker(w) PROVE TodoInv'
  BY <1>10 DEF StartWorker
<1>11. ASSUME NEW p \in Streams \cup Workers, Lock(p) PROVE TodoInv'
  BY <1>11 DEF Lock
<1>12. ASSUME NEW p \in Streams \cup Workers, OnChange(p) PROVE TodoInv'
  BY <1>12 DEF OnChange, Changed, Holds
<1>13. ASSUME NEW p \in Streams \cup Workers, OnChangeMissing(p) PROVE TodoInv'
  BY <1>13 DEF OnChangeMissing
<1>14. ASSUME NEW p \in Streams \cup Workers, AdvertiseBegin(p) PROVE TodoInv'
  BY <1>14 DEF AdvertiseBegin, UpstreamChannels, Exists, Record
<1>15. ASSUME NEW p \in Streams \cup Workers, AdvertiseSend(p) PROVE TodoInv'
  BY <1>15 DEF AdvertiseSend
<1>16. ASSUME NEW p \in Streams \cup Workers, AdvertiseEnd(p) PROVE TodoInv'
  BY <1>16 DEF AdvertiseEnd, AfterAdvertise
<1>17. CASE KeepAliveBegin
  BY <1>17 DEF KeepAliveBegin, UpstreamChannels, Exists, Record
<1>18. CASE AdvertiseKeepalive
  BY <1>18 DEF AdvertiseKeepalive
<1>19. CASE KeepAliveEnd
  BY <1>19 DEF KeepAliveEnd
<1>20. CASE UNCHANGED vars
  BY <1>20 DEF vars
<1> QED
  BY <1>1, <1>2, <1>3, <1>4, <1>5, <1>6, <1>7, <1>8, <1>9, <1>10,
     <1>11, <1>12, <1>13, <1>14, <1>15, <1>16, <1>17, <1>18, <1>19, <1>20
  DEF Next, StreamStep, ChangeStep, KeepAliveStep

\* A packet goes to one tunnel, which has then sent something.
LEMMA SendEffect ==
  ASSUME TypeOK, NEW q \in Streams, NEW k, NEW ps, Send(q, k, ps)
  PROVE  /\ out'[q] # <<>>
         /\ \A r \in Streams \ {q} : out'[r] = out[r]
<1>1. out[q] \in Seq(RoutePacket)
  BY DEF TypeOK
<1>2. Len(Append(out[q], [kind |-> k, peers |-> ps])) # 0 /\ Len(<<>>) = 0
  BY <1>1
<1>3. out'[q] = Append(out[q], [kind |-> k, peers |-> ps])
  BY DEF Send, TypeOK
<1>4. out'[q] # <<>>
  BY <1>2, <1>3
<1> QED
  BY <1>4 DEF Send, TypeOK

\* A packet that is not a Refresh may follow a Refresh.
LEMMA AppendRefreshFirst ==
  ASSUME TypeOK, RefreshFirst, NEW q \in Streams, out[q] # <<>>,
         NEW k, NEW ps, k # "Refresh", Send(q, k, ps)
  PROVE  RefreshFirst'
<1> DEFINE pkt == [kind |-> k, peers |-> ps]
<1>1. /\ out' = [out EXCEPT ![q] = Append(out[q], pkt)]
      /\ out \in [Streams -> Seq(RoutePacket)]
  BY DEF Send, TypeOK
<1>2. out[q] \in Seq(RoutePacket) /\ Len(out[q]) \in Nat \ {0}
  BY <1>1
<1>3. SUFFICES ASSUME NEW s \in Streams, NEW i \in DOMAIN out'[s]
               PROVE  (out'[s][i].kind = "Refresh") <=> (i = 1)
  BY DEF RefreshFirst
<1>4. CASE s # q
  BY <1>1, <1>4 DEF RefreshFirst
<1>5. CASE s = q
  <2>1. DOMAIN out'[q] = 1 .. Len(out[q]) + 1
    BY <1>1, <1>2
  <2>2. CASE i = Len(out[q]) + 1
    BY <1>1, <1>2, <1>5, <2>2
  <2>3. CASE i \in 1 .. Len(out[q])
    <3>1. out'[q][i] = out[q][i] /\ i \in DOMAIN out[q]
      BY <1>1, <1>2, <2>3
    <3> QED
      BY <1>5, <3>1 DEF RefreshFirst
  <2> QED
    BY <1>5, <2>1, <2>2, <2>3, <1>2
<1> QED
  BY <1>4, <1>5

LEMMA SentStep ==
  ASSUME Inv, TodoInv, SentInv, [Next]_vars
  PROVE  SentInv'
<1> USE RouteTableAssumption DEF Inv, TypeOK, SentInv, Procs, StreamPCs, WorkerPCs, TickerPCs
<1>1. ASSUME NEW s \in Streams, Authenticate(s) PROVE SentInv'
  <2>1. PICK result \in {"exists", "failed"} : pc' = [pc EXCEPT ![s] = result]
    BY <1>1 DEF Authenticate
  <2> QED
    BY <1>1, <2>1 DEF Authenticate, RefreshFirst
<1>2. ASSUME NEW s \in Streams, ExistsCheck(s) PROVE SentInv'
  BY <1>2 DEF ExistsCheck, RefreshFirst
<1>3. ASSUME NEW s \in Streams, AdvertiseInit(s) PROVE SentInv'
  <2>1. PICK ps \in SUBSET Peers : Send(s, "Refresh", ps)
    BY <1>3, ReachableType DEF AdvertiseInit
  <2>2. out[s] = <<>>
    BY <1>3 DEF AdvertiseInit
  <2>3. Append(<<>>, [kind |-> "Refresh", peers |-> ps])
          = <<[kind |-> "Refresh", peers |-> ps]>>
    OBVIOUS
  <2>4. out' = [out EXCEPT ![s] = <<[kind |-> "Refresh", peers |-> ps]>>]
    BY <2>1, <2>2, <2>3 DEF Send
  <2>5. RefreshFirst'
    BY <2>4 DEF RefreshFirst
  <2> QED
    BY <1>3, <2>4, <2>5 DEF AdvertiseInit
<1>4. ASSUME NEW s \in Streams, ExchangeFails(s) PROVE SentInv'
  BY <1>4 DEF ExchangeFails, RefreshFirst
<1>5. ASSUME NEW s \in Streams, Connect(s) PROVE SentInv'
  BY <1>5 DEF Connect, RefreshFirst
<1>6. ASSUME NEW s \in Streams, RecvError(s) PROVE SentInv'
  BY <1>6 DEF RecvError, RefreshFirst
<1>7. ASSUME NEW s \in Streams, Disconnect(s) PROVE SentInv'
  BY <1>7 DEF Disconnect, RefreshFirst
<1>8. ASSUME NEW s \in Streams, DisconnectMissing(s) PROVE SentInv'
  BY <1>8 DEF DisconnectMissing, RefreshFirst
<1>9. ASSUME NEW s \in Streams, NEW w \in Workers, RecvRoute(s, w) PROVE SentInv'
  BY <1>9 DEF RecvRoute, RefreshFirst
<1>10. ASSUME NEW w \in Workers, StartWorker(w) PROVE SentInv'
  BY <1>10 DEF StartWorker, RefreshFirst
<1>11. ASSUME NEW p \in Streams \cup Workers, Lock(p) PROVE SentInv'
  BY <1>11 DEF Lock, RefreshFirst
<1>12. ASSUME NEW p \in Streams \cup Workers, OnChange(p) PROVE SentInv'
  BY <1>12 DEF OnChange, RefreshFirst
<1>13. ASSUME NEW p \in Streams \cup Workers, OnChangeMissing(p) PROVE SentInv'
  BY <1>13 DEF OnChangeMissing, RefreshFirst
<1>14. ASSUME NEW p \in Streams \cup Workers, AdvertiseBegin(p) PROVE SentInv'
  BY <1>14 DEF AdvertiseBegin, RefreshFirst
<1>15. ASSUME NEW p \in Streams \cup Workers, AdvertiseSend(p) PROVE SentInv'
  <2>1. PICK q \in todo[p] : Send(q, job[p].kind, job[p].peers)
    BY <1>15 DEF AdvertiseSend
  <2>2. q \in Streams /\ out[q] # <<>> /\ Registered(q) /\ job[p].kind # "Refresh"
    BY <1>15, <2>1 DEF AdvertiseSend, Inv, JobInv, TodoInv, Registered, Procs
  <2>3. RefreshFirst'
    BY <2>1, <2>2, AppendRefreshFirst
  <2>4. out'[q] # <<>> /\ \A r \in Streams \ {q} : out'[r] = out[r]
    BY <2>1, <2>2, SendEffect
  <2>5. Registered(q) /\ pc' = pc
    BY <1>15, <2>2 DEF AdvertiseSend
  <2> QED
    BY <2>3, <2>4, <2>5 DEF Registered
<1>16. ASSUME NEW p \in Streams \cup Workers, AdvertiseEnd(p) PROVE SentInv'
  BY <1>16 DEF AdvertiseEnd, AfterAdvertise, RefreshFirst
<1>17. CASE KeepAliveBegin
  BY <1>17 DEF KeepAliveBegin, RefreshFirst
<1>18. CASE AdvertiseKeepalive
  <2>1. PICK q \in todo[Ticker] : Send(q, "KeepAlive", AllReachablePeers(RemoteID[q]))
    BY <1>18 DEF AdvertiseKeepalive
  <2>2. q \in Streams /\ out[q] # <<>>
    BY <2>1 DEF TodoInv, Registered, Procs
  <2>3. RefreshFirst'
    BY <2>1, <2>2, AppendRefreshFirst
  <2>4. out'[q] # <<>> /\ \A r \in Streams \ {q} : out'[r] = out[r]
    BY <2>1, <2>2, SendEffect
  <2>5. Registered(q) /\ pc' = pc
    BY <1>18, <2>1 DEF AdvertiseKeepalive, TodoInv, Procs
  <2> QED
    BY <2>3, <2>4, <2>5 DEF Registered
<1>19. CASE KeepAliveEnd
  BY <1>19 DEF KeepAliveEnd, RefreshFirst
<1>20. CASE UNCHANGED vars
  BY <1>20 DEF vars, RefreshFirst
<1> QED
  BY <1>1, <1>2, <1>3, <1>4, <1>5, <1>6, <1>7, <1>8, <1>9, <1>10,
     <1>11, <1>12, <1>13, <1>14, <1>15, <1>16, <1>17, <1>18, <1>19, <1>20
  DEF Next, StreamStep, ChangeStep, KeepAliveStep

\* What is reachable by other ways than an active upstream tunnel names no
\* upstream server: no other upstream tunnel is registered.
LEMMA ReachableNames ==
  ASSUME Inv, OneUpstream, NamesInv, NEW u \in Upstream, pc[u] \notin Returned
  PROVE  AllReachablePeers(RemoteID[u]) \cap UpstreamIDs = {}
<1> USE RouteTableAssumption
<1>1. SUFFICES ASSUME NEW p \in Peers, Exists(p), p # RemoteID[u],
                      NEW v \in Upstream, p = RemoteID[v]
               PROVE  FALSE
  BY DEF AllReachablePeers, UpstreamIDs, NamesInv
<1> DEFINE c == records[p].chan
<1>2. c \in Streams /\ RemoteID[c] = p /\ Registered(c)
  BY <1>1 DEF Inv, RecordInv
<1>3. c \in Upstream /\ c # u
  BY <1>1, <1>2
<1> QED
  BY <1>2, <1>3 DEF OneUpstream, Registered, Returned

\* Packets without upstream ids may go upstream, and any packet downstream.
LEMMA SendNoEcho ==
  ASSUME TypeOK, NoEcho, NEW q \in Streams, NEW k, NEW ps, Send(q, k, ps),
         q \in Upstream => ps \cap UpstreamIDs = {}
  PROVE  NoEcho'
<1> DEFINE pkt == [kind |-> k, peers |-> ps]
<1>1. /\ out' = [out EXCEPT ![q] = Append(out[q], pkt)]
      /\ out \in [Streams -> Seq(RoutePacket)]
  BY DEF Send, TypeOK
<1>2. out[q] \in Seq(RoutePacket) /\ Len(out[q]) \in Nat
  BY <1>1
<1>3. SUFFICES ASSUME NEW u \in Upstream, NEW i \in DOMAIN out'[u]
               PROVE  out'[u][i].peers \cap UpstreamIDs = {}
  BY DEF NoEcho, UpstreamIDs
<1>4. CASE u # q
  BY <1>1, <1>4, RouteTableAssumption DEF NoEcho, UpstreamIDs
<1>5. CASE u = q
  <2>1. DOMAIN out'[q] = 1 .. Len(out[q]) + 1
    BY <1>1, <1>2
  <2>2. CASE i = Len(out[q]) + 1
    BY <1>1, <1>2, <1>5, <2>2
  <2>3. CASE i \in 1 .. Len(out[q])
    <3>1. out'[q][i] = out[q][i] /\ i \in DOMAIN out[q]
      BY <1>1, <1>2, <2>3
    <3> QED
      BY <1>5, <3>1 DEF NoEcho, UpstreamIDs
  <2> QED
    BY <1>5, <2>1, <2>2, <2>3, <1>2
<1> QED
  BY <1>4, <1>5

LEMMA NamesStep ==
  ASSUME Inv, TodoInv, OneUpstream, NamesInv, [Next]_vars
  PROVE  NamesInv'
<1> USE RouteTableAssumption DEF Inv, TypeOK, JobInv, NamesInv, Procs, StreamPCs, WorkerPCs, TickerPCs
<1>1. ASSUME NEW s \in Streams, Authenticate(s) PROVE NamesInv'
  <2>1. PICK result \in {"exists", "failed"} : pc' = [pc EXCEPT ![s] = result]
    BY <1>1 DEF Authenticate
  <2> QED
    BY <1>1, <2>1 DEF Authenticate, NoEcho
<1>2. ASSUME NEW s \in Streams, ExistsCheck(s) PROVE NamesInv'
  BY <1>2 DEF ExistsCheck, NoEcho
<1>3. ASSUME NEW s \in Streams, AdvertiseInit(s) PROVE NamesInv'
  <2>1. CASE s \in Upstream
    <3>1. AllReachablePeers(RemoteID[s]) \cap UpstreamIDs = {}
      BY <1>3, <2>1, ReachableNames DEF AdvertiseInit, Returned
    <3>2. NoEcho'
      BY <1>3, <2>1, <3>1, SendNoEcho DEF AdvertiseInit
    <3> QED
      BY <1>3, <3>2 DEF AdvertiseInit
  <2>2. CASE s \notin Upstream
    <3>1. NoEcho'
      BY <1>3, <2>2, SendNoEcho DEF AdvertiseInit
    <3> QED
      BY <1>3, <3>1 DEF AdvertiseInit
  <2> QED
    BY <2>1, <2>2
<1>4. ASSUME NEW s \in Streams, ExchangeFails(s) PROVE NamesInv'
  BY <1>4 DEF ExchangeFails, NoEcho
<1>5. ASSUME NEW s \in Streams, Connect(s) PROVE NamesInv'
  BY <1>5 DEF Connect, Refresh, NoEcho, UpstreamIDs
<1>6. ASSUME NEW s \in Streams, RecvError(s) PROVE NamesInv'
  BY <1>6 DEF RecvError, NoEcho
<1>7. ASSUME NEW s \in Streams, Disconnect(s) PROVE NamesInv'
  BY <1>7 DEF Disconnect, Removed, NoRecord, UpstreamIDs, NoEcho
<1>8. ASSUME NEW s \in Streams, DisconnectMissing(s) PROVE NamesInv'
  BY <1>8 DEF DisconnectMissing, NoEcho
<1>9. ASSUME NEW s \in Streams, NEW w \in Workers, RecvRoute(s, w) PROVE NamesInv'
  BY <1>9 DEF RecvRoute, UpstreamIDs, NoEcho
<1>10. ASSUME NEW w \in Workers, StartWorker(w) PROVE NamesInv'
  BY <1>10 DEF StartWorker, NoEcho
<1>11. ASSUME NEW p \in Streams \cup Workers, Lock(p) PROVE NamesInv'
  BY <1>11 DEF Lock, NoEcho
<1>12. ASSUME NEW p \in Streams \cup Workers, OnChange(p) PROVE NamesInv'
  <2> DEFINE from == job[p].from
  <2>1. job[p].peers \cap UpstreamIDs = {} /\ from \in Streams
    BY <1>12 DEF OnChange
  <2>2. \A rec \in Record : rec.children \cap UpstreamIDs = {}
          => Updated(rec, job[p]).children \cap UpstreamIDs = {}
    BY <2>1 DEF Updated, Record
  <2>3. \A q \in Peers : records'[q].children \cap UpstreamIDs = {}
    BY <1>12, <2>2 DEF OnChange
  <2>4. p \notin Upstream => RemoteID[from] \notin UpstreamIDs
    BY <1>12 DEF OnChange, UpstreamIDs
  <2>5. p \notin Upstream => Changed(job[p]).peers \cap UpstreamIDs = {}
    BY <2>1, <2>4 DEF Changed
  <2>6. job' = [job EXCEPT ![p] = Changed(job[p])] /\ pc' = [pc EXCEPT ![p] = "adv"]
        /\ UNCHANGED out
    BY <1>12 DEF OnChange
  <2> QED
    BY <2>3, <2>5, <2>6 DEF NoEcho
<1>13. ASSUME NEW p \in Streams \cup Workers, OnChangeMissing(p) PROVE NamesInv'
  BY <1>13 DEF OnChangeMissing, NoEcho
<1>14. ASSUME NEW p \in Streams \cup Workers, AdvertiseBegin(p) PROVE NamesInv'
  BY <1>14 DEF AdvertiseBegin, NoEcho
<1>15. ASSUME NEW p \in Streams \cup Workers, AdvertiseSend(p) PROVE NamesInv'
  <2>1. PICK q \in todo[p] : Send(q, job[p].kind, job[p].peers)
    BY <1>15 DEF AdvertiseSend
  <2>2. q \in Upstream /\ Registered(q) /\ RemoteID[q] # RemoteID[job[p].from]
    BY <1>15, <2>1 DEF TodoInv, Procs
  <2>3. p \notin Upstream
    <3>1. SUFFICES ASSUME p \in Upstream PROVE FALSE
      OBVIOUS
    <3>2. job[p].from = p /\ pc[p] \in {"send", "dsend"}
      BY <1>15, <3>1 DEF Inv, JobInv, AdvertiseSend
    <3> QED
      BY <2>2, <3>1, <3>2 DEF OneUpstream, Returned, Registered
  <2>4. NoEcho'
    BY <1>15, <2>1, <2>2, <2>3, SendNoEcho DEF Procs, Job
  <2> QED
    BY <1>15, <2>4 DEF AdvertiseSend
<1>16. ASSUME NEW p \in Streams \cup Workers, AdvertiseEnd(p) PROVE NamesInv'
  BY <1>16 DEF AdvertiseEnd, JobAtRest, Refresh, NoJob, NoEcho
<1>17. CASE KeepAliveBegin
  BY <1>17 DEF KeepAliveBegin, NoEcho
<1>18. CASE AdvertiseKeepalive
  <2>1. PICK q \in todo[Ticker] : Send(q, "KeepAlive", AllReachablePeers(RemoteID[q]))
    BY <1>18 DEF AdvertiseKeepalive
  <2>2. q \in Upstream /\ Registered(q)
    BY <2>1 DEF TodoInv, Procs
  <2>3. AllReachablePeers(RemoteID[q]) \cap UpstreamIDs = {}
    BY <2>2, ReachableNames DEF Registered, Returned
  <2>4. NoEcho'
    BY <2>1, <2>2, <2>3, SendNoEcho
  <2> QED
    BY <1>18, <2>4 DEF AdvertiseKeepalive
<1>19. CASE KeepAliveEnd
  BY <1>19 DEF KeepAliveEnd, NoEcho
<1>20. CASE UNCHANGED vars
  BY <1>20 DEF vars, NoEcho
<1> QED
  BY <1>1, <1>2, <1>3, <1>4, <1>5, <1>6, <1>7, <1>8, <1>9, <1>10,
     <1>11, <1>12, <1>13, <1>14, <1>15, <1>16, <1>17, <1>18, <1>19, <1>20
  DEF Next, StreamStep, ChangeStep, KeepAliveStep

UpstreamInv == OneUpstream /\ DefaultInv /\ TodoInv /\ SentInv /\ NamesInv

LEMMA InitUpstreamInv == Init => UpstreamInv
<1> SUFFICES ASSUME Init PROVE UpstreamInv
  OBVIOUS
<1> USE RouteTableAssumption DEF Init, Procs
<1>1. OneUpstream /\ DefaultInv /\ TodoInv
  BY DEF OneUpstream, Returned, DefaultInv, TodoInv
<1>2. SentInv
  BY DEF SentInv, RefreshFirst
<1>3. \A p \in Procs : job[p].peers = {}
  BY DEF JobAtRest, Refresh, NoJob
<1>4. NoEcho
  BY DEF NoEcho
<1>5. \A p \in Peers : records[p].children = {}
  BY DEF NoRecord
<1>6. NamesInv
  BY <1>3, <1>4, <1>5 DEF NamesInv
<1> QED
  BY <1>1, <1>2, <1>6 DEF UpstreamInv

LEMMA UpstreamInvStep == Inv /\ UpstreamInv /\ [Next]_vars => UpstreamInv'
<1> SUFFICES ASSUME Inv, UpstreamInv, [Next]_vars PROVE UpstreamInv'
  OBVIOUS
<1>1. TypeOK
  BY DEF Inv
<1>2. OneUpstream'
  BY <1>1, OneUpstreamStep DEF UpstreamInv
<1>3. DefaultInv'
  BY <1>1, DefaultStep DEF UpstreamInv
<1>4. TodoInv'
  BY TodoStep DEF UpstreamInv
<1>5. SentInv'
  BY SentStep DEF UpstreamInv
<1>6. NamesInv'
  BY NamesStep DEF UpstreamInv
<1> QED
  BY <1>2, <1>3, <1>4, <1>5, <1>6 DEF UpstreamInv

THEOREM UpstreamInvariance == Spec => []UpstreamInv
  BY Invariance, InitUpstreamInv, UpstreamInvStep, PTL DEF Spec

\* The default tunnel is never one of an earlier connection while a later one is
\* registered.
THEOREM DefaultFresh == Spec => []DefaultOutFresh
<1>1. UpstreamInv => DefaultOutFresh
  BY DEF UpstreamInv, DefaultInv, DefaultOutFresh, Registered
<1> QED
  BY <1>1, UpstreamInvariance, PTL

\* The Refresh of the route exchange is the first packet of its kind and the only
\* one.
THEOREM FirstIsRefresh == Spec => []RefreshFirst
<1>1. UpstreamInv => RefreshFirst
  BY DEF UpstreamInv, SentInv
<1> QED
  BY <1>1, UpstreamInvariance, PTL

\* No upstream server is told about an upstream server.
THEOREM NothingEchoed == Spec => []NoEcho
<1>1. UpstreamInv => NoEcho
  BY DEF UpstreamInv, NamesInv
<1> QED
  BY <1>1, UpstreamInvariance, PTL

-----------------------------------------------------------------------------
(* Nothing is sent on a tunnel that has left                                *)

LEMMA QuietStep ==
  ASSUME TypeOK, TodoInv, [Next]_vars, NEW s \in Streams, Left(s)
  PROVE  out'[s] = out[s]
<1> USE RouteTableAssumption DEF TypeOK
<1>1. ASSUME NEW p \in Streams \cup Workers, AdvertiseSend(p) PROVE out'[s] = out[s]
  <2>1. PICK q \in todo[p] : Send(q, job[p].kind, job[p].peers)
    BY <1>1 DEF AdvertiseSend
  <2>2. q # s
    BY <2>1 DEF TodoInv, Registered, Left, Procs
  <2> QED
    BY <2>1, <2>2 DEF Send
<1>2. CASE AdvertiseKeepalive
  <2>1. PICK q \in todo[Ticker] : Send(q, "KeepAlive", AllReachablePeers(RemoteID[q]))
    BY <1>2 DEF AdvertiseKeepalive
  <2>2. q # s
    BY <2>1 DEF TodoInv, Registered, Left, Procs
  <2> QED
    BY <2>1, <2>2 DEF Send
<1>3. ASSUME NEW r \in Streams, AdvertiseInit(r) PROVE out'[s] = out[s]
  BY <1>3 DEF AdvertiseInit, Send, Left
<1>4. CASE UNCHANGED out
  BY <1>4
<1>5. \/ UNCHANGED out
      \/ \E p \in Streams \cup Workers : AdvertiseSend(p)
      \/ AdvertiseKeepalive
      \/ \E r \in Streams : AdvertiseInit(r)
  BY DEF Next, vars, StreamStep, ChangeStep, KeepAliveStep, Authenticate, ExistsCheck,
         ExchangeFails, Connect, RecvError, Disconnect, DisconnectMissing, RecvRoute,
         StartWorker, Lock, OnChange, OnChangeMissing, AdvertiseBegin, AdvertiseEnd,
         KeepAliveBegin, KeepAliveEnd
<1> QED
  BY <1>1, <1>2, <1>3, <1>4, <1>5

\* A tunnel whose removal is under way or done is sent nothing more.
THEOREM LeftIsQuiet == Spec => QuietAfterDisconnect
<1>1. Inv /\ UpstreamInv /\ [Next]_vars => [\A s \in Streams : Left(s) => out'[s] = out[s]]_vars
  BY QuietStep DEF Inv, UpstreamInv
<1> QED
  BY <1>1, Invariance, UpstreamInvariance, PTL DEF Spec, QuietAfterDisconnect

-----------------------------------------------------------------------------
(* The table implements the directory                                       *)

statusBar == [s \in Streams |-> Status(s)]
routeBar  == [p \in Peers |-> records[p].chan]

LEMMA InitMaps == Init => Directory!Init
  BY RouteTableAssumption
  DEF Init, Directory!Init, Status, Registered, Left, NoRecord, Procs

\* Steps that leave the records alone and no tunnel between two statuses.
LEMMA StutterMaps ==
  ASSUME UNCHANGED records, \A s \in Streams : Status(s)' = Status(s)
  PROVE  UNCHANGED <<statusBar, routeBar>>
  BY DEF statusBar, routeBar

\* The two kinds of steps that the directory sees, one tunnel and one id at a time.
LEMMA UpMaps ==
  ASSUME NEW s \in Streams, Status(s) = "new", Status(s)' = "up",
         \A r \in Streams \ {s} : Status(r)' = Status(r),
         \A p \in Peers : records'[p].chan =
           IF p = RemoteID[s] /\ records[p].chan = None THEN s ELSE records[p].chan
  PROVE  Directory!Up(s)
<1> USE RouteTableAssumption
<1>1. statusBar' = [statusBar EXCEPT ![s] = "up"]
  BY DEF statusBar
<1>2. routeBar' = [routeBar EXCEPT ![RemoteID[s]] = IF @ = None THEN s ELSE @]
  BY DEF routeBar
<1> QED
  BY <1>1, <1>2 DEF Directory!Up, statusBar, routeBar

LEMMA DownMaps ==
  ASSUME NEW s \in Streams, Status(s) = "up", Status(s)' = "down",
         \A r \in Streams \ {s} : Status(r)' = Status(r),
         \A p \in Peers : records'[p].chan =
           IF p = RemoteID[s] THEN None ELSE records[p].chan
  PROVE  Directory!Down(s)
<1> USE RouteTableAssumption
<1>1. statusBar' = [statusBar EXCEPT ![s] = "down"]
  BY DEF statusBar
<1>2. routeBar' = [routeBar EXCEPT ![RemoteID[s]] = None]
  BY DEF routeBar
<1> QED
  BY <1>1, <1>2 DEF Directory!Down, statusBar, routeBar

LEMMA StepMaps ==
  ASSUME Inv, [Next]_vars
  PROVE  Directory!Next \/ UNCHANGED <<statusBar, routeBar>>
<1> USE RouteTableAssumption DEF Inv, TypeOK, JobInv, Status, Registered, Left, Procs, StreamPCs, WorkerPCs, TickerPCs
<1>1. ASSUME NEW s \in Streams, Authenticate(s) PROVE Directory!Next \/ UNCHANGED <<statusBar, routeBar>>
  <2>1. \A r \in Streams : Status(r)' = Status(r)
    BY <1>1 DEF Authenticate
  <2> QED
    BY <1>1, <2>1, StutterMaps DEF Authenticate
<1>2. ASSUME NEW s \in Streams, ExistsCheck(s) PROVE Directory!Next \/ UNCHANGED <<statusBar, routeBar>>
  <2>1. \A r \in Streams : Status(r)' = Status(r)
    BY <1>2 DEF ExistsCheck
  <2> QED
    BY <1>2, <2>1, StutterMaps DEF ExistsCheck
<1>3. ASSUME NEW s \in Streams, AdvertiseInit(s) PROVE Directory!Next \/ UNCHANGED <<statusBar, routeBar>>
  <2>1. \A r \in Streams : Status(r)' = Status(r)
    BY <1>3 DEF AdvertiseInit
  <2> QED
    BY <1>3, <2>1, StutterMaps DEF AdvertiseInit
<1>4. ASSUME NEW s \in Streams, ExchangeFails(s) PROVE Directory!Next \/ UNCHANGED <<statusBar, routeBar>>
  <2>1. \A r \in Streams : Status(r)' = Status(r)
    BY <1>4 DEF ExchangeFails
  <2> QED
    BY <1>4, <2>1, StutterMaps DEF ExchangeFails
<1>5. ASSUME NEW s \in Streams, Connect(s) PROVE Directory!Next \/ UNCHANGED <<statusBar, routeBar>>
  <2>1. \A r \in Streams : Status(r)' = Status(r)
    BY <1>5 DEF Connect
  <2> QED
    BY <1>5, <2>1, StutterMaps DEF Connect
<1>6. ASSUME NEW s \in Streams, RecvError(s) PROVE Directory!Next \/ UNCHANGED <<statusBar, routeBar>>
  <2>1. \A r \in Streams : Status(r)' = Status(r)
    BY <1>6 DEF RecvError
  <2> QED
    BY <1>6, <2>1, StutterMaps DEF RecvError
<1>7. ASSUME NEW s \in Streams, Disconnect(s) PROVE Directory!Next \/ UNCHANGED <<statusBar, routeBar>>
  <2>1. /\ Status(s) = "up" /\ Status(s)' = "down"
        /\ \A r \in Streams \ {s} : Status(r)' = Status(r)
    BY <1>7 DEF Disconnect
  <2>2. \A p \in Peers : records'[p].chan =
          IF p = RemoteID[s] THEN None ELSE records[p].chan
    BY <1>7 DEF Disconnect, NoRecord
  <2>3. Directory!Down(s)
    BY <2>1, <2>2, DownMaps
  <2> QED
    BY <2>3 DEF Directory!Next
<1>8. ASSUME NEW s \in Streams, DisconnectMissing(s) PROVE Directory!Next \/ UNCHANGED <<statusBar, routeBar>>
  <2>1. /\ Status(s) = "up" /\ Status(s)' = "down"
        /\ \A r \in Streams \ {s} : Status(r)' = Status(r)
    BY <1>8 DEF DisconnectMissing
  <2>2. \A p \in Peers : records'[p].chan =
          IF p = RemoteID[s] THEN None ELSE records[p].chan
    BY <1>8 DEF DisconnectMissing, Exists
  <2>3. Directory!Down(s)
    BY <2>1, <2>2, DownMaps
  <2> QED
    BY <2>3 DEF Directory!Next
<1>9. ASSUME NEW s \in Streams, NEW w \in Workers, RecvRoute(s, w) PROVE Directory!Next \/ UNCHANGED <<statusBar, routeBar>>
  <2>1. \A r \in Streams : Status(r)' = Status(r)
    BY <1>9 DEF RecvRoute
  <2> QED
    BY <1>9, <2>1, StutterMaps DEF RecvRoute
<1>10. ASSUME NEW w \in Workers, StartWorker(w) PROVE Directory!Next \/ UNCHANGED <<statusBar, routeBar>>
  <2>1. \A r \in Streams : Status(r)' = Status(r)
    BY <1>10 DEF StartWorker
  <2> QED
    BY <1>10, <2>1, StutterMaps DEF StartWorker
<1>11. ASSUME NEW p \in Streams \cup Workers, Lock(p) PROVE Directory!Next \/ UNCHANGED <<statusBar, routeBar>>
  <2>1. \A r \in Streams : Status(r)' = Status(r)
    BY <1>11 DEF Lock
  <2> QED
    BY <1>11, <2>1, StutterMaps DEF Lock
<1>12. ASSUME NEW p \in Streams \cup Workers, OnChange(p) PROVE Directory!Next \/ UNCHANGED <<statusBar, routeBar>>
  <2>1. /\ pc' = [pc EXCEPT ![p] = "adv"]
        /\ records' = [records EXCEPT ![RemoteID[job[p].from]] = Updated(@, job[p])]
        /\ job[p].from \in Streams
    BY <1>12 DEF OnChange
  <2>2. CASE p \in Streams
    <3>1. job[p].from = p /\ RemoteID[p] \in Peers
      BY <2>2
    <3>2. /\ Status(p) = "new" /\ Status(p)' = "up"
          /\ \A r \in Streams \ {p} : Status(r)' = Status(r)
      BY <1>12, <2>1, <2>2 DEF OnChange
    <3>3. \A q \in Peers : records'[q].chan =
            IF q = RemoteID[p] /\ records[q].chan = None THEN p ELSE records[q].chan
      BY <2>1, <3>1 DEF Updated
    <3>4. Directory!Up(p)
      BY <2>2, <3>2, <3>3, UpMaps
    <3> QED
      BY <2>2, <3>4 DEF Directory!Next
  <2>3. CASE p \in Workers
    <3>1. job[p].kind # "Refresh"
      BY <1>12, <2>3 DEF OnChange
    <3>2. RemoteID[job[p].from] \in Peers /\ records[RemoteID[job[p].from]].chan # None
      BY <1>12, <2>1, <3>1 DEF OnChange, Exists
    <3>3. \A q \in Peers : records'[q].chan = records[q].chan
      BY <2>1, <3>2 DEF Updated
    <3>4. \A r \in Streams : Status(r)' = Status(r)
      BY <1>12, <2>1, <2>3
    <3> QED
      BY <3>3, <3>4 DEF statusBar, routeBar
  <2> QED
    BY <2>2, <2>3
<1>13. ASSUME NEW p \in Streams \cup Workers, OnChangeMissing(p) PROVE Directory!Next \/ UNCHANGED <<statusBar, routeBar>>
  <2>1. \A r \in Streams : Status(r)' = Status(r)
    BY <1>13 DEF OnChangeMissing
  <2> QED
    BY <1>13, <2>1, StutterMaps DEF OnChangeMissing
<1>14. ASSUME NEW p \in Streams \cup Workers, AdvertiseBegin(p) PROVE Directory!Next \/ UNCHANGED <<statusBar, routeBar>>
  <2>1. \A r \in Streams : Status(r)' = Status(r)
    BY <1>14 DEF AdvertiseBegin
  <2> QED
    BY <1>14, <2>1, StutterMaps DEF AdvertiseBegin
<1>15. ASSUME NEW p \in Streams \cup Workers, AdvertiseSend(p) PROVE Directory!Next \/ UNCHANGED <<statusBar, routeBar>>
  <2>1. \A r \in Streams : Status(r)' = Status(r)
    BY <1>15 DEF AdvertiseSend
  <2> QED
    BY <1>15, <2>1, StutterMaps DEF AdvertiseSend
<1>16. ASSUME NEW p \in Streams \cup Workers, AdvertiseEnd(p) PROVE Directory!Next \/ UNCHANGED <<statusBar, routeBar>>
  <2>1. \A r \in Streams : Status(r)' = Status(r)
    BY <1>16 DEF AdvertiseEnd, AfterAdvertise
  <2> QED
    BY <1>16, <2>1, StutterMaps DEF AdvertiseEnd
<1>17. CASE KeepAliveBegin
  <2>1. \A r \in Streams : Status(r)' = Status(r)
    BY <1>17 DEF KeepAliveBegin
  <2> QED
    BY <1>17, <2>1, StutterMaps DEF KeepAliveBegin
<1>18. CASE AdvertiseKeepalive
  <2>1. \A r \in Streams : Status(r)' = Status(r)
    BY <1>18 DEF AdvertiseKeepalive
  <2> QED
    BY <1>18, <2>1, StutterMaps DEF AdvertiseKeepalive
<1>19. CASE KeepAliveEnd
  <2>1. \A r \in Streams : Status(r)' = Status(r)
    BY <1>19 DEF KeepAliveEnd
  <2> QED
    BY <1>19, <2>1, StutterMaps DEF KeepAliveEnd
<1>20. CASE UNCHANGED vars
  BY <1>20 DEF vars, statusBar, routeBar
<1> QED
  BY <1>1, <1>2, <1>3, <1>4, <1>5, <1>6, <1>7, <1>8, <1>9, <1>10,
     <1>11, <1>12, <1>13, <1>14, <1>15, <1>16, <1>17, <1>18, <1>19, <1>20
  DEF Next, StreamStep, ChangeStep, KeepAliveStep

\* A route table is a directory of the connected tunnels: they come up and go down
\* once, the first with an id owns it and any with the id takes it away.
THEOREM DirectoryImplemented == Spec => ImplementsDirectory
<1>1. Inv /\ [Next]_vars => [Directory!Next]_<<statusBar, routeBar>>
  BY StepMaps
<1> QED
  BY <1>1, InitMaps, Invariance, PTL
  DEF Spec, ImplementsDirectory, Directory!Spec, Directory!dvars, statusBar, routeBar
=============================================================================
