---------------------------- MODULE Workflow_proofs ----------------------------
(***************************************************************************)
(* The order of the steps of a task and the truth of its record, for every *)
(* shape of task, any workers and any number of failures and stops.        *)
(***************************************************************************)
EXTENDS Workflow, FiniteSetTheorems, TLAPS

-------------------------------------------------------------------------------
(* The inductive invariant.                                                *)

\* Every function that steps c of t lists as Success has succeeded.
True(c, t) == \A s \in Functions : c[s] = "Success" => s \in done[t]

\* Every step before `at` is done, or in a list that the walk has left.
Reached(c, at) == \A r \in Steps : r < at => c[r] = "Success" \/ End[r] < at

StoreInv == \A t \in Tasks : store[t].status = "Success" => Functions \subseteq done[t]
StreamInv == \A i \in 1 .. Len(stream) : True(stream[i].step, stream[i].task)
Sound(w, g) ==
    /\ True(go[w][g].step, TaskOf(w, g))
    /\ Reached(go[w][g].step, go[w][g].at)
    /\ go[w][g].pc = "call" => go[w][g].at \in Functions
GoInv == \A w \in Workers, g \in Slots : go[w][g].pc # "idle" => Sound(w, g)

Inv == TypeOK /\ StoreInv /\ StreamInv /\ GoInv

-------------------------------------------------------------------------------
LEMMA StartsTyped == Fresh \in Copy /\ Idle \in Goroutine /\ NoTask.status # "Success"
BY ShapeAssumption DEF Fresh, Copy, Codes, Idle, Goroutine, Steps, NoTask

LEMMA InitInv == Init => Inv
<1> SUFFICES ASSUME Init PROVE Inv
  OBVIOUS
<1> USE StartsTyped, BoundAssumption DEF Init
<1>1. TypeOK
  <2>1. Len(stream) = 0 /\ stream \in Seq(Entry)
    OBVIOUS
  <2>2. /\ client \in [Tasks -> {"new", "stored", "queued", "refused"}]
        /\ store \in [Tasks -> Record \cup {NoTask}]
        /\ read \in 0 .. Len(stream)
        /\ pending \in [Workers -> SUBSET (1 .. Len(stream))]
        /\ sub \in [Workers -> {"down", "pending", "new", "gone"}]
        /\ batch \in [Workers -> SUBSET (1 .. Len(stream))]
    BY <2>1
  <2>3. /\ go \in [Workers -> [Slots -> Goroutine]]
        /\ \A w \in Workers, g \in Slots : go[w][g].pc = "idle"
    BY DEF Idle
  <2>4. /\ failures \in 0 .. MaxFailures /\ stops \in 0 .. MaxStops
        /\ done \in [Tasks -> SUBSET Steps]
        /\ calls \in [Tasks -> [Steps -> Nat]]
        /\ again \in [Tasks -> Nat]
        /\ lost \subseteq Tasks
    OBVIOUS
  <2> QED
    BY <2>1, <2>2, <2>3, <2>4 DEF TypeOK
<1>2. StoreInv
  BY DEF StoreInv
<1>3. StreamInv
  BY DEF StreamInv
<1>4. GoInv
  BY DEF GoInv, Idle
<1> QED
  BY <1>1, <1>2, <1>3, <1>4 DEF Inv

-------------------------------------------------------------------------------
(* Facts about one goroutine *)

\* The walk stays sound when it starts its next step, ...
LEMMA WalkOn ==
  ASSUME NEW c \in Copy, NEW at \in 1 .. N + 1, NEW s \in Steps, Reached(c, at),
         s >= at, \A r \in Steps : r >= at /\ r < s => c[r] = "Success",
         NEW code \in Codes
  PROVE  /\ Reached([c EXCEPT ![s] = code], s)
         /\ code = "Success" => Reached([c EXCEPT ![s] = code], s + 1)
BY ShapeAssumption DEF Reached, Copy, Steps

\* ... and when it leaves the list of a step that has succeeded.
LEMMA WalkOut ==
  ASSUME NEW c \in Copy, NEW s \in Steps, Reached(c, s)
  PROVE  Reached([c EXCEPT ![s] = "Success"], End[s] + 1)
<1> DEFINE d == [c EXCEPT ![s] = "Success"]
<1>1. SUFFICES ASSUME NEW r \in Steps, r < End[s] + 1
               PROVE  d[r] = "Success" \/ End[r] < End[s] + 1
  BY DEF Reached
<1>2. CASE r < s
  BY <1>2, ShapeAssumption DEF Reached, Copy, Steps
<1>3. CASE r = s
  BY <1>3 DEF Copy
<1>4. CASE r > s
  <2>1. End[r] <= End[s]
    BY <1>1, <1>4, ShapeAssumption DEF Steps
  <2> QED
    BY <2>1, <1>1, ShapeAssumption DEF Steps
<1> QED
  BY <1>2, <1>3, <1>4 DEF Steps

\* What must have succeeded before the step that a goroutine calls has.
LEMMA CalledInOrder ==
  ASSUME NEW c \in Copy, NEW t \in Tasks, NEW s \in Functions,
         True(c, t), Reached(c, s)
  PROVE  Order!Before(s) \subseteq done[t]
<1>1. SUFFICES ASSUME NEW r \in Functions, r < s, s <= End[r]
               PROVE  r \in done[t]
  BY DEF Order!Before
<1>2. r \in Steps /\ s \in Steps /\ End[r] \in Steps
  BY ShapeAssumption
<1>3. ~(End[r] < s)
  BY <1>1, <1>2 DEF Steps
<1> QED
  BY <1>1, <1>2, <1>3 DEF True, Reached


-------------------------------------------------------------------------------
(* What an action does to the goroutines, and to the store and the stream *)

Goes == [Workers -> [Slots -> Goroutine]]

LEMMA OneBecomes ==
  ASSUME go \in Goes, NEW w \in Workers, NEW g \in Slots, NEW r \in Goroutine,
         Becomes(w, g, r)
  PROVE  /\ go' \in Goes /\ go'[w][g] = r
         /\ \A v \in Workers, h \in Slots : <<v, h>> # <<w, g>> => go'[v][h] = go[v][h]
<1> DEFINE row == [go[w] EXCEPT ![g] = r]
<1>1. row \in [Slots -> Goroutine] /\ row[g] = r
      /\ \A h \in Slots : h # g => row[h] = go[w][h]
  BY DEF Goes
<1>2. go' = [go EXCEPT ![w] = row]
  BY DEF Becomes
<1> HIDE DEF row
<1>3. go' \in Goes /\ go'[w] = row /\ \A v \in Workers : v # w => go'[v] = go[v]
  BY <1>1, <1>2 DEF Goes
<1> QED
  BY <1>1, <1>3

LEMMA OneMoves ==
  ASSUME go \in Goes, NEW w \in Workers, NEW g \in Slots,
         NEW pc \in {"walk", "call", "ack"}, NEW steps \in Copy, NEW at \in 1 .. N + 1,
         MovesTo(w, g, pc, steps, at)
  PROVE  /\ go' \in Goes
         /\ go'[w][g].pc = pc /\ go'[w][g].step = steps /\ go'[w][g].at = at
         /\ go'[w][g].id = go[w][g].id
         /\ \A v \in Workers, h \in Slots : <<v, h>> # <<w, g>> => go'[v][h] = go[v][h]
<1> DEFINE r == [pc |-> pc, id |-> go[w][g].id, step |-> steps, at |-> at,
                 old |-> go[w][g].old]
<1>1. go[w][g] \in Goroutine
  BY DEF Goes
<1>2. r \in Goroutine
  BY <1>1 DEF Goroutine
<1>3. Becomes(w, g, r)
  BY DEF MovesTo
<1>4. go' \in Goes /\ go'[w][g] = r
      /\ \A v \in Workers, h \in Slots : <<v, h>> # <<w, g>> => go'[v][h] = go[v][h]
  <2> HIDE DEF r
  <2> QED
    BY <1>2, <1>3, OneBecomes
<1> QED
  BY <1>4

LEMMA AllRest ==
  ASSUME go \in Goes, NEW w \in Workers,
         go' = [go EXCEPT ![w] = [g \in Slots |-> Idle]]
  PROVE  /\ go' \in Goes
         /\ \A v \in Workers, h \in Slots :
               IF v = w THEN go'[v][h].pc = "idle" ELSE go'[v][h] = go[v][h]
BY StartsTyped DEF Goes, Idle

LEMMA AllOld ==
  ASSUME go \in Goes, NEW w \in Workers,
         go' = [go EXCEPT ![w] = [g \in Slots |->
                   IF @[g].pc = "idle" THEN Idle ELSE [@[g] EXCEPT !.old = TRUE]]]
  PROVE  /\ go' \in Goes
         /\ \A v \in Workers, h \in Slots :
               /\ go'[v][h].pc = go[v][h].pc
               /\ go[v][h].pc # "idle" =>
                     /\ go'[v][h].id = go[v][h].id /\ go'[v][h].step = go[v][h].step
                     /\ go'[v][h].at = go[v][h].at
<1> DEFINE row == [g \in Slots |-> IF go[w][g].pc = "idle" THEN Idle
                                   ELSE [go[w][g] EXCEPT !.old = TRUE]]
<1>1. ASSUME NEW g \in Slots
      PROVE  /\ row[g] \in Goroutine /\ row[g].pc = go[w][g].pc
             /\ go[w][g].pc # "idle" =>
                   /\ row[g].id = go[w][g].id /\ row[g].step = go[w][g].step
                   /\ row[g].at = go[w][g].at
  <2>1. go[w][g] \in Goroutine
    BY DEF Goes
  <2> QED
    BY <2>1, StartsTyped DEF Goroutine, Idle
<1>2. go' = [go EXCEPT ![w] = row]
  OBVIOUS
<1>3. row \in [Slots -> Goroutine]
  BY <1>1
<1> HIDE DEF row
<1>4. go' \in Goes /\ go'[w] = row /\ \A v \in Workers : v # w => go'[v] = go[v]
  BY <1>2, <1>3 DEF Goes
<1> QED
  BY <1>1, <1>4

LEMMA Stored ==
  ASSUME store \in [Tasks -> Record \cup {NoTask}], NEW t \in Tasks,
         NEW status \in {"Pending", "Success", "Error"}, NEW steps \in Copy,
         NEW ok \in BOOLEAN, Put(t, status, steps, ok)
  PROVE  /\ store' \in [Tasks -> Record \cup {NoTask}]
         /\ \A u \in Tasks : store'[u] = store[u] \/ (u = t /\ store'[u].status = status)
<1> DEFINE r == [status |-> status, step |-> steps]
<1>1. r \in Record /\ r.status = status
  BY DEF Record
<1>2. store' = IF ok THEN [store EXCEPT ![t] = r] ELSE store
  BY DEF Put
<1> HIDE DEF r
<1>3. store' = [store EXCEPT ![t] = r] \/ store' = store
  BY <1>2, Zenon
<1>4. CASE store' = store
  BY <1>4
<1>5. CASE store' = [store EXCEPT ![t] = r]
  <2>1. store' \in [Tasks -> Record \cup {NoTask}]
    BY <1>1, <1>5
  <2>2. store'[t] = r /\ \A u \in Tasks : u # t => store'[u] = store[u]
    BY <1>5
  <2>3. store'[t].status = status
    BY <2>2, <1>1
  <2> QED
    BY <2>1, <2>2, <2>3
<1> QED
  BY <1>3, <1>4, <1>5

LEMMA EntryAt ==
  ASSUME stream \in Seq(Entry), NEW i \in 1 .. Len(stream)
  PROVE  stream[i].task \in Tasks /\ stream[i].step \in Copy
<1>1. stream[i] \in Entry
  OBVIOUS
<1> QED
  BY <1>1 DEF Entry

LEMMA Published ==
  ASSUME stream \in Seq(Entry), NEW t \in Tasks, NEW steps \in Copy,
         NEW lands \in BOOLEAN, Pub(t, steps, lands)
  PROVE  /\ stream' \in Seq(Entry) /\ Len(stream') \in Nat
         /\ Len(stream) <= Len(stream')
         /\ \A i \in 1 .. Len(stream) : stream'[i] = stream[i]
         /\ \A i \in 1 .. Len(stream') : i > Len(stream) =>
               stream'[i].task = t /\ stream'[i].step = steps
<1>1. [task |-> t, step |-> steps] \in Entry
  BY DEF Entry
<1> QED
  BY <1>1 DEF Pub

-------------------------------------------------------------------------------
(* Steps that only add successes keep what holds of the store, the stream   *)
(* and the goroutines they do not touch.                                    *)

Same(v, h) ==
    /\ go[v][h].pc # "idle" /\ go'[v][h].pc \in {go[v][h].pc, "ack"}
    /\ go'[v][h].id = go[v][h].id /\ go'[v][h].step = go[v][h].step
    /\ go'[v][h].at = go[v][h].at

Grows == /\ stream' \in Seq(Entry) /\ Len(stream) <= Len(stream')
         /\ \A i \in 1 .. Len(stream) : stream'[i] = stream[i]

\* A step that keeps the goroutines sound, or makes them idle, ...
LEMMA Keeps ==
  ASSUME Inv, TypeOK', Grows,
         \A t \in Tasks : done[t] \subseteq done'[t],
         \A t \in Tasks : \/ store'[t] = store[t]
                          \/ store'[t].status = "Success" => Functions \subseteq done'[t],
         \A i \in 1 .. Len(stream') : i > Len(stream) =>
            \A s \in Functions :
               stream'[i].step[s] = "Success" => s \in done'[stream'[i].task],
         \A v \in Workers, h \in Slots :
            go'[v][h].pc = "idle" \/ Same(v, h) \/ Sound(v, h)'
  PROVE  Inv'
<1>1. StoreInv'
  <2>1. SUFFICES ASSUME NEW t \in Tasks, store'[t].status = "Success"
                 PROVE  Functions \subseteq done'[t]
    BY DEF StoreInv
  <2> QED
    BY <2>1 DEF Inv, StoreInv
<1>2. StreamInv'
  <2>1. SUFFICES ASSUME NEW i \in 1 .. Len(stream'), NEW s \in Functions,
                        stream'[i].step[s] = "Success"
                 PROVE  s \in done'[stream'[i].task]
    BY DEF StreamInv, True
  <2>2. CASE i > Len(stream)
    BY <2>1, <2>2
  <2>3. CASE ~(i > Len(stream))
    <3>1. i \in 1 .. Len(stream) /\ stream'[i] = stream[i]
      BY <2>3 DEF Grows, Inv, TypeOK
    <3>2. stream[i].task \in Tasks
      BY <3>1, EntryAt DEF Inv, TypeOK
    <3>3. s \in done[stream[i].task]
      BY <2>1, <3>1 DEF Inv, StreamInv, True
    <3> QED
      BY <3>1, <3>2, <3>3
  <2> QED
    BY <2>2, <2>3
<1>3. GoInv'
  <2>1. SUFFICES ASSUME NEW w \in Workers, NEW g \in Slots, go'[w][g].pc # "idle",
                        Same(w, g)
                 PROVE  Sound(w, g)'
    BY DEF GoInv
  <2>2. go[w][g].id \in 1 .. Len(stream) /\ go[w][g] \in Goroutine
    BY <2>1 DEF Inv, TypeOK, Same
  <2>3. stream'[go'[w][g].id] = stream[go[w][g].id]
    BY <2>1, <2>2 DEF Same, Grows
  <2>4. stream[go[w][g].id].task \in Tasks
    BY <2>2, EntryAt DEF Inv, TypeOK
  <2>5. Sound(w, g)
    BY <2>1 DEF Inv, GoInv, Same
  <2>6. True(go[w][g].step, TaskOf(w, g))'
    <3>1. SUFFICES ASSUME NEW s \in Functions, go'[w][g].step[s] = "Success"
                   PROVE  s \in done'[stream'[go'[w][g].id].task]
      BY DEF True, TaskOf
    <3>2. s \in done[stream[go[w][g].id].task]
      BY <3>1, <2>1, <2>5 DEF Sound, True, TaskOf, Same
    <3> QED
      BY <3>2, <2>3, <2>4
  <2>7. Reached(go[w][g].step, go[w][g].at)'
    BY <2>1, <2>5 DEF Sound, Reached, Same
  <2>8. (go[w][g].pc = "call" => go[w][g].at \in Functions)'
    BY <2>1, <2>5 DEF Sound, Same
  <2> QED
    BY <2>6, <2>7, <2>8 DEF Sound
<1> QED
  BY <1>1, <1>2, <1>3 DEF Inv

\* ... and one that adds nothing to the stream needs only its own facts.
LEMMA KeepsStream ==
  ASSUME Inv, TypeOK', stream' = stream,
         \A t \in Tasks : done[t] \subseteq done'[t],
         \A t \in Tasks : \/ store'[t] = store[t]
                          \/ store'[t].status = "Success" => Functions \subseteq done'[t],
         \A v \in Workers, h \in Slots :
            go'[v][h].pc = "idle" \/ Same(v, h) \/ Sound(v, h)'
  PROVE  Inv'
<1>1. stream \in Seq(Entry) /\ Len(stream) \in Nat
  BY DEF Inv, TypeOK
<1>2. Grows
  BY <1>1 DEF Grows
<1>3. ~ \E i \in 1 .. Len(stream') : i > Len(stream)
  BY <1>1
<1> QED
  BY <1>2, <1>3, Keeps

-------------------------------------------------------------------------------
(* One lemma per action *)

Untouched == \A v \in Workers, h \in Slots : go'[v][h].pc = "idle" \/ Same(v, h)

LEMMA NoGoes == go' = go => Untouched
BY DEF Untouched, Same

LEMMA SubmitPutInv ==
  ASSUME Inv, NEW t \in Tasks, NEW ok \in BOOLEAN, SubmitPut(t, ok)
  PROVE  Inv'
<1> USE DEF SubmitPut, Outcome
<1>1. /\ store' \in [Tasks -> Record \cup {NoTask}]
      /\ \A u \in Tasks : store'[u] = store[u] \/ (u = t /\ store'[u].status = "Pending")
  BY StartsTyped, Stored DEF Inv, TypeOK
<1>2. TypeOK'
  <2>1. /\ client' \in [Tasks -> {"new", "stored", "queued", "refused"}]
        /\ failures' \in 0 .. MaxFailures /\ stops' \in 0 .. MaxStops
    <3>1. client' = [client EXCEPT ![t] = "stored"] \/ client' = [client EXCEPT ![t] = "refused"]
      BY Zenon
    <3>2. failures' = failures \/ failures' = failures + 1
      BY Zenon
    <3> QED
      BY <3>1, <3>2, BoundAssumption DEF Inv, TypeOK
  <2> QED
    BY <1>1, <2>1 DEF Inv, TypeOK
<1> QED
  BY <1>1, <1>2, NoGoes, Keeps DEF Grows, Inv, TypeOK, Untouched

LEMMA SubmitPubInv ==
  ASSUME Inv, NEW t \in Tasks, NEW ok \in BOOLEAN, NEW lands \in BOOLEAN,
         SubmitPub(t, ok, lands)
  PROVE  Inv'
<1> USE DEF SubmitPub, Outcome
<1>1. /\ Grows /\ Len(stream') \in Nat
      /\ \A i \in 1 .. Len(stream') : i > Len(stream) =>
            stream'[i].task = t /\ stream'[i].step = Fresh
  BY StartsTyped, Published DEF Inv, TypeOK, Grows
<1>2. TypeOK'
  <2>1. /\ client' \in [Tasks -> {"new", "stored", "queued", "refused"}]
        /\ failures' \in 0 .. MaxFailures /\ stops' \in 0 .. MaxStops
    <3>1. client' = [client EXCEPT ![t] = "queued"] \/ client' = [client EXCEPT ![t] = "refused"]
      BY Zenon
    <3>2. failures' = failures \/ failures' = failures + 1
      BY Zenon
    <3> QED
      BY <3>1, <3>2, BoundAssumption DEF Inv, TypeOK
  <2>2. /\ read' \in 0 .. Len(stream')
        /\ pending' \in [Workers -> SUBSET (1 .. Len(stream'))]
        /\ batch' \in [Workers -> SUBSET (1 .. Len(stream'))]
        /\ \A w \in Workers, g \in Slots :
              go'[w][g].pc # "idle" => go'[w][g].id \in 1 .. Len(stream')
    <3>1. 1 .. Len(stream) \subseteq 1 .. Len(stream')
      BY <1>1 DEF Grows, Inv, TypeOK
    <3>2. read \in 0 .. Len(stream')
      BY <1>1 DEF Grows, Inv, TypeOK
    <3> QED
      BY <3>1, <3>2 DEF Inv, TypeOK
  <2> QED
    BY <1>1, <2>1, <2>2 DEF Inv, TypeOK, Grows
<1>3. \A s \in Functions : Fresh[s] = ""
  BY ShapeAssumption DEF Fresh
<1>4. done' = done /\ store' = store /\ go' = go
  OBVIOUS
<1> QED
  BY <1>1, <1>2, <1>3, <1>4, NoGoes, Keeps DEF Untouched

LEMMA RemoveInv ==
  ASSUME Inv, NEW t \in Tasks, Remove(t)
  PROVE  Inv'
<1> USE DEF Remove
<1>1. TypeOK'
  BY DEF Inv, TypeOK
<1> QED
  BY <1>1, NoGoes, Keeps, StartsTyped DEF Grows, Inv, TypeOK, Untouched

LEMMA StartInv ==
  ASSUME Inv, NEW w \in Workers, Start(w) \/ ReadPending(w)
  PROVE  Inv'
<1> USE DEF Start, ReadPending, redis
<1>1. TypeOK'
  <2>1. CASE Start(w)
    BY <2>1 DEF Inv, TypeOK
  <2>2. CASE ReadPending(w)
    <3>1. ASSUME NEW t \in Tasks
          PROVE  Cardinality(OfTask(pending[w], t)) \in Nat
      <4>1. pending[w] \subseteq 1 .. Len(stream) /\ Len(stream) \in Nat
        BY DEF Inv, TypeOK
      <4>2. OfTask(pending[w], t) \subseteq 1 .. Len(stream)
        BY <4>1 DEF OfTask
      <4>3. IsFiniteSet(1 .. Len(stream))
        <5>1. 1 \in Int /\ Len(stream) \in Int
          BY <4>1
        <5> QED
          BY <5>1, FS_Interval
      <4>4. IsFiniteSet(OfTask(pending[w], t))
        BY <4>2, <4>3, FS_Subset
      <4> QED
        BY <4>4, FS_CardinalityType
    <3>2. again' \in [Tasks -> Nat]
      BY <2>2, <3>1 DEF Inv, TypeOK
    <3> QED
      BY <2>2, <3>2 DEF Inv, TypeOK
  <2> QED
    BY <2>1, <2>2
<1> QED
  BY <1>1, NoGoes, Keeps DEF Grows, Inv, TypeOK, Untouched

LEMMA ReadInv ==
  ASSUME Inv, NEW w \in Workers,
         ReadNew(w) \/ \E n \in {read, Len(stream)} : ReadFails(w, n)
  PROVE  Inv'
<1> USE DEF ReadNew, ReadFails, Deliver, Outcome
<1>1. PICK n \in {read, Len(stream)} : Deliver(w, n)
  OBVIOUS
<1>2. read' \in 0 .. Len(stream) /\ stream' = stream
      /\ pending' \in [Workers -> SUBSET (1 .. Len(stream))]
  BY <1>1 DEF Inv, TypeOK
<1>3. go' \in Goes /\ Untouched
      /\ \A v \in Workers, h \in Slots : go'[v][h].pc # "idle" => go'[v][h].id = go[v][h].id
  <2>0. go \in Goes
    BY DEF Inv, TypeOK, Goes
  <2>1. CASE ReadNew(w)
    <3>1. go' = go
      BY <2>1
    <3> QED
      BY <2>0, <3>1 DEF Untouched, Same
  <2>2. CASE \E m \in {read, Len(stream)} : ReadFails(w, m)
    <3>1. go' = [go EXCEPT ![w] = [g \in Slots |->
                    IF @[g].pc = "idle" THEN Idle ELSE [@[g] EXCEPT !.old = TRUE]]]
      BY <2>2
    <3>2. /\ go' \in Goes
          /\ \A v \in Workers, h \in Slots :
                /\ go'[v][h].pc = go[v][h].pc
                /\ go[v][h].pc # "idle" =>
                      /\ go'[v][h].id = go[v][h].id /\ go'[v][h].step = go[v][h].step
                      /\ go'[v][h].at = go[v][h].at
      BY <2>0, <3>1, AllOld
    <3> QED
      BY <3>2 DEF Untouched, Same
  <2> QED
    BY <2>1, <2>2
<1>4. TypeOK'
  <2>1. batch' \in [Workers -> SUBSET (1 .. Len(stream))]
    <3>1. batch' = batch \/ batch' = [batch EXCEPT ![w] = read + 1 .. Len(stream)]
      OBVIOUS
    <3>2. read + 1 .. Len(stream) \subseteq 1 .. Len(stream)
      BY DEF Inv, TypeOK
    <3> QED
      BY <3>1, <3>2 DEF Inv, TypeOK
  <2>2. failures' \in 0 .. MaxFailures /\ stops' = stops
    BY BoundAssumption DEF Inv, TypeOK
  <2>3. \A v \in Workers, h \in Slots :
           go'[v][h].pc # "idle" => go'[v][h].id \in 1 .. Len(stream)
    BY <1>3 DEF Inv, TypeOK, Untouched, Same
  <2>4. sub' \in [Workers -> {"down", "pending", "new", "gone"}]
    BY DEF Inv, TypeOK
  <2> QED
    BY <1>2, <1>3, <2>1, <2>2, <2>3, <2>4 DEF Inv, TypeOK, Goes
<1>5. done' = done /\ store' = store
  OBVIOUS
<1> QED
  BY <1>2, <1>3, <1>4, <1>5, Keeps DEF Grows, Inv, TypeOK, Untouched

\* What is known of a goroutine that handles a delivery
LEMMA Alive ==
  ASSUME Inv, NEW w \in Workers, NEW g \in Slots, go[w][g].pc # "idle"
  PROVE  /\ go \in Goes /\ go[w][g].id \in 1 .. Len(stream) /\ TaskOf(w, g) \in Tasks
         /\ go[w][g].step \in Copy /\ go[w][g].at \in 1 .. N + 1
         /\ True(go[w][g].step, TaskOf(w, g)) /\ Reached(go[w][g].step, go[w][g].at)
         /\ go[w][g].pc = "call" => go[w][g].at \in Functions
<1>1. go \in Goes /\ go[w][g] \in Goroutine /\ go[w][g].id \in 1 .. Len(stream)
  BY DEF Inv, TypeOK, Goes
<1>2. go[w][g].step \in Copy /\ go[w][g].at \in 1 .. N + 1
  BY <1>1 DEF Goroutine
<1>3. TaskOf(w, g) \in Tasks
  BY <1>1, EntryAt DEF TaskOf, Inv, TypeOK
<1>4. Sound(w, g)
  BY DEF Inv, GoInv
<1> QED
  BY <1>1, <1>2, <1>3, <1>4 DEF Sound

\* Failures counted by an action
LEMMA Counted ==
  ASSUME Inv, NEW ok \in BOOLEAN, Outcome(ok)
  PROVE  failures' \in 0 .. MaxFailures /\ stops' = stops
<1>1. failures' = failures \/ failures' = failures + 1
  BY Zenon DEF Outcome
<1> QED
  BY <1>1, BoundAssumption DEF Outcome, Inv, TypeOK

LEMMA DispatchInv ==
  ASSUME Inv, NEW w \in Workers, NEW g \in Slots, Dispatch(w, g)
  PROVE  Inv'
<1>0. UNCHANGED <<client, store, stream, read, pending, sub, failures, stops, done,
                 calls, again, lost>>
  BY DEF Dispatch, redis
<1>1. PICK id \in batch[w] :
         /\ Becomes(w, g, [pc |-> "walk", id |-> id, step |-> stream[id].step,
                           at |-> 1, old |-> FALSE])
         /\ batch' = [batch EXCEPT ![w] = @ \ {id}]
  BY DEF Dispatch
<1> DEFINE r == [pc |-> "walk", id |-> id, step |-> stream[id].step, at |-> 1, old |-> FALSE]
<1>2. id \in 1 .. Len(stream) /\ Len(stream) \in Nat
  BY DEF Inv, TypeOK
<1>3. stream[id].task \in Tasks /\ stream[id].step \in Copy
  BY <1>2, EntryAt DEF Inv, TypeOK
<1>4. r \in Goroutine
  BY <1>2, <1>3, ShapeAssumption DEF Goroutine
<1>5. go \in Goes /\ Becomes(w, g, r)
  BY <1>1 DEF Inv, TypeOK, Goes
<1>6. r.pc = "walk" /\ r.id = id /\ r.step = stream[id].step /\ r.at = 1
  OBVIOUS
<1> HIDE DEF r
<1>7. /\ go' \in Goes /\ go'[w][g] = r
      /\ \A v \in Workers, h \in Slots : <<v, h>> # <<w, g>> => go'[v][h] = go[v][h]
  BY <1>4, <1>5, OneBecomes
<1>8. batch' \in [Workers -> SUBSET (1 .. Len(stream))]
  BY <1>1 DEF Inv, TypeOK
<1>9. ASSUME NEW v \in Workers, NEW h \in Slots, go'[v][h].pc # "idle"
      PROVE  go'[v][h].id \in 1 .. Len(stream)
  <2>1. CASE v = w /\ h = g
    BY <1>2, <1>6, <1>7, <2>1
  <2>2. CASE <<v, h>> # <<w, g>>
    <3>1. go'[v][h] = go[v][h]
      BY <1>7, <2>2
    <3>2. QED
      BY <1>9, <3>1 DEF Inv, TypeOK
  <2>3. QED
    BY <2>1, <2>2
<1>10. TypeOK'
  BY <1>0, <1>7, <1>8, <1>9 DEF Inv, TypeOK, Goes
<1>11. Sound(w, g)'
  <2>1. Reached(stream[id].step, 1)
    BY ShapeAssumption DEF Reached, Steps
  <2>2. True(stream[id].step, stream[id].task)
    BY <1>2 DEF Inv, StreamInv
  <2>3. stream' = stream /\ done' = done
    BY <1>0
  <2> QED
    BY <2>1, <2>2, <2>3, <1>6, <1>7 DEF Sound, True, Reached, TaskOf
<1>12. \A v \in Workers, h \in Slots : go'[v][h].pc = "idle" \/ Same(v, h) \/ Sound(v, h)'
  BY <1>7, <1>11 DEF Same
<1> QED
  BY <1>0, <1>10, <1>12, Keeps DEF Grows, Inv, TypeOK

LEMMA AckInv ==
  ASSUME Inv, NEW w \in Workers, NEW g \in Slots, NEW ok \in BOOLEAN, Ack(w, g, ok)
  PROVE  Inv'
<1> USE DEF Ack
<1>1. go \in Goes
  BY DEF Inv, TypeOK, Goes
<1>2. /\ go' \in Goes /\ go'[w][g] = Idle
      /\ \A v \in Workers, h \in Slots : <<v, h>> # <<w, g>> => go'[v][h] = go[v][h]
  BY <1>1, StartsTyped, OneBecomes
<1>3. Idle.pc = "idle"
  BY DEF Idle
<1>4. pending' \in [Workers -> SUBSET (1 .. Len(stream))]
  <2>1. pending' = [pending EXCEPT ![w] = @ \ {go[w][g].id}] \/ pending' = pending
    BY Zenon
  <2> QED
    BY <2>1 DEF Inv, TypeOK
<1>5. \A v \in Workers, h \in Slots :
         go'[v][h].pc # "idle" => go'[v][h].id \in 1 .. Len(stream)
  BY <1>2, <1>3 DEF Inv, TypeOK
<1>6. TypeOK'
  BY <1>2, <1>4, <1>5, Counted DEF Inv, TypeOK, Goes
<1>7. \A v \in Workers, h \in Slots : go'[v][h].pc = "idle" \/ Same(v, h)
  BY <1>2, <1>3 DEF Same
<1> QED
  BY <1>6, <1>7, Keeps DEF Grows, Inv, TypeOK

LEMMA StopInv ==
  ASSUME Inv, NEW w \in Workers, Crash(w) \/ Replace(w)
  PROVE  Inv'
<1>1. PICK state \in {"down", "gone"} : Stop(w, state)
  BY DEF Crash, Replace
<1> USE DEF Stop, redis
<1>2. /\ go' \in Goes
      /\ \A v \in Workers, h \in Slots :
            IF v = w THEN go'[v][h].pc = "idle" ELSE go'[v][h] = go[v][h]
  <2>1. go \in Goes /\ go' = [go EXCEPT ![w] = [g \in Slots |-> Idle]]
    BY <1>1 DEF Inv, TypeOK, Goes
  <2> QED
    BY <2>1, AllRest
<1>3. /\ batch' \in [Workers -> SUBSET (1 .. Len(stream))]
      /\ sub' \in [Workers -> {"down", "pending", "new", "gone"}]
      /\ stops' \in 0 .. MaxStops /\ failures' = failures
  BY <1>1, BoundAssumption DEF Inv, TypeOK
<1>4. lost' \subseteq Tasks
  <2>1. Unclaimed(w) \subseteq Tasks
    BY Alive DEF Unclaimed
  <2> QED
    BY <2>1 DEF Crash, Replace, Inv, TypeOK
<1>5. \A v \in Workers, h \in Slots :
         go'[v][h].pc # "idle" => go'[v][h].id \in 1 .. Len(stream)
  BY <1>2 DEF Inv, TypeOK
<1>6. TypeOK'
  BY <1>1, <1>2, <1>3, <1>4, <1>5 DEF Inv, TypeOK, Goes
<1>7. \A v \in Workers, h \in Slots : go'[v][h].pc = "idle" \/ Same(v, h)
  BY <1>2 DEF Same
<1> QED
  BY <1>1, <1>6, <1>7, Keeps DEF Grows, Inv, TypeOK

\* A goroutine that moves on within its delivery keeps the types.
LEMMA MoveTypes ==
  ASSUME Inv, NEW w \in Workers, NEW g \in Slots, go[w][g].pc # "idle",
         NEW pc \in {"walk", "call", "ack"}, NEW steps \in Copy, NEW at \in 1 .. N + 1,
         MovesTo(w, g, pc, steps, at), Grows
  PROVE  /\ go' \in Goes
         /\ go'[w][g].pc = pc /\ go'[w][g].step = steps /\ go'[w][g].at = at
         /\ go'[w][g].id = go[w][g].id
         /\ TaskOf(w, g)' = TaskOf(w, g)
         /\ \A v \in Workers, h \in Slots : <<v, h>> # <<w, g>> => go'[v][h] = go[v][h]
         /\ \A v \in Workers, h \in Slots :
               go'[v][h].pc # "idle" => go'[v][h].id \in 1 .. Len(stream')
<1>1. go \in Goes /\ go[w][g].id \in 1 .. Len(stream)
  BY Alive
<1>2. /\ go' \in Goes
      /\ go'[w][g].pc = pc /\ go'[w][g].step = steps /\ go'[w][g].at = at
      /\ go'[w][g].id = go[w][g].id
      /\ \A v \in Workers, h \in Slots : <<v, h>> # <<w, g>> => go'[v][h] = go[v][h]
  BY <1>1, OneMoves
<1>3. 1 .. Len(stream) \subseteq 1 .. Len(stream')
  BY DEF Grows, Inv, TypeOK
<1>4. \A v \in Workers, h \in Slots :
         go[v][h].pc # "idle" => go[v][h].id \in 1 .. Len(stream)
  BY DEF Inv, TypeOK
<1>5. \A v \in Workers, h \in Slots :
         go'[v][h].pc # "idle" => go'[v][h].id \in 1 .. Len(stream')
  BY <1>1, <1>2, <1>3, <1>4
<1>6. TaskOf(w, g)' = TaskOf(w, g)
  BY <1>1, <1>2 DEF Grows, TaskOf
<1> QED
  BY <1>2, <1>5, <1>6

LEMMA StartStepInv ==
  ASSUME Inv, NEW w \in Workers, NEW g \in Slots, NEW s \in Steps, NEW ok \in BOOLEAN,
         StartStep(w, g, s, ok)
  PROVE  Inv'
<1> DEFINE c == go[w][g].step
           at == go[w][g].at
           running == [c EXCEPT ![s] = "Running"]
           skipped == [c EXCEPT ![s] = "Success"]
           t == TaskOf(w, g)
<1> USE DEF StartStep
<1>1. /\ go[w][g].pc = "walk" /\ go \in Goes /\ t \in Tasks /\ c \in Copy
      /\ at \in 1 .. N + 1 /\ True(c, t) /\ Reached(c, at)
  BY Alive
<1>2. s >= at /\ \A r \in Steps : r >= at /\ r < s => c[r] = "Success"
  BY DEF IsNext
<1>3. /\ running \in Copy /\ skipped \in Copy
      /\ Reached(running, s) /\ Reached(skipped, s + 1)
  BY <1>1, <1>2, WalkOn DEF Copy, Codes
<1>4. True(running, t)
  BY <1>1, ShapeAssumption DEF True, Copy
<1>5. s \notin Functions => True(skipped, t)
  BY <1>1, ShapeAssumption DEF True, Copy
<1>6. /\ store' \in [Tasks -> Record \cup {NoTask}]
      /\ \A u \in Tasks : store'[u] = store[u] \/ (u = t /\ store'[u].status = "Pending")
  BY <1>1, <1>3, Stored DEF Inv, TypeOK
<1>7. Grows
  BY DEF Grows, Inv, TypeOK
<1> HIDE DEF running, skipped
<1>8. PICK pc \in {"walk", "call"}, new \in Copy, n \in 1 .. N + 1 :
         /\ MovesTo(w, g, pc, new, n) /\ True(new, t) /\ Reached(new, n)
         /\ pc = "call" => n \in Functions
  <2>1. s \in 1 .. N + 1 /\ s + 1 \in 1 .. N + 1
    BY ShapeAssumption DEF Steps
  <2>2. CASE s \in Functions
    BY <1>3, <1>4, <2>1, <2>2 DEF running
  <2>3. CASE s \notin Functions
    BY <1>3, <1>5, <2>1, <2>3 DEF skipped
  <2> QED
    BY <2>2, <2>3
<1>9. /\ go' \in Goes
      /\ go'[w][g].pc = pc /\ go'[w][g].step = new /\ go'[w][g].at = n
      /\ TaskOf(w, g)' = t
      /\ \A v \in Workers, h \in Slots : <<v, h>> # <<w, g>> => go'[v][h] = go[v][h]
      /\ \A v \in Workers, h \in Slots :
            go'[v][h].pc # "idle" => go'[v][h].id \in 1 .. Len(stream')
  BY <1>1, <1>7, <1>8, MoveTypes
<1>10. calls' \in [Tasks -> [Steps -> Nat]]
  <2>1. calls' = calls \/ calls' = [calls EXCEPT ![t] = [calls[t] EXCEPT ![s] = calls[t][s] + 1]]
    OBVIOUS
  <2> HIDE DEF t
  <2>2. [calls[t] EXCEPT ![s] = calls[t][s] + 1] \in [Steps -> Nat]
    BY <1>1 DEF Inv, TypeOK
  <2> QED
    BY <1>1, <2>1, <2>2 DEF Inv, TypeOK
<1>11. TypeOK'
  BY <1>6, <1>7, <1>9, <1>10, Counted DEF Inv, TypeOK, Goes
<1>12. Sound(w, g)'
  BY <1>8, <1>9 DEF Sound, True, Reached
<1>13. \A v \in Workers, h \in Slots : go'[v][h].pc = "idle" \/ Same(v, h) \/ Sound(v, h)'
  BY <1>9, <1>12 DEF Same
<1> QED
  <2>1. stream' = stream /\ done' = done
    OBVIOUS
  <2> HIDE DEF StartStep, t
  <2> QED
    BY <1>6, <1>11, <1>13, <2>1, KeepsStream

LEMMA ReturnInv ==
  ASSUME Inv, NEW w \in Workers, NEW g \in Slots, NEW code \in {"Success", "Error"},
         NEW ok \in BOOLEAN, Return(w, g, code, ok)
  PROVE  Inv'
<1> DEFINE c == go[w][g].step
           s == go[w][g].at
           new == [c EXCEPT ![s] = code]
           t == TaskOf(w, g)
<1> USE DEF Return
<1>1. /\ go[w][g].pc = "call" /\ go \in Goes /\ t \in Tasks /\ c \in Copy
      /\ s \in Functions /\ s \in Steps /\ True(c, t) /\ Reached(c, s)
  BY Alive, ShapeAssumption
<1>2. new \in Copy /\ Resume(s, code) \in 1 .. N + 1 /\ Reached(new, Resume(s, code))
  <2>1. CASE code = "Success"
    <3>1. End[s] \in Steps /\ Reached(new, End[s] + 1)
      BY <1>1, <2>1, WalkOut, ShapeAssumption
    <3>2. Resume(s, code) = End[s] + 1 /\ End[s] + 1 \in 1 .. N + 1
      BY <3>1, <2>1, ShapeAssumption DEF Resume, Steps
    <3>3. new \in Copy
      BY <1>1, <2>1 DEF Copy, Codes
    <3> HIDE DEF new, s
    <3> QED
      BY <3>1, <3>2, <3>3
  <2>2. CASE code = "Error"
    <3>1. /\ Reached(c, s) /\ s >= s /\ s \in 1 .. N + 1
          /\ \A r \in Steps : r >= s /\ r < s => c[r] = "Success"
      BY <1>1, ShapeAssumption DEF Steps
    <3>2. Reached(new, s)
      BY <1>1, <2>2, <3>1, WalkOn DEF Codes
    <3> QED
      BY <3>1, <3>2, <1>1, <2>2 DEF Resume, Copy, Codes
  <2> QED
    BY <2>1, <2>2
<1>3. /\ store' \in [Tasks -> Record \cup {NoTask}]
      /\ \A u \in Tasks : store'[u] = store[u] \/ (u = t /\ store'[u].status = "Pending")
  BY <1>1, <1>2, Stored DEF Inv, TypeOK
<1>4. Grows
  BY DEF Grows, Inv, TypeOK
<1>5. /\ go' \in Goes
      /\ go'[w][g].pc = "walk" /\ go'[w][g].step = new /\ go'[w][g].at = Resume(s, code)
      /\ TaskOf(w, g)' = t
      /\ \A v \in Workers, h \in Slots : <<v, h>> # <<w, g>> => go'[v][h] = go[v][h]
      /\ \A v \in Workers, h \in Slots :
            go'[v][h].pc # "idle" => go'[v][h].id \in 1 .. Len(stream')
  <2>1. MovesTo(w, g, "walk", new, Resume(s, code)) /\ go[w][g].pc # "idle"
    BY <1>1
  <2> HIDE DEF new, s
  <2> QED
    BY <1>2, <1>4, <2>1, MoveTypes
<1>6. /\ done' \in [Tasks -> SUBSET Steps] /\ \A u \in Tasks : done[u] \subseteq done'[u]
      /\ code = "Success" => s \in done'[t]
  <2> HIDE DEF t, s
  <2>1. CASE code = "Success"
    <3>1. done' = [done EXCEPT ![t] = @ \cup {s}]
      BY <2>1 DEF t, s
    <3>2. done \in [Tasks -> SUBSET Steps] /\ t \in Tasks /\ s \in Steps
      BY <1>1 DEF Inv, TypeOK
    <3>3. done'[t] = done[t] \cup {s} /\ \A u \in Tasks : u # t => done'[u] = done[u]
      BY <3>1, <3>2
    <3>4. done[t] \cup {s} \in SUBSET Steps
      BY <3>2
    <3>5. [done EXCEPT ![t] = done[t] \cup {s}] \in [Tasks -> SUBSET Steps]
      BY <3>2, <3>4
    <3>6. done' \in [Tasks -> SUBSET Steps]
      BY <3>1, <3>5
    <3> QED
      BY <3>2, <3>3, <3>6
  <2>2. CASE code # "Success"
    <3>1. done' = done
      BY <2>2
    <3> QED
      BY <2>2, <3>1 DEF Inv, TypeOK
  <2> QED
    BY <2>1, <2>2
<1>7. \A f \in Functions : new[f] = "Success" => f \in done'[t]
  <2>1. SUFFICES ASSUME NEW f \in Functions, new[f] = "Success" PROVE f \in done'[t]
    OBVIOUS
  <2>2. f = s => code = "Success"
    BY <2>1, <1>1 DEF Copy
  <2>3. f # s => f \in done[t]
    BY <2>1, <1>1 DEF Copy, True
  <2> QED
    BY <2>2, <2>3, <1>6, <1>1
<1>8. TypeOK'
  BY <1>3, <1>4, <1>5, <1>6, Counted DEF Inv, TypeOK, Goes
<1>9. Sound(w, g)'
  <2> HIDE DEF new, t, s
  <2> QED
    BY <1>2, <1>5, <1>7 DEF Sound, True, Reached
<1>10. \A v \in Workers, h \in Slots : go'[v][h].pc = "idle" \/ Same(v, h) \/ Sound(v, h)'
  BY <1>5, <1>9 DEF Same
<1> QED
  <2>1. stream' = stream
    OBVIOUS
  <2> HIDE DEF Return, t, s
  <2> QED
    BY <1>3, <1>6, <1>8, <1>10, <2>1, KeepsStream

LEMMA FinishInv ==
  ASSUME Inv, NEW w \in Workers, NEW g \in Slots, NEW ok \in BOOLEAN, Finish(w, g, ok)
  PROVE  Inv'
<1> DEFINE c == go[w][g].step
           status == IF Failed(c) THEN "Error" ELSE "Success"
           t == TaskOf(w, g)
<1> USE DEF Finish
<1>1. /\ go[w][g].pc = "walk" /\ go \in Goes /\ t \in Tasks /\ c \in Copy
      /\ go[w][g].at \in 1 .. N + 1 /\ True(c, t)
  BY Alive
<1>2. /\ store' \in [Tasks -> Record \cup {NoTask}]
      /\ \A u \in Tasks : store'[u] = store[u] \/ (u = t /\ store'[u].status = status)
  BY <1>1, Stored DEF Inv, TypeOK
<1>3. Grows
  BY DEF Grows, Inv, TypeOK
<1>4. /\ go' \in Goes
      /\ go'[w][g].pc = "ack" /\ go'[w][g].step = c /\ go'[w][g].at = go[w][g].at
      /\ go'[w][g].id = go[w][g].id
      /\ \A v \in Workers, h \in Slots : <<v, h>> # <<w, g>> => go'[v][h] = go[v][h]
      /\ \A v \in Workers, h \in Slots :
            go'[v][h].pc # "idle" => go'[v][h].id \in 1 .. Len(stream')
  BY <1>1, <1>3, MoveTypes
<1>5. lost' \subseteq Tasks
  BY <1>1 DEF Inv, TypeOK
<1>6. TypeOK'
  BY <1>2, <1>3, <1>4, <1>5, Counted DEF Inv, TypeOK, Goes
<1>7. status = "Success" => Functions \subseteq done[t]
  <2>1. status = "Success" => \A s \in Steps : c[s] = "Success"
    BY DEF AllFinished
  <2> QED
    BY <2>1, <1>1, ShapeAssumption DEF True
<1>8. \A v \in Workers, h \in Slots : go'[v][h].pc = "idle" \/ Same(v, h)
  BY <1>1, <1>4 DEF Same
<1> QED
  BY <1>2, <1>3, <1>6, <1>7, <1>8, Keeps DEF Grows, Inv, TypeOK

LEMMA RequeueInv ==
  ASSUME Inv, NEW w \in Workers, NEW g \in Slots, NEW ok \in BOOLEAN, Requeue(w, g, ok)
  PROVE  Inv'
<1> DEFINE c == go[w][g].step
           t == TaskOf(w, g)
<1> USE DEF Requeue
<1>1. /\ go[w][g].pc = "walk" /\ go \in Goes /\ t \in Tasks /\ c \in Copy
      /\ go[w][g].at \in 1 .. N + 1 /\ True(c, t)
  BY Alive
<1>2. /\ Grows /\ Len(stream') \in Nat
      /\ \A i \in 1 .. Len(stream') : i > Len(stream) =>
            stream'[i].task = t /\ stream'[i].step = c
  BY <1>1, Published DEF Inv, TypeOK, Grows
<1>3. /\ go' \in Goes
      /\ go'[w][g].pc = "ack" /\ go'[w][g].step = c /\ go'[w][g].at = go[w][g].at
      /\ go'[w][g].id = go[w][g].id
      /\ \A v \in Workers, h \in Slots : <<v, h>> # <<w, g>> => go'[v][h] = go[v][h]
      /\ \A v \in Workers, h \in Slots :
            go'[v][h].pc # "idle" => go'[v][h].id \in 1 .. Len(stream')
  BY <1>1, <1>2, MoveTypes
<1>4. lost' \subseteq Tasks
  BY <1>1 DEF Inv, TypeOK
<1>5. /\ read' \in 0 .. Len(stream')
      /\ pending' \in [Workers -> SUBSET (1 .. Len(stream'))]
      /\ batch' \in [Workers -> SUBSET (1 .. Len(stream'))]
  <2>1. 1 .. Len(stream) \subseteq 1 .. Len(stream')
    BY <1>2 DEF Grows, Inv, TypeOK
  <2>2. read \in 0 .. Len(stream')
    BY <1>2 DEF Grows, Inv, TypeOK
  <2> QED
    BY <2>1, <2>2 DEF Inv, TypeOK
<1>6. TypeOK'
  BY <1>2, <1>3, <1>4, <1>5, Counted DEF Inv, TypeOK, Goes, Grows
<1>7. \A v \in Workers, h \in Slots : go'[v][h].pc = "idle" \/ Same(v, h)
  BY <1>1, <1>3 DEF Same
<1>8. done' = done /\ store' = store
  OBVIOUS
<1>9. \A i \in 1 .. Len(stream') : i > Len(stream) =>
         \A s \in Functions :
            stream'[i].step[s] = "Success" => s \in done'[stream'[i].task]
  BY <1>1, <1>2, <1>8 DEF True
<1> QED
  BY <1>2, <1>6, <1>7, <1>8, <1>9, Keeps

LEMMA NextInv == Inv /\ [Next]_vars => Inv'
<1> SUFFICES ASSUME Inv, [Next]_vars PROVE Inv'
  OBVIOUS
<1>1. CASE UNCHANGED vars
  <2>1. TypeOK' /\ Grows
    BY <1>1 DEF vars, Inv, TypeOK, Grows
  <2>2. go' = go /\ done' = done /\ store' = store /\ stream' = stream
    BY <1>1 DEF vars
  <2> QED
    BY <2>1, <2>2, NoGoes, Keeps DEF Untouched, Inv, TypeOK
<1>2. ASSUME NEW t \in Tasks, NEW ok \in BOOLEAN, NEW lands \in BOOLEAN,
             SubmitPut(t, ok) \/ SubmitPub(t, ok, lands) \/ Remove(t)
      PROVE  Inv'
  BY <1>2, SubmitPutInv, SubmitPubInv, RemoveInv
<1>3. ASSUME NEW w \in Workers, NEW g \in Slots, Dispatch(w, g) \/ Handle(w, g)
      PROVE  Inv'
  BY <1>3, DispatchInv, StartStepInv, ReturnInv, FinishInv, RequeueInv, AckInv DEF Handle
<1>4. ASSUME NEW w \in Workers,
             \/ Start(w) \/ ReadPending(w) \/ ReadNew(w)
             \/ \E n \in {read, Len(stream)} : ReadFails(w, n)
             \/ Crash(w) \/ Replace(w)
      PROVE  Inv'
  BY <1>4, StartInv, ReadInv, StopInv
<1> QED
  BY <1>1, <1>2, <1>3, <1>4 DEF Next, Work

(* The inductive invariant holds in every reachable state. *)
THEOREM Invariant == Spec => []Inv
<1> QED
  BY InitInv, NextInv, PTL DEF Spec

(* Every state keeps its types, however deliveries are repeated and workers *)
(* stop (server.go, backend.go).                                            *)
THEOREM TypeCorrect == Spec => []TypeOK
<1>1. Inv => TypeOK
  BY DEF Inv
<1> QED
  BY <1>1, Invariant, PTL

-------------------------------------------------------------------------------
(* The refinement *)

LEMMA OrderInit == Init => Order!Init
BY DEF Init, Order!Init, Says, NoTask

\* A step that writes the record of one task at most, and truthfully, is a step
\* of TaskOrder, whether or not it completes a function of that task.
LEMMA OrderStep ==
  ASSUME TypeOK, TypeOK', NEW t \in Tasks,
         \A u \in Tasks : u # t => store'[u].status = store[u].status,
         store'[t].status = "Success" =>
            store[t].status = "Success" \/ Functions \subseteq done[t],
         \/ done' = done
         \/ \E s \in Functions : /\ Order!Before(s) \subseteq done[t]
                                 /\ done' = [done EXCEPT ![t] = @ \cup {s}]
  PROVE  Order!Next \/ UNCHANGED Order!vars
<1>1. Says \in [Tasks -> Order!Outcomes] /\ Says' \in [Tasks -> Order!Outcomes]
  BY DEF Says, Order!Outcomes, TypeOK, Record, NoTask
<1>2. /\ Says[t] = store[t].status /\ Says'[t] = store'[t].status
      /\ \A u \in Tasks : u # t => Says'[u] = Says[u]
  BY DEF Says
<1>3. Says' = [Says EXCEPT ![t] = Says'[t]]
  BY <1>1, <1>2
<1>4. UNCHANGED Says \/ Order!Report(t, Says'[t])
  <2>1. CASE Says'[t] = Says[t]
    BY <2>1, <1>1, <1>3
  <2>2. CASE Says'[t] # Says[t]
    BY <2>2, <1>2, <1>3 DEF Order!Report
  <2> QED
    BY <2>1, <2>2
<1>5. Says'[t] \in Order!Outcomes
  BY <1>1
<1>6. UNCHANGED done \/ \E s \in Functions : Order!Complete(t, s)
  BY DEF Order!Complete
<1> QED
  BY <1>4, <1>5, <1>6 DEF Order!Next, Order!Step

LEMMA OrderNext == Inv /\ Inv' /\ [Next]_vars => Order!Next \/ UNCHANGED Order!vars
<1> SUFFICES ASSUME Inv, Inv', [Next]_vars PROVE Order!Next \/ UNCHANGED Order!vars
  OBVIOUS
<1> USE DEF Inv
<1>1. ASSUME store' = store, done' = done
      PROVE  Order!Next \/ UNCHANGED Order!vars
  BY <1>1 DEF Order!vars, Says
<1>2. ASSUME NEW t \in Tasks, NEW ok \in BOOLEAN, SubmitPut(t, ok)
      PROVE  Order!Next \/ UNCHANGED Order!vars
  <2>1. \A u \in Tasks : store'[u] = store[u] \/ (u = t /\ store'[u].status = "Pending")
    BY <1>2, StartsTyped, Stored DEF SubmitPut, TypeOK
  <2>2. done' = done
    BY <1>2 DEF SubmitPut
  <2> QED
    BY <2>1, <2>2, OrderStep
<1>3. ASSUME NEW t \in Tasks, Remove(t)
      PROVE  Order!Next \/ UNCHANGED Order!vars
  <2>1. done' = done /\ \A u \in Tasks : store'[u] = store[u] \/ (u = t /\ store'[u] = NoTask)
    BY <1>3 DEF Remove, TypeOK
  <2> QED
    BY <2>1, StartsTyped, OrderStep
<1>4. ASSUME NEW w \in Workers, NEW g \in Slots, NEW s \in Steps, NEW ok \in BOOLEAN,
             StartStep(w, g, s, ok)
      PROVE  Order!Next \/ UNCHANGED Order!vars
  <2>1. /\ TaskOf(w, g) \in Tasks /\ go[w][g].step \in Copy
    BY <1>4, Alive DEF StartStep
  <2>2. [go[w][g].step EXCEPT ![s] = "Running"] \in Copy
    BY <2>1 DEF Copy, Codes
  <2>3. \A u \in Tasks : store'[u] = store[u]
                          \/ (u = TaskOf(w, g) /\ store'[u].status = "Pending")
    BY <1>4, <2>1, <2>2, Stored DEF StartStep, TypeOK
  <2>4. done' = done
    BY <1>4 DEF StartStep
  <2> QED
    BY <2>1, <2>3, <2>4, OrderStep
<1>5. ASSUME NEW w \in Workers, NEW g \in Slots, NEW code \in {"Success", "Error"},
             NEW ok \in BOOLEAN, Return(w, g, code, ok)
      PROVE  Order!Next \/ UNCHANGED Order!vars
  <2> DEFINE s == go[w][g].at
             t == TaskOf(w, g)
  <2>1. /\ t \in Tasks /\ go[w][g].step \in Copy /\ s \in Functions
        /\ True(go[w][g].step, t) /\ Reached(go[w][g].step, s)
    BY <1>5, Alive DEF Return
  <2>2. [go[w][g].step EXCEPT ![s] = code] \in Copy
    BY <2>1 DEF Copy, Codes
  <2>3. \A u \in Tasks : store'[u] = store[u] \/ (u = t /\ store'[u].status = "Pending")
    BY <1>5, <2>1, <2>2, Stored DEF Return, TypeOK
  <2>4. Order!Before(s) \subseteq done[t]
    BY <2>1, CalledInOrder
  <2>5. done' = done \/ done' = [done EXCEPT ![t] = @ \cup {s}]
    BY <1>5 DEF Return
  <2> HIDE DEF s, t
  <2> QED
    BY <2>1, <2>3, <2>4, <2>5, OrderStep
<1>6. ASSUME NEW w \in Workers, NEW g \in Slots, NEW ok \in BOOLEAN, Finish(w, g, ok)
      PROVE  Order!Next \/ UNCHANGED Order!vars
  <2> DEFINE t == TaskOf(w, g)
             c == go[w][g].step
             status == IF Failed(c) THEN "Error" ELSE "Success"
  <2>1. t \in Tasks /\ c \in Copy /\ True(c, t)
    BY <1>6, Alive DEF Finish
  <2>2. \A u \in Tasks : store'[u] = store[u] \/ (u = t /\ store'[u].status = status)
    BY <1>6, <2>1, Stored DEF Finish, TypeOK
  <2>3. status = "Success" => Functions \subseteq done[t]
    <3>1. status = "Success" => \A s \in Steps : c[s] = "Success"
      BY <1>6 DEF Finish, AllFinished
    <3> QED
      BY <3>1, <2>1, ShapeAssumption DEF True
  <2>4. done' = done
    BY <1>6 DEF Finish
  <2> HIDE DEF t, status
  <2> QED
    BY <2>1, <2>2, <2>3, <2>4, OrderStep
<1> QED
  <2>1. CASE store' = store /\ done' = done
    BY <2>1, <1>1
  <2>2. CASE \E t \in Tasks : \/ \E ok \in BOOLEAN : SubmitPut(t, ok)
                              \/ Remove(t)
    BY <2>2, <1>2, <1>3
  <2>3. CASE \E w \in Workers, g \in Slots, ok \in BOOLEAN :
                \/ \E s \in Steps : StartStep(w, g, s, ok)
                \/ \E code \in {"Success", "Error"} : Return(w, g, code, ok)
                \/ Finish(w, g, ok)
    BY <2>3, <1>4, <1>5, <1>6
  <2>4. \/ store' = store /\ done' = done
        \/ \E t \in Tasks : \/ \E ok \in BOOLEAN : SubmitPut(t, ok)
                            \/ Remove(t)
        \/ \E w \in Workers, g \in Slots, ok \in BOOLEAN :
              \/ \E s \in Steps : StartStep(w, g, s, ok)
              \/ \E code \in {"Success", "Error"} : Return(w, g, code, ok)
              \/ Finish(w, g, ok)
    <3>1. CASE UNCHANGED vars
      BY <3>1 DEF vars
    <3>2. CASE \E t \in Tasks : \/ \E ok \in BOOLEAN : SubmitPut(t, ok)
                                \/ \E ok, lands \in BOOLEAN : SubmitPub(t, ok, lands)
                                \/ Remove(t)
      BY <3>2 DEF SubmitPub
    <3>3. ASSUME NEW w \in Workers, NEW g \in Slots, Handle(w, g)
          PROVE  \/ store' = store /\ done' = done
                 \/ \E ok \in BOOLEAN :
                       \/ \E s \in Steps : StartStep(w, g, s, ok)
                       \/ \E code \in {"Success", "Error"} : Return(w, g, code, ok)
                       \/ Finish(w, g, ok)
      <4>1. CASE \E ok \in BOOLEAN : Requeue(w, g, ok) \/ Ack(w, g, ok)
        BY <4>1 DEF Requeue, Ack
      <4> QED
        BY <3>3, <4>1 DEF Handle
    <3>4. ASSUME NEW w \in Workers,
                 \/ Start(w) \/ ReadPending(w) \/ ReadNew(w)
                 \/ \E g \in Slots : Dispatch(w, g)
                 \/ \E n \in {read, Len(stream)} : ReadFails(w, n)
                 \/ Crash(w) \/ Replace(w)
          PROVE  store' = store /\ done' = done
      BY <3>4 DEF Start, ReadPending, ReadNew, ReadFails, Dispatch, Crash, Replace,
                  Stop, redis
    <3> QED
      BY <3>1, <3>2, <3>3, <3>4 DEF Next, Work
  <2> QED
    BY <2>1, <2>2, <2>3, <2>4

(* The queue implements TaskOrder: functions succeed in the order of their  *)
(* lists, and a record says Success only when all have (server.go:103-187). *)
THEOREM OrderImplemented == Spec => ImplementsOrder
<1>1. Init => Order!Init
  BY OrderInit
<1>2. Inv /\ Inv' /\ [Next]_vars => [Order!Next]_(Order!vars)
  BY OrderNext
<1> QED
  BY <1>1, <1>2, Invariant, PTL DEF Spec, ImplementsOrder, Order!Spec

-------------------------------------------------------------------------------
(* How much of a task is on its way.  Whoever may still call a step's       *)
(* function (step 0: any function) holds a copy of the task: the client     *)
(* that has not published it, the stream, a batch, or a goroutine.          *)

\* A copy in which step s is not done, and a goroutine that may still call it
Due(c, s) == s = 0 \/ c[s] # "Success"
Owes(pc, c, at, s) == /\ pc \in {"walk", "call"} /\ Due(c, s)
                      /\ pc = "walk" => s = 0 \/ ~Failed(c)
                      /\ pc = "call" => at # s

Unsent(t) == IF client[t] \in {"new", "stored"} THEN 1 ELSE 0
Unread(t, s) == {i \in read + 1 .. Len(stream) :
                    stream[i].task = t /\ Due(stream[i].step, s)}
InBatch(t, s) == {p \in Workers \X (1 .. Len(stream)) :
                    /\ p[2] \in batch[p[1]]
                    /\ stream[p[2]].task = t /\ Due(stream[p[2]].step, s)}
InHand(t, s) == {p \in Workers \X Slots :
                    /\ Owes(go[p[1]][p[2]].pc, go[p[1]][p[2]].step, go[p[1]][p[2]].at, s)
                    /\ TaskOf(p[1], p[2]) = t}
Load(t, s) == Unsent(t) + Cardinality(Unread(t, s)) + Cardinality(InBatch(t, s))
              + Cardinality(InHand(t, s))

Called(t, s) == IF s = 0 THEN 0 ELSE calls[t][s]

\* A copy is made only when an entry is read again.
LoadInv == \A t \in Tasks, s \in 0 .. N : Called(t, s) + Load(t, s) <= 1 + again[t]
\* The outcome of a task is written by the last to hold a copy of it.
FinalInv == \A t \in Tasks : Finished(t) /\ again[t] = 0 => Load(t, 0) = 0

LEMMA PartsFinite ==
  ASSUME Inv, NEW t, NEW s
  PROVE  /\ IsFiniteSet(Unread(t, s)) /\ IsFiniteSet(InBatch(t, s)) /\ IsFiniteSet(InHand(t, s))
         /\ Unsent(t) \in {0, 1} /\ Load(t, s) \in Nat
<1>1. Len(stream) \in Nat /\ read \in Nat
  BY DEF Inv, TypeOK
<1>2. IsFiniteSet(1 .. Len(stream))
  BY <1>1, FS_Interval
<1>3. IsFiniteSet(Workers \X (1 .. Len(stream))) /\ IsFiniteSet(Workers \X Slots)
  BY <1>2, BoundAssumption, FS_Product
<1>4. /\ Unread(t, s) \in SUBSET (1 .. Len(stream))
      /\ InBatch(t, s) \in SUBSET (Workers \X (1 .. Len(stream)))
      /\ InHand(t, s) \in SUBSET (Workers \X Slots)
  BY <1>1 DEF Unread, InBatch, InHand
<1>5. IsFiniteSet(Unread(t, s)) /\ IsFiniteSet(InBatch(t, s)) /\ IsFiniteSet(InHand(t, s))
  BY <1>2, <1>3, <1>4, FS_Subset
<1>6. /\ Cardinality(Unread(t, s)) \in Nat /\ Cardinality(InBatch(t, s)) \in Nat
      /\ Cardinality(InHand(t, s)) \in Nat
  BY <1>5, FS_CardinalityType
<1>7. Unsent(t) \in {0, 1}
  BY DEF Unsent
<1> QED
  BY <1>5, <1>6, <1>7 DEF Load

\* A step moves copies into sets that are known.
LEMMA LoadAtMost ==
  ASSUME Inv, NEW t, NEW s, NEW A, NEW B, NEW C, NEW n \in Nat,
         IsFiniteSet(A), IsFiniteSet(B), IsFiniteSet(C),
         Unread(t, s)' \subseteq A, InBatch(t, s)' \subseteq B, InHand(t, s)' \subseteq C,
         Unsent(t)' + Cardinality(A) + Cardinality(B) + Cardinality(C) <= n
  PROVE  Load(t, s)' <= n /\ Load(t, s)' \in Nat
<1>1. /\ Cardinality(Unread(t, s)') <= Cardinality(A) /\ IsFiniteSet(Unread(t, s)')
      /\ Cardinality(InBatch(t, s)') <= Cardinality(B) /\ IsFiniteSet(InBatch(t, s)')
      /\ Cardinality(InHand(t, s)') <= Cardinality(C) /\ IsFiniteSet(InHand(t, s)')
  BY FS_Subset
<1>2. /\ Cardinality(Unread(t, s)') \in Nat /\ Cardinality(A) \in Nat
      /\ Cardinality(InBatch(t, s)') \in Nat /\ Cardinality(B) \in Nat
      /\ Cardinality(InHand(t, s)') \in Nat /\ Cardinality(C) \in Nat
  BY <1>1, FS_CardinalityType
<1>3. Unsent(t)' \in {0, 1}
  BY DEF Unsent
<1>4. Load(t, s)' = Unsent(t)' + Cardinality(Unread(t, s)') + Cardinality(InBatch(t, s)')
                    + Cardinality(InHand(t, s)')
  BY DEF Load
<1> QED
  BY <1>1, <1>2, <1>3, <1>4

\* No copy is made.
LEMMA LoadFalls ==
  ASSUME Inv, NEW t, NEW s, Unsent(t)' <= Unsent(t),
         Unread(t, s)' \subseteq Unread(t, s), InBatch(t, s)' \subseteq InBatch(t, s),
         InHand(t, s)' \subseteq InHand(t, s)
  PROVE  Load(t, s)' <= Load(t, s) /\ Load(t, s)' \in Nat
<1>1. /\ IsFiniteSet(Unread(t, s)) /\ IsFiniteSet(InBatch(t, s)) /\ IsFiniteSet(InHand(t, s))
      /\ Load(t, s) \in Nat /\ Unsent(t) \in {0, 1}
  BY PartsFinite
<1>2. /\ Cardinality(Unread(t, s)) \in Nat /\ Cardinality(InBatch(t, s)) \in Nat
      /\ Cardinality(InHand(t, s)) \in Nat
  BY <1>1, FS_CardinalityType
<1>3. Unsent(t)' \in {0, 1}
  BY DEF Unsent
<1>4. Unsent(t)' + Cardinality(Unread(t, s)) + Cardinality(InBatch(t, s))
      + Cardinality(InHand(t, s)) <= Load(t, s)
  BY <1>1, <1>2, <1>3 DEF Load
<1> QED
  BY <1>1, <1>4, LoadAtMost

\* What goes away was there.
LEMMA LoadHolds ==
  ASSUME Inv, NEW t, NEW s
  PROVE  /\ \A p \in InHand(t, s) :
               /\ Cardinality(InHand(t, s) \ {p}) = Cardinality(InHand(t, s)) - 1
               /\ Load(t, s) >= 1
         /\ Unsent(t) = 1 => Load(t, s) >= 1
<1>1. /\ IsFiniteSet(Unread(t, s)) /\ IsFiniteSet(InBatch(t, s)) /\ IsFiniteSet(InHand(t, s))
      /\ Unsent(t) \in {0, 1}
  BY PartsFinite
<1>2. /\ Cardinality(Unread(t, s)) \in Nat /\ Cardinality(InBatch(t, s)) \in Nat
      /\ Cardinality(InHand(t, s)) \in Nat
  BY <1>1, FS_CardinalityType
<1>3. ASSUME NEW p \in InHand(t, s)
      PROVE  /\ Cardinality(InHand(t, s) \ {p}) = Cardinality(InHand(t, s)) - 1
             /\ Cardinality(InHand(t, s)) >= 1
  <2>1. /\ IsFiniteSet(InHand(t, s) \ {p})
        /\ Cardinality(InHand(t, s) \ {p}) = Cardinality(InHand(t, s)) - 1
    BY <1>1, FS_RemoveElement
  <2>2. Cardinality(InHand(t, s) \ {p}) \in Nat
    BY <2>1, FS_CardinalityType
  <2> QED
    BY <1>2, <2>1, <2>2
<1>4. /\ Load(t, s) >= Unsent(t)
      /\ Load(t, s) >= Cardinality(InHand(t, s)) /\ Load(t, s) \in Nat
  BY <1>1, <1>2 DEF Load
<1>5. ASSUME NEW p \in InHand(t, s) PROVE Load(t, s) >= 1
  <2>1. Cardinality(InHand(t, s)) >= 1
    BY <1>3
  <2> QED
    BY <1>2, <1>4, <2>1
<1>6. Unsent(t) = 1 => Load(t, s) >= 1
  BY <1>4
<1> QED
  BY <1>3, <1>5, <1>6

-------------------------------------------------------------------------------
(* What each action does to the copies                                      *)

\* The parts that an action leaves alone
LEMMA UnreadSame ==
  ASSUME stream' = stream, read' = read, NEW t, NEW s
  PROVE  Unread(t, s)' = Unread(t, s)
BY DEF Unread

LEMMA InBatchSame ==
  ASSUME stream' = stream, batch' = batch, NEW t, NEW s
  PROVE  InBatch(t, s)' = InBatch(t, s)
BY DEF InBatch

LEMMA InHandSame ==
  ASSUME stream' = stream, go' = go, NEW t, NEW s
  PROVE  InHand(t, s)' = InHand(t, s)
BY DEF InHand, TaskOf

\* A publication adds at most its own copy.
LEMMA LoadPublished ==
  ASSUME Inv, NEW t, NEW s, NEW u \in Tasks, NEW steps \in Copy, NEW lands \in BOOLEAN,
         Pub(u, steps, lands), read' = read, batch' = batch
  PROVE  /\ \/ Unread(t, s)' \subseteq Unread(t, s)
            \/ t = u /\ Due(steps, s)
               /\ Unread(t, s)' \subseteq Unread(t, s) \cup {Len(stream) + 1}
         /\ InBatch(t, s)' \subseteq InBatch(t, s)
         /\ \A w \in Workers, g \in Slots :
               go[w][g].pc # "idle" /\ go'[w][g].id = go[w][g].id => TaskOf(w, g)' = TaskOf(w, g)
<1>1. stream \in Seq(Entry) /\ Len(stream) \in Nat /\ read \in 0 .. Len(stream)
      /\ batch \in [Workers -> SUBSET (1 .. Len(stream))]
  BY DEF Inv, TypeOK
<1>2. /\ \A i \in 1 .. Len(stream) : stream'[i] = stream[i]
      /\ \A i \in 1 .. Len(stream') : i > Len(stream) =>
            stream'[i].task = u /\ stream'[i].step = steps
      /\ Len(stream') \in {Len(stream), Len(stream) + 1}
  <2>1. [task |-> u, step |-> steps] \in Entry
    BY DEF Entry
  <2>2. CASE lands
    <3>1. stream' = Append(stream, [task |-> u, step |-> steps])
      BY <2>2 DEF Pub
    <3>2. Len(stream') = Len(stream) + 1
      BY <1>1, <2>1, <3>1
    <3> QED
      BY <1>1, <3>2, Published
  <2>3. CASE ~lands
    BY <1>1, <2>3 DEF Pub
  <2> QED
    BY <2>2, <2>3
<1>3. ASSUME NEW i \in Unread(t, s)'
      PROVE  i \in Unread(t, s) \/ (i = Len(stream) + 1 /\ t = u /\ Due(steps, s))
  <2>1. i \in read + 1 .. Len(stream') /\ stream'[i].task = t /\ Due(stream'[i].step, s)
    BY <1>3 DEF Unread
  <2>2. CASE i <= Len(stream)
    <3>1. i \in 1 .. Len(stream) /\ i \in read + 1 .. Len(stream)
      BY <1>1, <2>1, <2>2
    <3> QED
      BY <1>2, <2>1, <3>1 DEF Unread
  <2>3. CASE i > Len(stream)
    <3>1. i \in 1 .. Len(stream') /\ i = Len(stream) + 1
      BY <1>1, <1>2, <2>1, <2>3
    <3> QED
      BY <1>2, <2>1, <2>3, <3>1
  <2> QED
    BY <1>1, <1>2, <2>1, <2>2, <2>3
<1>4. ASSUME NEW p \in InBatch(t, s)' PROVE p \in InBatch(t, s)
  <2>1. /\ p \in Workers \X (1 .. Len(stream')) /\ p[2] \in batch[p[1]]
        /\ stream'[p[2]].task = t /\ Due(stream'[p[2]].step, s)
    BY <1>4 DEF InBatch
  <2>2. p[2] \in 1 .. Len(stream) /\ p \in Workers \X (1 .. Len(stream))
    BY <1>1, <2>1
  <2> QED
    BY <1>2, <2>1, <2>2 DEF InBatch
<1>5. \A w \in Workers, g \in Slots : go[w][g].pc # "idle" => go[w][g].id \in 1 .. Len(stream)
  BY DEF Inv, TypeOK
<1>6. \A w \in Workers, g \in Slots :
         go[w][g].pc # "idle" /\ go'[w][g].id = go[w][g].id => TaskOf(w, g)' = TaskOf(w, g)
  BY <1>2, <1>5 DEF TaskOf
<1> QED
  BY <1>3, <1>4, <1>6

\* A goroutine that moves on leaves the copies of the others alone.
LEMMA HandMoves ==
  ASSUME Inv, NEW t, NEW s, NEW w \in Workers, NEW g \in Slots,
         go[w][g].pc # "idle", go'[w][g].id = go[w][g].id,
         \A v \in Workers, h \in Slots : <<v, h>> # <<w, g>> => go'[v][h] = go[v][h],
         \A v \in Workers, h \in Slots :
            go[v][h].pc # "idle" /\ go'[v][h].id = go[v][h].id => TaskOf(v, h)' = TaskOf(v, h)
  PROVE  InHand(t, s)' \subseteq InHand(t, s) \cup {<<w, g>>}
<1>1. ASSUME NEW p \in InHand(t, s)', p # <<w, g>> PROVE p \in InHand(t, s)
  <2>1. p \in Workers \X Slots
    BY <1>1 DEF InHand
  <2>2. PICK v \in Workers, h \in Slots : p = <<v, h>>
    BY <2>1
  <2>3. go'[v][h] = go[v][h]
    BY <1>1, <2>2
  <2>4. /\ TaskOf(v, h)' = t
        /\ Owes(go'[v][h].pc, go'[v][h].step, go'[v][h].at, s)
    BY <1>1, <2>2 DEF InHand
  <2>5. TaskOf(v, h)' = TaskOf(v, h)
    BY <2>3, <2>4 DEF Owes
  <2> QED
    BY <2>1, <2>2, <2>3, <2>4, <2>5 DEF InHand
<1> QED
  BY <1>1

\* What a step may add to the calls and to the copies, it adds to the entries that
\* were read again.
NoneMade(t, s) == Called(t, s)' + Load(t, s)' + again[t] <= Called(t, s) + Load(t, s) + again'[t]

LEMMA CountTypes ==
  ASSUME Inv, NEW t \in Tasks, NEW s \in 0 .. N
  PROVE  Called(t, s) \in Nat /\ again[t] \in Nat /\ Load(t, s) \in Nat
<1>1. s # 0 => s \in Steps
  BY ShapeAssumption DEF Steps
<1>2. s # 0 => calls[t][s] \in Nat
  BY <1>1 DEF Inv, TypeOK
<1> QED
  BY <1>2, PartsFinite DEF Called, Inv, TypeOK

LEMMA NoneMadeFalls ==
  ASSUME Inv, NEW t \in Tasks, NEW s \in 0 .. N, UNCHANGED <<calls, again>>,
         Load(t, s)' <= Load(t, s), Load(t, s)' \in Nat
  PROVE  NoneMade(t, s)
<1>1. Called(t, s)' = Called(t, s) /\ again'[t] = again[t]
  BY DEF Called
<1> QED
  BY <1>1, CountTypes DEF NoneMade

LEMMA SubmitLoad ==
  ASSUME Inv, NEW t \in Tasks, NEW s \in 0 .. N, NEW u \in Tasks, NEW ok \in BOOLEAN,
         NEW lands \in BOOLEAN, SubmitPut(u, ok) \/ SubmitPub(u, ok, lands) \/ Remove(u)
  PROVE  NoneMade(t, s)
<1>0. client \in [Tasks -> {"new", "stored", "queued", "refused"}]
  BY DEF Inv, TypeOK
<1>1. CASE SubmitPut(u, ok) \/ Remove(u)
  <2>1. Unsent(t)' <= Unsent(t)
    BY <1>0, <1>1 DEF SubmitPut, Remove, Unsent
  <2>2. UNCHANGED <<stream, read, batch, go, calls, again>>
    BY <1>1 DEF SubmitPut, Remove
  <2> QED
    BY <2>1, <2>2, UnreadSame, InBatchSame, InHandSame, LoadFalls, NoneMadeFalls
<1>2. CASE SubmitPub(u, ok, lands)
  <2>1. /\ Pub(u, Fresh, lands) /\ client[u] = "stored"
        /\ UNCHANGED <<read, batch, go, calls, again>>
        /\ client' = [client EXCEPT ![u] = IF ok THEN "queued" ELSE "refused"]
    BY <1>2 DEF SubmitPub
  <2>2. /\ \/ Unread(t, s)' \subseteq Unread(t, s)
           \/ t = u /\ Unread(t, s)' \subseteq Unread(t, s) \cup {Len(stream) + 1}
        /\ InBatch(t, s)' \subseteq InBatch(t, s)
        /\ \A w \in Workers, g \in Slots :
              go[w][g].pc # "idle" /\ go'[w][g].id = go[w][g].id => TaskOf(w, g)' = TaskOf(w, g)
    <3>1. Fresh \in Copy
      BY StartsTyped
    <3>2. read' = read /\ batch' = batch
      BY <2>1
    <3>3. Pub(u, Fresh, lands)
      BY <2>1
    <3>4. /\ \/ Unread(t, s)' \subseteq Unread(t, s)
             \/ t = u /\ Due(Fresh, s)
                /\ Unread(t, s)' \subseteq Unread(t, s) \cup {Len(stream) + 1}
          /\ InBatch(t, s)' \subseteq InBatch(t, s)
      BY <3>1, <3>2, <3>3, LoadPublished
    <3>5. \A w \in Workers, g \in Slots :
              go[w][g].pc # "idle" /\ go'[w][g].id = go[w][g].id => TaskOf(w, g)' = TaskOf(w, g)
      BY <3>1, <3>2, <3>3, LoadPublished
    <3> QED
      BY <3>4, <3>5
  <2>3. InHand(t, s)' \subseteq InHand(t, s)
    BY <2>1, <2>2 DEF InHand, Owes
  <2>4. Unsent(t)' <= Unsent(t) /\ (t = u => Unsent(t) = 1 /\ Unsent(t)' = 0)
    BY <1>0, <2>1 DEF Unsent
  <2>5. CASE Unread(t, s)' \subseteq Unread(t, s)
    BY <2>1, <2>2, <2>3, <2>4, <2>5, LoadFalls, NoneMadeFalls
  <2>6. CASE t = u /\ Unread(t, s)' \subseteq Unread(t, s) \cup {Len(stream) + 1}
    <3> DEFINE A == Unread(t, s) \cup {Len(stream) + 1}
    <3>1. /\ IsFiniteSet(Unread(t, s)) /\ IsFiniteSet(InBatch(t, s))
          /\ IsFiniteSet(InHand(t, s)) /\ Load(t, s) \in Nat
      BY PartsFinite
    <3>2. /\ Cardinality(Unread(t, s)) \in Nat /\ Cardinality(InBatch(t, s)) \in Nat
          /\ Cardinality(InHand(t, s)) \in Nat
      BY <3>1, FS_CardinalityType
    <3>3. IsFiniteSet(A) /\ Cardinality(A) <= Cardinality(Unread(t, s)) + 1
          /\ Cardinality(A) \in Nat
      <4>1. /\ IsFiniteSet(A)
            /\ Cardinality(A) = IF Len(stream) + 1 \in Unread(t, s) THEN Cardinality(Unread(t, s))
                                ELSE Cardinality(Unread(t, s)) + 1
        BY <3>1, FS_AddElement
      <4> QED
        BY <3>2, <4>1
    <3>4. Unsent(t)' + Cardinality(A) + Cardinality(InBatch(t, s)) + Cardinality(InHand(t, s))
          <= Load(t, s)
      BY <2>4, <2>6, <3>2, <3>3 DEF Load
    <3> HIDE DEF A
    <3>5. Load(t, s)' <= Load(t, s) /\ Load(t, s)' \in Nat
      <4>1. Unread(t, s)' \subseteq A
        BY <2>6 DEF A
      <4> QED
        BY <2>2, <2>3, <3>1, <3>3, <3>4, <4>1, LoadAtMost
    <3> QED
      BY <2>1, <3>5, NoneMadeFalls
  <2> QED
    BY <2>2, <2>5, <2>6
<1> QED
  BY <1>1, <1>2

\* What a worker's subscription is handed anew leaves the stream for its batch, ...
LEMMA ReadNewLoad ==
  ASSUME Inv, NEW t \in Tasks, NEW s \in 0 .. N, NEW w \in Workers, ReadNew(w)
  PROVE  NoneMade(t, s)
<1>1. /\ read' = Len(stream) /\ batch' = [batch EXCEPT ![w] = read + 1 .. Len(stream)]
      /\ batch[w] = {} /\ UNCHANGED <<client, stream, go, calls, again>>
  BY DEF ReadNew, Deliver
<1>2. /\ Len(stream) \in Nat /\ batch \in [Workers -> SUBSET (1 .. Len(stream))]
      /\ read \in 0 .. Len(stream)
  BY DEF Inv, TypeOK
<1> DEFINE U == Unread(t, s)
           F == [i \in U |-> <<w, i>>]
           M == {<<w, i>> : i \in U}
           B == InBatch(t, s) \cup M
<1>3. /\ IsFiniteSet(U) /\ IsFiniteSet(InBatch(t, s)) /\ IsFiniteSet(InHand(t, s))
      /\ Load(t, s) \in Nat /\ Unsent(t) \in {0, 1}
  BY PartsFinite
<1>4. IsFiniteSet(M) /\ Cardinality(M) <= Cardinality(U)
  <2>1. F \in Surjection(U, M)
    BY DEF Surjection
  <2> QED
    BY <1>3, <2>1, FS_Surjection
<1>5. IsFiniteSet(B) /\ Cardinality(B) <= Cardinality(InBatch(t, s)) + Cardinality(U)
  <2>1. IsFiniteSet(InBatch(t, s) \cap M)
    BY <1>3, FS_Intersection
  <2>2. Cardinality(InBatch(t, s) \cap M) \in Nat /\ Cardinality(M) \in Nat
        /\ Cardinality(InBatch(t, s)) \in Nat /\ Cardinality(U) \in Nat
    BY <1>3, <1>4, <2>1, FS_CardinalityType
  <2>3. /\ IsFiniteSet(B)
        /\ Cardinality(B) = Cardinality(InBatch(t, s)) + Cardinality(M)
                            - Cardinality(InBatch(t, s) \cap M)
    BY <1>3, <1>4, FS_Union
  <2> QED
    BY <1>4, <2>2, <2>3
<1>6. Unread(t, s)' = {}
  <2>1. read' + 1 .. Len(stream') = {}
    BY <1>1, <1>2
  <2> QED
    BY <2>1 DEF Unread
<1>7. InBatch(t, s)' \subseteq B
  <2>1. SUFFICES ASSUME NEW p \in InBatch(t, s)', p \notin InBatch(t, s) PROVE p \in M
    OBVIOUS
  <2>2. /\ p \in Workers \X (1 .. Len(stream)) /\ p[2] \in batch'[p[1]]
        /\ stream[p[2]].task = t /\ Due(stream[p[2]].step, s)
    BY <1>1, <2>1 DEF InBatch
  <2>3. PICK v \in Workers, i \in 1 .. Len(stream) : p = <<v, i>>
    BY <2>2
  <2>4. i \notin batch[v] /\ i \in batch'[v]
    BY <2>1, <2>2, <2>3 DEF InBatch
  <2>5. v = w /\ i \in read + 1 .. Len(stream)
    BY <1>1, <1>2, <2>4
  <2>6. i \in U
    BY <2>2, <2>3, <2>5 DEF Unread
  <2> QED
    BY <2>3, <2>5, <2>6
<1>8. InHand(t, s)' = InHand(t, s) /\ Unsent(t)' = Unsent(t)
  BY <1>1, InHandSame DEF Unsent
<1>9. Load(t, s)' <= Load(t, s) /\ Load(t, s)' \in Nat
  <2>1. /\ Cardinality(U) \in Nat /\ Cardinality(InBatch(t, s)) \in Nat
        /\ Cardinality(InHand(t, s)) \in Nat /\ Cardinality(B) \in Nat
    BY <1>3, <1>5, FS_CardinalityType
  <2>2. IsFiniteSet({}) /\ Cardinality({}) = 0
    BY FS_EmptySet
  <2>3. Unsent(t)' + Cardinality({}) + Cardinality(B) + Cardinality(InHand(t, s)) <= Load(t, s)
    BY <1>3, <1>5, <1>8, <2>1, <2>2 DEF Load
  <2> HIDE DEF B
  <2> QED
    BY <1>3, <1>5, <1>6, <1>7, <1>8, <2>2, <2>3, LoadAtMost
<1> QED
  BY <1>1, <1>9, NoneMadeFalls

\* ... and what it reads again is new in its batch: these are the copies that are made.
LEMMA ReadPendingLoad ==
  ASSUME Inv, NEW t \in Tasks, NEW s \in 0 .. N, NEW w \in Workers, ReadPending(w)
  PROVE  NoneMade(t, s) /\ again[t] <= again'[t]
<1>1. /\ batch' = [batch EXCEPT ![w] = pending[w]]
      /\ again' = [u \in Tasks |-> again[u] + Cardinality(OfTask(pending[w], u))]
      /\ UNCHANGED <<client, stream, read, go, calls>>
  BY DEF ReadPending, redis
<1>2. /\ Len(stream) \in Nat /\ batch \in [Workers -> SUBSET (1 .. Len(stream))]
      /\ pending[w] \in SUBSET (1 .. Len(stream))
  BY DEF Inv, TypeOK
<1> DEFINE P == OfTask(pending[w], t)
           F == [i \in P |-> <<w, i>>]
           M == {<<w, i>> : i \in P}
           B == InBatch(t, s) \cup M
<1>3. /\ IsFiniteSet(Unread(t, s)) /\ IsFiniteSet(InBatch(t, s)) /\ IsFiniteSet(InHand(t, s))
      /\ Load(t, s) \in Nat /\ Unsent(t) \in {0, 1}
  BY PartsFinite
<1>4. IsFiniteSet(P) /\ Cardinality(P) \in Nat
  <2>1. IsFiniteSet(1 .. Len(stream))
    BY <1>2, FS_Interval
  <2>2. P \in SUBSET (1 .. Len(stream))
    BY <1>2 DEF OfTask
  <2> QED
    BY <2>1, <2>2, FS_Subset, FS_CardinalityType
<1>5. IsFiniteSet(M) /\ Cardinality(M) <= Cardinality(P)
  <2>1. F \in Surjection(P, M)
    BY DEF Surjection
  <2> HIDE DEF P, F, M
  <2> QED
    BY <1>4, <2>1, FS_Surjection
<1>6. IsFiniteSet(B) /\ Cardinality(B) <= Cardinality(InBatch(t, s)) + Cardinality(P)
  <2> HIDE DEF P, M
  <2>1. IsFiniteSet(InBatch(t, s) \cap M)
    BY <1>3, FS_Intersection
  <2>2. Cardinality(InBatch(t, s) \cap M) \in Nat /\ Cardinality(M) \in Nat
        /\ Cardinality(InBatch(t, s)) \in Nat
    BY <1>3, <1>5, <2>1, FS_CardinalityType
  <2>3. /\ IsFiniteSet(B)
        /\ Cardinality(B) = Cardinality(InBatch(t, s)) + Cardinality(M)
                            - Cardinality(InBatch(t, s) \cap M)
    BY <1>3, <1>5, FS_Union
  <2> QED
    BY <1>4, <1>5, <2>2, <2>3
<1>7. InBatch(t, s)' \subseteq B
  <2>1. SUFFICES ASSUME NEW p \in InBatch(t, s)', p \notin InBatch(t, s) PROVE p \in M
    OBVIOUS
  <2>2. /\ p \in Workers \X (1 .. Len(stream)) /\ p[2] \in batch'[p[1]]
        /\ stream[p[2]].task = t /\ Due(stream[p[2]].step, s)
    BY <1>1, <2>1 DEF InBatch
  <2>3. PICK v \in Workers, i \in 1 .. Len(stream) : p = <<v, i>>
    BY <2>2
  <2>4. i \notin batch[v] /\ i \in batch'[v]
    BY <2>1, <2>2, <2>3 DEF InBatch
  <2>5. v = w /\ i \in pending[w]
    BY <1>1, <1>2, <2>4
  <2>6. i \in P
    BY <2>2, <2>3, <2>5 DEF OfTask
  <2> QED
    BY <2>3, <2>5, <2>6
<1>8. /\ InHand(t, s)' = InHand(t, s) /\ Unread(t, s)' = Unread(t, s)
      /\ Unsent(t)' = Unsent(t) /\ Called(t, s)' = Called(t, s)
      /\ again'[t] = again[t] + Cardinality(P)
  BY <1>1, InHandSame, UnreadSame DEF Unsent, Called
<1> HIDE DEF P, M, B
<1>9. Load(t, s)' <= Load(t, s) + Cardinality(P) /\ Load(t, s)' \in Nat
  <2>1. /\ Cardinality(Unread(t, s)) \in Nat /\ Cardinality(InBatch(t, s)) \in Nat
        /\ Cardinality(InHand(t, s)) \in Nat /\ Cardinality(B) \in Nat
    BY <1>3, <1>6, FS_CardinalityType
  <2>2. /\ Unsent(t)' + Cardinality(Unread(t, s)) + Cardinality(B) + Cardinality(InHand(t, s))
           <= Load(t, s) + Cardinality(P)
        /\ Load(t, s) + Cardinality(P) \in Nat
    BY <1>3, <1>4, <1>6, <1>8, <2>1 DEF Load
  <2> QED
    BY <1>3, <1>6, <1>7, <1>8, <2>2, LoadAtMost
<1> QED
  BY <1>4, <1>8, <1>9, CountTypes DEF NoneMade

\* A failed read may forget entries, a subscription that starts or stops as well.
LEMMA SubLoad ==
  ASSUME Inv, NEW t \in Tasks, NEW s \in 0 .. N, NEW w \in Workers,
         \/ Start(w) \/ (\E n \in {read, Len(stream)} : ReadFails(w, n))
         \/ Crash(w) \/ Replace(w)
  PROVE  NoneMade(t, s)
<1>1. /\ Len(stream) \in Nat /\ batch \in [Workers -> SUBSET (1 .. Len(stream))]
      /\ read \in 0 .. Len(stream) /\ go \in Goes
  BY DEF Inv, TypeOK, Goes
<1>2. UNCHANGED <<client, stream, calls, again>>
  BY DEF Start, ReadFails, Crash, Replace, Stop, redis
<1>3. \A v \in Workers : batch'[v] \subseteq batch[v]
  BY <1>1 DEF Start, ReadFails, Crash, Replace, Stop
<1>4. read' \in {read, Len(stream)}
  BY DEF Start, ReadFails, Deliver, Crash, Replace, Stop, redis
<1>5. Unread(t, s)' \subseteq Unread(t, s)
  BY <1>1, <1>2, <1>4 DEF Unread
<1>6. InBatch(t, s)' \subseteq InBatch(t, s)
  BY <1>2, <1>3 DEF InBatch
<1>7. \A v \in Workers, h \in Slots :
         \/ go'[v][h].pc = "idle"
         \/ /\ go'[v][h].pc = go[v][h].pc /\ go'[v][h].id = go[v][h].id
            /\ go'[v][h].step = go[v][h].step /\ go'[v][h].at = go[v][h].at
  <2>1. CASE Start(w)
    BY <2>1 DEF Start
  <2>2. CASE \E n \in {read, Len(stream)} : ReadFails(w, n)
    BY <1>1, <2>2, AllOld DEF ReadFails
  <2>3. CASE Crash(w) \/ Replace(w)
    BY <1>1, <2>3, AllRest DEF Crash, Replace, Stop
  <2> QED
    BY <2>1, <2>2, <2>3
<1>8. InHand(t, s)' \subseteq InHand(t, s)
  <2>1. SUFFICES ASSUME NEW p \in InHand(t, s)' PROVE p \in InHand(t, s)
    OBVIOUS
  <2>2. p \in Workers \X Slots /\ go'[p[1]][p[2]].pc # "idle"
    BY <2>1 DEF InHand, Owes
  <2> QED
    BY <1>2, <1>7, <2>1, <2>2 DEF InHand, TaskOf
<1>9. Unsent(t)' <= Unsent(t)
  BY <1>2 DEF Unsent
<1> QED
  BY <1>2, <1>5, <1>6, <1>8, <1>9, LoadFalls, NoneMadeFalls

\* An entry of the batch gets its goroutine.
LEMMA DispatchLoad ==
  ASSUME Inv, NEW t \in Tasks, NEW s \in 0 .. N, NEW w \in Workers, NEW g \in Slots,
         Dispatch(w, g)
  PROVE  NoneMade(t, s)
<1>1. PICK id \in batch[w] :
         /\ Becomes(w, g, [pc |-> "walk", id |-> id, step |-> stream[id].step,
                           at |-> 1, old |-> FALSE])
         /\ batch' = [batch EXCEPT ![w] = @ \ {id}]
  BY DEF Dispatch
<1>2. go[w][g].pc = "idle" /\ UNCHANGED <<client, stream, read, calls, again>>
  BY DEF Dispatch, redis
<1> DEFINE r == [pc |-> "walk", id |-> id, step |-> stream[id].step, at |-> 1, old |-> FALSE]
<1>3. id \in 1 .. Len(stream) /\ Len(stream) \in Nat /\ go \in Goes
      /\ batch \in [Workers -> SUBSET (1 .. Len(stream))]
  BY DEF Inv, TypeOK, Goes
<1>4. r \in Goroutine /\ Becomes(w, g, r)
  <2>1. stream[id].step \in Copy
    BY <1>3, EntryAt DEF Inv, TypeOK
  <2> QED
    BY <1>1, <1>3, <2>1, ShapeAssumption DEF Goroutine
<1>5. r.pc = "walk" /\ r.id = id /\ r.step = stream[id].step
  OBVIOUS
<1> HIDE DEF r
<1>6. /\ go'[w][g] = r
      /\ \A v \in Workers, h \in Slots : <<v, h>> # <<w, g>> => go'[v][h] = go[v][h]
  BY <1>3, <1>4, OneBecomes
<1>7. /\ IsFiniteSet(Unread(t, s)) /\ IsFiniteSet(InBatch(t, s)) /\ IsFiniteSet(InHand(t, s))
      /\ Load(t, s) \in Nat /\ Unsent(t) \in {0, 1}
  BY PartsFinite
<1>8. InBatch(t, s)' \subseteq InBatch(t, s) \ {<<w, id>>}
  <2>1. SUFFICES ASSUME NEW p \in InBatch(t, s)'
                 PROVE  p \in InBatch(t, s) /\ p # <<w, id>>
    OBVIOUS
  <2>2. PICK v \in Workers, i \in 1 .. Len(stream) : p = <<v, i>>
    BY <1>2, <2>1 DEF InBatch
  <2>3. i \in batch'[v] /\ stream[i].task = t /\ Due(stream[i].step, s)
    BY <1>2, <2>1, <2>2 DEF InBatch
  <2>4. i \in batch[v] /\ <<v, i>> # <<w, id>>
    BY <1>1, <1>3, <2>3
  <2> QED
    BY <2>2, <2>3, <2>4 DEF InBatch
<1>9. /\ InHand(t, s)' \subseteq InHand(t, s) \cup {<<w, g>>}
      /\ <<w, g>> \in InHand(t, s)' => <<w, id>> \in InBatch(t, s)
  <2>1. ASSUME NEW p \in InHand(t, s)', p # <<w, g>> PROVE p \in InHand(t, s)
    <3>1. PICK v \in Workers, h \in Slots : p = <<v, h>>
      BY <2>1 DEF InHand
    <3>2. go'[v][h] = go[v][h]
      BY <1>6, <2>1, <3>1
    <3> QED
      BY <1>2, <2>1, <3>1, <3>2 DEF InHand, TaskOf
  <2>2. <<w, g>> \in InHand(t, s)' => stream[id].task = t /\ Due(stream[id].step, s)
    BY <1>2, <1>5, <1>6 DEF InHand, TaskOf, Owes
  <2> QED
    BY <1>3, <2>1, <2>2 DEF InBatch
<1>10. Unsent(t)' = Unsent(t) /\ Unread(t, s)' = Unread(t, s)
  BY <1>2, UnreadSame DEF Unsent
<1>11. /\ Cardinality(Unread(t, s)) \in Nat /\ Cardinality(InBatch(t, s)) \in Nat
       /\ Cardinality(InHand(t, s)) \in Nat
  BY <1>7, FS_CardinalityType
<1>12. Load(t, s)' <= Load(t, s) /\ Load(t, s)' \in Nat
  <2>1. CASE <<w, id>> \notin InBatch(t, s)
    <3>1. InHand(t, s)' \subseteq InHand(t, s) /\ InBatch(t, s)' \subseteq InBatch(t, s)
      BY <1>8, <1>9, <2>1
    <3>2. Unsent(t)' <= Unsent(t) /\ Unread(t, s)' \subseteq Unread(t, s)
      BY <1>7, <1>10
    <3> QED
      BY <3>1, <3>2, LoadFalls
  <2>2. CASE <<w, id>> \in InBatch(t, s)
    <3> DEFINE B == InBatch(t, s) \ {<<w, id>>}
               C == InHand(t, s) \cup {<<w, g>>}
    <3>1. IsFiniteSet(B) /\ Cardinality(B) = Cardinality(InBatch(t, s)) - 1
      BY <1>7, <2>2, FS_RemoveElement
    <3>2. /\ IsFiniteSet(C)
          /\ Cardinality(C) = IF <<w, g>> \in InHand(t, s) THEN Cardinality(InHand(t, s))
                              ELSE Cardinality(InHand(t, s)) + 1
      BY <1>7, FS_AddElement
    <3>3. Unsent(t)' + Cardinality(Unread(t, s)) + Cardinality(B) + Cardinality(C) <= Load(t, s)
      BY <1>7, <1>10, <1>11, <3>1, <3>2 DEF Load
    <3> HIDE DEF B, C
    <3>4. /\ Unread(t, s)' \subseteq Unread(t, s) /\ InBatch(t, s)' \subseteq B
          /\ InHand(t, s)' \subseteq C
      BY <1>8, <1>9, <1>10 DEF B, C
    <3> QED
      BY <1>7, <3>1, <3>2, <3>3, <3>4, LoadAtMost
  <2> QED
    BY <2>1, <2>2
<1> QED
  BY <1>2, <1>12, NoneMadeFalls

\* A goroutine that goes on holds no more than it held.
LEMMA MoveLoad ==
  ASSUME Inv, NEW t \in Tasks, NEW s \in 0 .. N, NEW w \in Workers, NEW g \in Slots,
         go[w][g].pc \in {"walk", "call"},
         NEW pc \in {"walk", "call", "ack"}, NEW steps \in Copy, NEW at \in 1 .. N + 1,
         MovesTo(w, g, pc, steps, at), UNCHANGED <<client, stream, read, batch>>,
         Owes(pc, steps, at, s) => Owes(go[w][g].pc, go[w][g].step, go[w][g].at, s)
  PROVE  /\ Load(t, s)' <= Load(t, s) /\ Load(t, s)' \in Nat
         /\ /\ TaskOf(w, g) = t /\ Owes(go[w][g].pc, go[w][g].step, go[w][g].at, s)
            /\ ~Owes(pc, steps, at, s)
            => Load(t, s)' <= Load(t, s) - 1
<1>1. go \in Goes
  BY DEF Inv, TypeOK, Goes
<1>2. /\ go'[w][g].pc = pc /\ go'[w][g].step = steps /\ go'[w][g].at = at
      /\ go'[w][g].id = go[w][g].id
      /\ \A v \in Workers, h \in Slots : <<v, h>> # <<w, g>> => go'[v][h] = go[v][h]
  BY <1>1, OneMoves
<1>3. \A v \in Workers, h \in Slots :
         go[v][h].pc # "idle" /\ go'[v][h].id = go[v][h].id => TaskOf(v, h)' = TaskOf(v, h)
  BY DEF TaskOf
<1>4. /\ InHand(t, s)' \subseteq InHand(t, s) \cup {<<w, g>>}
      /\ <<w, g>> \in InHand(t, s)' <=> TaskOf(w, g) = t /\ Owes(pc, steps, at, s)
      /\ <<w, g>> \in InHand(t, s) <=>
            TaskOf(w, g) = t /\ Owes(go[w][g].pc, go[w][g].step, go[w][g].at, s)
  <2>1. /\ InHand(t, s)' \subseteq InHand(t, s) \cup {<<w, g>>}
        /\ <<w, g>> \in InHand(t, s)' <=>
              TaskOf(w, g) = t /\ Owes(go'[w][g].pc, go'[w][g].step, go'[w][g].at, s)
        /\ <<w, g>> \in InHand(t, s) <=>
              TaskOf(w, g) = t /\ Owes(go[w][g].pc, go[w][g].step, go[w][g].at, s)
    <3>1. go[w][g].pc # "idle"
      OBVIOUS
    <3>2. go'[w][g].id = go[w][g].id
      BY <1>2
    <3>3. \A v \in Workers, h \in Slots : <<v, h>> # <<w, g>> => go'[v][h] = go[v][h]
      BY <1>2
    <3>4. InHand(t, s)' \subseteq InHand(t, s) \cup {<<w, g>>}
      BY <1>3, <3>1, <3>2, <3>3, HandMoves
    <3>5. TaskOf(w, g)' = TaskOf(w, g) /\ <<w, g>> \in Workers \X Slots
      BY <1>3, <3>1, <3>2
    <3>6. <<w, g>> \in InHand(t, s)' <=>
             TaskOf(w, g) = t /\ Owes(go'[w][g].pc, go'[w][g].step, go'[w][g].at, s)
      BY <3>5 DEF InHand
    <3>7. <<w, g>> \in InHand(t, s) <=>
             TaskOf(w, g) = t /\ Owes(go[w][g].pc, go[w][g].step, go[w][g].at, s)
      BY <3>5 DEF InHand
    <3> QED
      BY <3>4, <3>6, <3>7
  <2> QED
    BY <1>2, <2>1
<1>5. InHand(t, s)' \subseteq InHand(t, s)
  BY <1>4
<1>6. /\ Unsent(t)' = Unsent(t) /\ Unread(t, s)' = Unread(t, s)
      /\ InBatch(t, s)' = InBatch(t, s)
  BY UnreadSame, InBatchSame DEF Unsent
<1>7. /\ IsFiniteSet(Unread(t, s)) /\ IsFiniteSet(InBatch(t, s)) /\ IsFiniteSet(InHand(t, s))
      /\ Load(t, s) \in Nat /\ Unsent(t) \in {0, 1}
  BY PartsFinite
<1>8. Load(t, s)' <= Load(t, s) /\ Load(t, s)' \in Nat
  <2>1. Unsent(t)' <= Unsent(t)
    BY <1>6, <1>7
  <2> QED
    BY <1>5, <1>6, <2>1, LoadFalls
<1>9. ASSUME <<w, g>> \in InHand(t, s), <<w, g>> \notin InHand(t, s)'
      PROVE  Load(t, s)' <= Load(t, s) - 1
  <2> DEFINE C == InHand(t, s) \ {<<w, g>>}
  <2>1. InHand(t, s)' \subseteq C
    BY <1>5, <1>9
  <2>2. IsFiniteSet(C) /\ Cardinality(C) = Cardinality(InHand(t, s)) - 1 /\ Load(t, s) >= 1
    BY <1>7, <1>9, LoadHolds, FS_RemoveElement
  <2>3. /\ Cardinality(Unread(t, s)) \in Nat /\ Cardinality(InBatch(t, s)) \in Nat
        /\ Cardinality(InHand(t, s)) \in Nat
    BY <1>7, FS_CardinalityType
  <2> HIDE DEF C
  <2>4. /\ Unsent(t)' + Cardinality(Unread(t, s)) + Cardinality(InBatch(t, s)) + Cardinality(C)
           <= Load(t, s) - 1
        /\ Load(t, s) - 1 \in Nat
    BY <1>6, <1>7, <2>2, <2>3 DEF Load
  <2>5. Unread(t, s)' \subseteq Unread(t, s) /\ InBatch(t, s)' \subseteq InBatch(t, s)
    BY <1>6
  <2> QED
    BY <1>7, <2>1, <2>2, <2>4, <2>5, LoadAtMost
<1> QED
  BY <1>4, <1>8, <1>9

\* The step that is called is no longer due in the copy it is called from.
LEMMA StartStepLoad ==
  ASSUME Inv, NEW t \in Tasks, NEW s \in 0 .. N, NEW w \in Workers, NEW g \in Slots,
         NEW r \in Steps, NEW ok \in BOOLEAN, StartStep(w, g, r, ok)
  PROVE  NoneMade(t, s)
<1> DEFINE c == go[w][g].step
           running == [c EXCEPT ![r] = "Running"]
           skipped == [c EXCEPT ![r] = "Success"]
<1>1. /\ go[w][g].pc = "walk" /\ ~Failed(c) /\ c[r] # "Success"
      /\ UNCHANGED <<client, stream, read, batch, again>>
  BY DEF StartStep, IsNext
<1>2. c \in Copy /\ TaskOf(w, g) \in Tasks
  BY <1>1, Alive
<1>3. running \in Copy /\ skipped \in Copy /\ r \in 1 .. N + 1 /\ r + 1 \in 1 .. N + 1
  <2>1. running \in Copy /\ skipped \in Copy
    BY <1>2 DEF Copy, Codes
  <2>2. r \in 1 .. N + 1 /\ r + 1 \in 1 .. N + 1
    BY ShapeAssumption DEF Steps
  <2> QED
    BY <2>1, <2>2
<1>4. Due(running, s) \/ Due(skipped, s) => Owes("walk", c, go[w][g].at, s)
  <2>1. s # 0 => s \in Steps
    BY ShapeAssumption DEF Steps
  <2> QED
    BY <1>1, <1>2, <2>1 DEF Due, Owes, Copy
<1>5. Owes("walk", c, go[w][g].at, r) /\ ~Owes("call", running, r, r)
  BY <1>1 DEF Due, Owes
<1>6. /\ Owes("call", running, r, s) => Due(running, s)
      /\ Owes("walk", skipped, r + 1, s) => Due(skipped, s)
  BY DEF Owes
<1> HIDE DEF c, running, skipped
<1>7. CASE r \notin Functions
  <2>1. MovesTo(w, g, "walk", skipped, r + 1) /\ calls' = calls
    BY <1>7 DEF StartStep, skipped, c
  <2>2. Load(t, s)' <= Load(t, s) /\ Load(t, s)' \in Nat
    BY <1>1, <1>3, <1>4, <1>6, <2>1, MoveLoad DEF c
  <2> QED
    BY <1>1, <2>1, <2>2, NoneMadeFalls
<1>8. CASE r \in Functions
  <2>1. /\ MovesTo(w, g, "call", running, r)
        /\ calls' = [calls EXCEPT ![TaskOf(w, g)][r] = @ + 1]
    BY <1>8 DEF StartStep, running, c
  <2>2. /\ Load(t, s)' <= Load(t, s) /\ Load(t, s)' \in Nat
        /\ TaskOf(w, g) = t /\ s = r => Load(t, s)' <= Load(t, s) - 1
    BY <1>1, <1>3, <1>4, <1>5, <1>6, <2>1, MoveLoad DEF c
  <2>3. Called(t, s)' = IF TaskOf(w, g) = t /\ s = r THEN Called(t, s) + 1 ELSE Called(t, s)
    <3>1. calls \in [Tasks -> [Steps -> Nat]] /\ r # 0
      <4>1. calls \in [Tasks -> [Steps -> Nat]]
        BY DEF Inv, TypeOK
      <4>2. r # 0
        BY ShapeAssumption DEF Steps
      <4> QED
        BY <4>1, <4>2
    <3>2. s # 0 => s \in Steps
      BY ShapeAssumption DEF Steps
    <3>3. CASE TaskOf(w, g) = t
      <4>1. calls'[t] = [calls[t] EXCEPT ![r] = @ + 1]
        BY <1>2, <2>1, <3>1, <3>3
      <4> QED
        BY <3>1, <3>2, <3>3, <4>1 DEF Called
    <3>4. CASE TaskOf(w, g) # t
      <4>1. calls'[t] = calls[t]
        BY <1>2, <2>1, <3>1, <3>4
      <4> QED
        BY <3>4, <4>1 DEF Called
    <3> QED
      BY <3>3, <3>4
  <2>4. again'[t] = again[t]
    BY <1>1
  <2> QED
    BY <2>2, <2>3, <2>4, CountTypes DEF NoneMade
<1> QED
  BY <1>7, <1>8

LEMMA ReturnLoad ==
  ASSUME Inv, NEW t \in Tasks, NEW s \in 0 .. N, NEW w \in Workers, NEW g \in Slots,
         NEW code \in {"Success", "Error"}, NEW ok \in BOOLEAN, Return(w, g, code, ok)
  PROVE  NoneMade(t, s)
<1> DEFINE c == go[w][g].step
           r == go[w][g].at
           steps == [c EXCEPT ![r] = code]
<1>1. /\ go[w][g].pc = "call" /\ MovesTo(w, g, "walk", steps, Resume(r, code))
      /\ UNCHANGED <<client, stream, read, batch, calls, again>>
  BY DEF Return
<1>2. c \in Copy /\ r \in Functions /\ r \in Steps
  BY <1>1, Alive, ShapeAssumption
<1>3. steps \in Copy
  BY <1>2 DEF Copy, Codes
<1>4. Resume(r, code) \in 1 .. N + 1
  <2>1. End[r] \in Steps
    BY <1>2, ShapeAssumption
  <2> QED
    BY <1>2, <2>1, ShapeAssumption DEF Resume, Steps
<1>5. Owes("walk", steps, Resume(r, code), s) => Owes("call", c, r, s)
  <2>1. CASE s = 0
    BY <1>2, <2>1, ShapeAssumption DEF Due, Owes, Steps
  <2>2. CASE s # 0
    <3>1. SUFFICES ASSUME ~Failed(steps), steps[s] # "Success" PROVE c[s] # "Success" /\ r # s
      BY <2>2 DEF Due, Owes
    <3>2. s \in Steps
      BY <2>2, ShapeAssumption DEF Steps
    <3>3. code = "Success" /\ steps[r] = code
      BY <1>2, <3>1 DEF Failed, Copy
    <3>4. r # s
      BY <3>1, <3>3
    <3> QED
      BY <1>2, <3>1, <3>2, <3>4 DEF Copy
  <2> QED
    BY <2>1, <2>2
<1> HIDE DEF c, r, steps
<1>6. Load(t, s)' <= Load(t, s) /\ Load(t, s)' \in Nat
  BY <1>1, <1>3, <1>4, <1>5, MoveLoad DEF c, r
<1> QED
  BY <1>1, <1>6, NoneMadeFalls
\* The last delivery of a task gives its copy up.
LEMMA FinishLoad ==
  ASSUME Inv, NEW t \in Tasks, NEW s \in 0 .. N, NEW w \in Workers, NEW g \in Slots,
         NEW ok \in BOOLEAN, Finish(w, g, ok)
  PROVE  /\ NoneMade(t, s)
         /\ TaskOf(w, g) = t /\ s = 0 => Load(t, s)' <= Load(t, s) - 1
<1> DEFINE c == go[w][g].step
           at == go[w][g].at
<1>1. /\ go[w][g].pc = "walk" /\ MovesTo(w, g, "ack", c, at)
      /\ UNCHANGED <<client, stream, read, batch, calls, again>>
  BY DEF Finish
<1>2. c \in Copy /\ at \in 1 .. N + 1
  BY <1>1, Alive
<1>3. ~Owes("ack", c, at, s) /\ (s = 0 => Owes("walk", c, at, s))
  BY DEF Owes, Due
<1>4. go[w][g].step = c /\ go[w][g].at = at
  OBVIOUS
<1> HIDE DEF c, at
<1>5. /\ Load(t, s)' <= Load(t, s) /\ Load(t, s)' \in Nat
      /\ TaskOf(w, g) = t /\ Owes("walk", c, at, s) => Load(t, s)' <= Load(t, s) - 1
  BY <1>1, <1>2, <1>3, <1>4, MoveLoad
<1>6. NoneMade(t, s)
  BY <1>1, <1>5, NoneMadeFalls
<1> QED
  BY <1>3, <1>5, <1>6

\* A delivery that publishes its copy again gives it up as well.
LEMMA RequeueLoad ==
  ASSUME Inv, NEW t \in Tasks, NEW s \in 0 .. N, NEW w \in Workers, NEW g \in Slots,
         NEW ok \in BOOLEAN, Requeue(w, g, ok)
  PROVE  NoneMade(t, s)
<1> DEFINE c == go[w][g].step
           u == TaskOf(w, g)
<1>1. /\ go[w][g].pc = "walk" /\ ~Failed(c) /\ Pub(u, c, ok)
      /\ MovesTo(w, g, "ack", c, go[w][g].at)
      /\ UNCHANGED <<client, read, batch, calls, again>>
  BY DEF Requeue
<1>2. c \in Copy /\ go[w][g].at \in 1 .. N + 1 /\ u \in Tasks /\ go \in Goes
  BY <1>1, Alive
<1>3. /\ go'[w][g].pc = "ack" /\ go'[w][g].id = go[w][g].id
      /\ \A v \in Workers, h \in Slots : <<v, h>> # <<w, g>> => go'[v][h] = go[v][h]
  BY <1>1, <1>2, OneMoves
<1>4. u = t /\ Due(c, s) => <<w, g>> \in InHand(t, s)
  BY <1>1 DEF InHand, Owes
<1> HIDE DEF c, u
<1>5. /\ \/ Unread(t, s)' \subseteq Unread(t, s)
         \/ t = u /\ Due(c, s)
            /\ Unread(t, s)' \subseteq Unread(t, s) \cup {Len(stream) + 1}
      /\ InBatch(t, s)' \subseteq InBatch(t, s)
      /\ \A v \in Workers, h \in Slots :
            go[v][h].pc # "idle" /\ go'[v][h].id = go[v][h].id => TaskOf(v, h)' = TaskOf(v, h)
  <2>1. c \in Copy /\ u \in Tasks
    BY <1>2
  <2>2. Pub(u, c, ok) /\ read' = read /\ batch' = batch
    BY <1>1
  <2> QED
    BY <2>1, <2>2, LoadPublished
<1>6. \A v \in Workers, h \in Slots :
         go[v][h].pc # "idle" /\ go'[v][h].id = go[v][h].id => TaskOf(v, h)' = TaskOf(v, h)
  BY <1>5
<1>7. InHand(t, s)' \subseteq InHand(t, s) \ {<<w, g>>}
  <2>1. go[w][g].pc # "idle"
    BY <1>1
  <2>2. InHand(t, s)' \subseteq InHand(t, s) \cup {<<w, g>>}
    BY <1>3, <1>6, <2>1, HandMoves
  <2>3. <<w, g>> \notin InHand(t, s)'
    BY <1>3 DEF InHand, Owes
  <2> QED
    BY <2>2, <2>3
<1>8. /\ IsFiniteSet(Unread(t, s)) /\ IsFiniteSet(InBatch(t, s)) /\ IsFiniteSet(InHand(t, s))
      /\ Load(t, s) \in Nat /\ Unsent(t) \in {0, 1}
  BY PartsFinite
<1>9. Unsent(t)' = Unsent(t)
  BY <1>1 DEF Unsent
<1>10. CASE Unread(t, s)' \subseteq Unread(t, s)
  <2>1. InHand(t, s)' \subseteq InHand(t, s) /\ Unsent(t)' <= Unsent(t)
    BY <1>7, <1>8, <1>9
  <2>2. Load(t, s)' <= Load(t, s) /\ Load(t, s)' \in Nat
    BY <1>5, <1>10, <2>1, LoadFalls
  <2> QED
    BY <1>1, <2>2, NoneMadeFalls
<1>11. CASE t = u /\ Due(c, s)
            /\ Unread(t, s)' \subseteq Unread(t, s) \cup {Len(stream) + 1}
  <2> DEFINE A == Unread(t, s) \cup {Len(stream) + 1}
             C == InHand(t, s) \ {<<w, g>>}
  <2>1. /\ Cardinality(Unread(t, s)) \in Nat /\ Cardinality(InBatch(t, s)) \in Nat
        /\ Cardinality(InHand(t, s)) \in Nat
    BY <1>8, FS_CardinalityType
  <2>2. IsFiniteSet(A) /\ Cardinality(A) <= Cardinality(Unread(t, s)) + 1
        /\ Cardinality(A) \in Nat
    <3>1. /\ IsFiniteSet(A)
          /\ Cardinality(A) = IF Len(stream) + 1 \in Unread(t, s) THEN Cardinality(Unread(t, s))
                              ELSE Cardinality(Unread(t, s)) + 1
      BY <1>8, FS_AddElement
    <3> QED
      BY <2>1, <3>1
  <2>3. IsFiniteSet(C) /\ Cardinality(C) = Cardinality(InHand(t, s)) - 1
    BY <1>4, <1>8, <1>11, FS_RemoveElement
  <2>4. Unread(t, s)' \subseteq A /\ InHand(t, s)' \subseteq C
    BY <1>7, <1>11
  <2> HIDE DEF A, C
  <2>5. Unsent(t)' + Cardinality(A) + Cardinality(InBatch(t, s)) + Cardinality(C) <= Load(t, s)
    BY <1>8, <1>9, <2>1, <2>2, <2>3 DEF Load
  <2>6. Load(t, s)' <= Load(t, s) /\ Load(t, s)' \in Nat
    BY <1>5, <1>8, <2>2, <2>3, <2>4, <2>5, LoadAtMost
  <2> QED
    BY <1>1, <2>6, NoneMadeFalls
<1> QED
  BY <1>5, <1>10, <1>11

LEMMA AckLoad ==
  ASSUME Inv, NEW t \in Tasks, NEW s \in 0 .. N, NEW w \in Workers, NEW g \in Slots,
         NEW ok \in BOOLEAN, Ack(w, g, ok)
  PROVE  NoneMade(t, s)
<1>1. Becomes(w, g, Idle) /\ UNCHANGED <<client, stream, read, batch, calls, again>>
  BY DEF Ack
<1>2. go \in Goes
  BY DEF Inv, TypeOK, Goes
<1>3. /\ go'[w][g] = Idle
      /\ \A v \in Workers, h \in Slots : <<v, h>> # <<w, g>> => go'[v][h] = go[v][h]
  BY <1>1, <1>2, StartsTyped, OneBecomes
<1>4. Idle.pc = "idle"
  BY DEF Idle
<1>5. InHand(t, s)' \subseteq InHand(t, s)
  <2>1. SUFFICES ASSUME NEW p \in InHand(t, s)' PROVE p \in InHand(t, s)
    OBVIOUS
  <2>2. PICK v \in Workers, h \in Slots : p = <<v, h>>
    BY <2>1 DEF InHand
  <2>3. go'[v][h].pc # "idle" /\ TaskOf(v, h)' = t
        /\ Owes(go'[v][h].pc, go'[v][h].step, go'[v][h].at, s)
    BY <2>1, <2>2 DEF InHand, Owes
  <2>4. go'[v][h] = go[v][h]
    BY <1>3, <1>4, <2>3
  <2> QED
    BY <1>1, <2>2, <2>3, <2>4 DEF InHand, TaskOf
<1>6. Unsent(t)' <= Unsent(t)
  BY <1>1 DEF Unsent
<1> QED
  BY <1>1, <1>5, <1>6, UnreadSame, InBatchSame, LoadFalls, NoneMadeFalls
\* Whatever is called or copied was on its way, or is an entry that is read again.
LEMMA NextLoad ==
  ASSUME Inv, [Next]_vars, NEW t \in Tasks, NEW s \in 0 .. N
  PROVE  NoneMade(t, s) /\ again[t] <= again'[t]
<1>0. again[t] \in Nat
  BY DEF Inv, TypeOK
<1>1. CASE UNCHANGED vars
  <2>1. UNCHANGED <<client, stream, read, batch, go, calls, again>>
    BY <1>1 DEF vars
  <2>2. Load(t, s)' = Load(t, s)
    BY <2>1, UnreadSame, InBatchSame, InHandSame DEF Load, Unsent
  <2>3. Load(t, s) \in Nat
    BY PartsFinite
  <2>4. Load(t, s)' <= Load(t, s) /\ Load(t, s)' \in Nat
    BY <2>2, <2>3
  <2> QED
    BY <1>0, <2>1, <2>4, NoneMadeFalls
<1>2. ASSUME NEW u \in Tasks, NEW ok \in BOOLEAN, NEW lands \in BOOLEAN,
             SubmitPut(u, ok) \/ SubmitPub(u, ok, lands) \/ Remove(u)
      PROVE  NoneMade(t, s) /\ again[t] <= again'[t]
  <2>1. again' = again
    BY <1>2 DEF SubmitPut, SubmitPub, Remove
  <2> QED
    BY <1>0, <1>2, <2>1, SubmitLoad
<1>3. ASSUME NEW w \in Workers, NEW g \in Slots, Dispatch(w, g) \/ Handle(w, g)
      PROVE  NoneMade(t, s) /\ again[t] <= again'[t]
  <2>1. CASE Dispatch(w, g)
    <3>1. again' = again
      BY <2>1 DEF Dispatch
    <3> QED
      BY <1>0, <2>1, <3>1, DispatchLoad
  <2>2. ASSUME NEW r \in Steps, NEW ok \in BOOLEAN, StartStep(w, g, r, ok)
        PROVE  NoneMade(t, s) /\ again[t] <= again'[t]
    <3>1. again' = again
      BY <2>2 DEF StartStep
    <3> QED
      BY <1>0, <2>2, <3>1, StartStepLoad
  <2>3. ASSUME NEW code \in {"Success", "Error"}, NEW ok \in BOOLEAN, Return(w, g, code, ok)
        PROVE  NoneMade(t, s) /\ again[t] <= again'[t]
    <3>1. again' = again
      BY <2>3 DEF Return
    <3> QED
      BY <1>0, <2>3, <3>1, ReturnLoad
  <2>4. ASSUME NEW ok \in BOOLEAN, Finish(w, g, ok) \/ Requeue(w, g, ok) \/ Ack(w, g, ok)
        PROVE  NoneMade(t, s) /\ again[t] <= again'[t]
    <3>1. again' = again
      BY <2>4 DEF Finish, Requeue, Ack
    <3> QED
      BY <1>0, <2>4, <3>1, FinishLoad, RequeueLoad, AckLoad
  <2> QED
    BY <1>3, <2>1, <2>2, <2>3, <2>4 DEF Handle
<1>4. ASSUME NEW w \in Workers,
             \/ Start(w) \/ ReadPending(w) \/ ReadNew(w)
             \/ \E n \in {read, Len(stream)} : ReadFails(w, n)
             \/ Crash(w) \/ Replace(w)
      PROVE  NoneMade(t, s) /\ again[t] <= again'[t]
  <2>1. CASE ReadPending(w)
    BY <2>1, ReadPendingLoad
  <2>2. CASE ReadNew(w)
    <3>1. again' = again
      BY <2>2 DEF ReadNew
    <3> QED
      BY <1>0, <2>2, <3>1, ReadNewLoad
  <2>3. CASE Start(w) \/ (\E n \in {read, Len(stream)} : ReadFails(w, n)) \/ Crash(w) \/ Replace(w)
    <3>1. again' = again
      BY <2>3 DEF Start, ReadFails, Crash, Replace, Stop
    <3> QED
      BY <1>0, <2>3, <3>1, SubLoad
  <2> QED
    BY <1>4, <2>1, <2>2, <2>3
<1> QED
  BY <1>1, <1>2, <1>3, <1>4 DEF Next, Work

\* Only one that holds a copy writes a task's record; who writes its outcome gives
\* the copy up.
LEMMA StoreWritten ==
  ASSUME Inv, [Next]_vars, NEW t \in Tasks
  PROVE  \/ store'[t] = store[t]
         \/ store'[t] = NoTask
         \/ /\ Load(t, 0) >= 1
            /\ store'[t].status = "Pending" \/ Load(t, 0)' <= Load(t, 0) - 1
<1> DEFINE Written == \/ store'[t] = store[t]
                      \/ store'[t] = NoTask
                      \/ /\ Load(t, 0) >= 1
                         /\ store'[t].status = "Pending" \/ Load(t, 0)' <= Load(t, 0) - 1
<1>0. store \in [Tasks -> Record \cup {NoTask}] /\ 0 \in 0 .. N
  BY ShapeAssumption DEF Inv, TypeOK
<1>1. ASSUME store' = store PROVE Written
  BY <1>1
<1>2. ASSUME NEW u \in Tasks, NEW ok \in BOOLEAN, SubmitPut(u, ok) PROVE Written
  <2>1. store'[t] = store[t] \/ (t = u /\ store'[t].status = "Pending")
    BY <1>0, <1>2, StartsTyped, Stored DEF SubmitPut
  <2>2. Unsent(u) = 1
    BY <1>2 DEF SubmitPut, Unsent
  <2>3. Load(u, 0) >= 1
    BY <2>2, LoadHolds
  <2> QED
    BY <2>1, <2>3
<1>3. ASSUME NEW u \in Tasks, Remove(u) PROVE Written
  BY <1>0, <1>3 DEF Remove
<1>4. ASSUME NEW w \in Workers, NEW g \in Slots, go[w][g].pc \in {"walk", "call"},
             TaskOf(w, g) = t
      PROVE  Load(t, 0) >= 1
  <2>1. go[w][g].pc = "call" => go[w][g].at # 0
    BY <1>4, Alive, ShapeAssumption
  <2>2. <<w, g>> \in InHand(t, 0)
    BY <1>4, <2>1 DEF InHand, Owes, Due
  <2> QED
    BY <2>2, LoadHolds
<1>5. ASSUME NEW w \in Workers, NEW g \in Slots, NEW r \in Steps, NEW ok \in BOOLEAN,
             StartStep(w, g, r, ok)
      PROVE  Written
  <2> DEFINE running == [go[w][g].step EXCEPT ![r] = "Running"]
  <2>1. go[w][g].pc = "walk" /\ Put(TaskOf(w, g), "Pending", running, ok)
    BY <1>5 DEF StartStep
  <2>2. TaskOf(w, g) \in Tasks /\ go[w][g].step \in Copy
    BY <2>1, Alive
  <2>3. running \in Copy
    BY <2>2 DEF Copy, Codes
  <2> HIDE DEF running
  <2>4. store'[t] = store[t] \/ (t = TaskOf(w, g) /\ store'[t].status = "Pending")
    BY <1>0, <2>1, <2>2, <2>3, Stored
  <2> QED
    BY <1>4, <2>1, <2>4
<1>6. ASSUME NEW w \in Workers, NEW g \in Slots, NEW code \in {"Success", "Error"},
             NEW ok \in BOOLEAN, Return(w, g, code, ok)
      PROVE  Written
  <2> DEFINE steps == [go[w][g].step EXCEPT ![go[w][g].at] = code]
  <2>1. go[w][g].pc = "call" /\ Put(TaskOf(w, g), "Pending", steps, ok)
    BY <1>6 DEF Return
  <2>2. TaskOf(w, g) \in Tasks /\ go[w][g].step \in Copy
    BY <2>1, Alive
  <2>3. steps \in Copy
    BY <2>2 DEF Copy, Codes
  <2> HIDE DEF steps
  <2>4. store'[t] = store[t] \/ (t = TaskOf(w, g) /\ store'[t].status = "Pending")
    BY <1>0, <2>1, <2>2, <2>3, Stored
  <2> QED
    BY <1>4, <2>1, <2>4
<1>7. ASSUME NEW w \in Workers, NEW g \in Slots, NEW ok \in BOOLEAN, Finish(w, g, ok)
      PROVE  Written
  <2>1. go[w][g].pc = "walk" /\ TaskOf(w, g) \in Tasks /\ go[w][g].step \in Copy
    BY <1>7, Alive DEF Finish
  <2>2. Put(TaskOf(w, g), IF Failed(go[w][g].step) THEN "Error" ELSE "Success",
            go[w][g].step, ok)
    BY <1>7 DEF Finish
  <2>3. store'[t] = store[t] \/ t = TaskOf(w, g)
    BY <1>0, <2>1, <2>2, Stored
  <2>4. t = TaskOf(w, g) => Load(t, 0)' <= Load(t, 0) - 1
    BY <1>0, <1>7, FinishLoad
  <2> QED
    BY <1>4, <2>1, <2>3, <2>4
<1>8. ASSUME NEW w \in Workers, NEW g \in Slots, Dispatch(w, g) \/ Handle(w, g) PROVE Written
  <2>1. ASSUME NEW ok \in BOOLEAN, Requeue(w, g, ok) \/ Ack(w, g, ok) PROVE store' = store
    BY <2>1 DEF Requeue, Ack
  <2>2. Dispatch(w, g) => store' = store
    BY DEF Dispatch, redis
  <2> HIDE DEF Written
  <2> QED
    BY <1>1, <1>5, <1>6, <1>7, <1>8, <2>1, <2>2 DEF Handle
<1>9. ASSUME NEW w \in Workers,
             \/ Start(w) \/ ReadPending(w) \/ ReadNew(w)
             \/ \E n \in {read, Len(stream)} : ReadFails(w, n)
             \/ Crash(w) \/ Replace(w)
      PROVE  Written
  <2>1. store' = store
    BY <1>9 DEF Start, ReadPending, ReadNew, ReadFails, Crash, Replace, Stop, redis
  <2> QED
    BY <1>1, <2>1
<1>10. ASSUME NEW u \in Tasks, NEW ok \in BOOLEAN, NEW lands \in BOOLEAN,
              SubmitPub(u, ok, lands)
       PROVE  Written
  BY <1>1, <1>10 DEF SubmitPub
<1>11. UNCHANGED vars => Written
  BY <1>1 DEF vars
<1> HIDE DEF Written
<1>12. Written
  BY <1>2, <1>3, <1>8, <1>9, <1>10, <1>11 DEF Next, Work
<1> QED
  BY <1>12 DEF Written
-------------------------------------------------------------------------------
Counts == \A t \in Tasks, s \in 0 .. N :
             Called(t, s) \in Nat /\ again[t] \in Nat /\ Load(t, s) \in Nat

LEMMA CountsTyped == Inv => Counts
BY CountTypes DEF Counts

LEMMA LoadInit == Init => LoadInv
<1> SUFFICES ASSUME Init, NEW t \in Tasks, NEW s \in 0 .. N
             PROVE  Called(t, s) + Load(t, s) <= 1 + again[t]
  BY DEF LoadInv
<1>1. s # 0 => s \in Steps
  BY ShapeAssumption DEF Steps
<1>2. Called(t, s) = 0 /\ again[t] = 0 /\ Unsent(t) = 1
  BY <1>1 DEF Init, Called, Unsent
<1>3. Unread(t, s) = {} /\ InBatch(t, s) = {}
  BY DEF Init, Unread, InBatch
<1>4. InHand(t, s) = {}
  BY DEF Init, InHand, Owes, Idle
<1>5. Cardinality({}) = 0
  BY FS_EmptySet
<1>6. Load(t, s) = 1
  BY <1>2, <1>3, <1>4, <1>5 DEF Load
<1> QED
  BY <1>2, <1>6

LEMMA LoadNext == Inv /\ Counts /\ Counts' /\ LoadInv /\ [Next]_vars => LoadInv'
<1> SUFFICES ASSUME Inv, Counts, Counts', LoadInv, [Next]_vars, NEW t \in Tasks, NEW s \in 0 .. N
             PROVE  Called(t, s)' + Load(t, s)' <= 1 + again'[t]
  BY DEF LoadInv
<1>1. NoneMade(t, s)
  BY NextLoad
<1>2. Called(t, s) + Load(t, s) <= 1 + again[t]
  BY DEF LoadInv
<1>3. /\ Called(t, s) \in Nat /\ again[t] \in Nat /\ Load(t, s) \in Nat
      /\ Called(t, s)' \in Nat /\ again'[t] \in Nat /\ Load(t, s)' \in Nat
  BY DEF Counts
<1> QED
  BY <1>1, <1>2, <1>3 DEF NoneMade

LEMMA FinalInit == Init => FinalInv
BY DEF Init, FinalInv, Finished, NoTask

\* The last to hold a copy of a task that is never read again writes its outcome.
LEMMA FinalNext ==
  Inv /\ Counts /\ Counts' /\ LoadInv /\ FinalInv /\ [Next]_vars => FinalInv'
<1> SUFFICES ASSUME Inv, Counts, Counts', LoadInv, FinalInv, [Next]_vars, NEW t \in Tasks,
                    Finished(t)', again'[t] = 0
             PROVE  Load(t, 0)' = 0
  BY DEF FinalInv
<1>0. 0 \in 0 .. N
  BY ShapeAssumption
<1>1. NoneMade(t, 0) /\ again[t] <= again'[t]
  BY <1>0, NextLoad
<1>2. /\ again[t] \in Nat /\ Load(t, 0) \in Nat /\ Load(t, 0)' \in Nat
  BY <1>0 DEF Counts
<1>3. again[t] = 0
  BY <1>1, <1>2
<1>4. Called(t, 0) = 0 /\ Called(t, 0)' = 0
  BY DEF Called
<1>5. Load(t, 0)' <= Load(t, 0)
  BY <1>1, <1>2, <1>3, <1>4 DEF NoneMade
<1>6. Load(t, 0) <= 1
  BY <1>0, <1>2, <1>3, <1>4 DEF LoadInv
<1>7. CASE Finished(t)
  BY <1>2, <1>3, <1>5, <1>7 DEF FinalInv
<1>8. CASE ~Finished(t)
  <2>1. store'[t] # store[t] /\ store'[t] # NoTask /\ store'[t].status # "Pending"
    BY <1>8 DEF Finished, NoTask
  <2>2. Load(t, 0)' <= Load(t, 0) - 1
    BY <2>1, StoreWritten
  <2> QED
    BY <1>2, <1>6, <2>2
<1> QED
  BY <1>7, <1>8

(* No step's function is called more often than once, and once more for     *)
(* each time an entry of the task was read again (backend.go:116-137,       *)
(* server.go:88-95).                                                        *)
THEOREM CalledAtMostOnce == Spec => []CalledOnce
<1>1. Inv /\ Counts /\ LoadInv => CalledOnce
  <2> SUFFICES ASSUME Counts, LoadInv, NEW t \in Tasks, NEW s \in Steps
               PROVE  calls[t][s] <= 1 + again[t]
    BY DEF CalledOnce
  <2>1. s \in 0 .. N /\ s # 0
    BY ShapeAssumption DEF Steps
  <2>2. Called(t, s) = calls[t][s] /\ Called(t, s) + Load(t, s) <= 1 + again[t]
    BY <2>1 DEF Called, LoadInv
  <2>3. Called(t, s) \in Nat /\ Load(t, s) \in Nat /\ again[t] \in Nat
    BY <2>1 DEF Counts
  <2> QED
    BY <2>2, <2>3
<1> QED
  BY <1>1, CountsTyped, LoadInit, LoadNext, Invariant, PTL DEF Spec

(* The record of a task that is finished, and of which no entry was read    *)
(* again, is removed and never rewritten: whoever wrote it held the last    *)
(* copy of the task (server.go:97-120).                                     *)
THEOREM Final == Spec => FinishedIsFinal
<1>1. Inv /\ Counts /\ Counts' /\ FinalInv /\ [Next]_vars
      => [\A t \in Tasks : Finished(t) /\ again'[t] = 0 => store'[t] \in {store[t], NoTask}]_vars
  <2> SUFFICES ASSUME Inv, Counts, Counts', FinalInv, [Next]_vars, NEW t \in Tasks,
                      Finished(t), again'[t] = 0
               PROVE  store'[t] \in {store[t], NoTask}
    OBVIOUS
  <2>0. 0 \in 0 .. N
    BY ShapeAssumption
  <2>1. again[t] \in Nat /\ again[t] <= again'[t]
    BY <2>0, NextLoad DEF Counts
  <2>2. Load(t, 0) = 0
    BY <2>1 DEF FinalInv
  <2> QED
    BY <2>2, StoreWritten
<1> QED
  BY <1>1, CountsTyped, LoadInit, LoadNext, FinalInit, FinalNext, Invariant, PTL
     DEF Spec, FinishedIsFinal
===============================================================================
