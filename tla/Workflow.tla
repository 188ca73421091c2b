------------------------------- MODULE Workflow -------------------------------
(***************************************************************************)
(* The task queue of pkg/utils/workflow on its redis backend.  A client    *)
(* stores a task and publishes it to a stream; workers share the stream    *)
(* through a consumer group, run one step of a task per delivery in a      *)
(* goroutine, publish the updated task again until every step is done, and *)
(* acknowledge the entry whatever happened.  Any redis call may fail, a    *)
(* worker's container may restart (same hostname) or its pod be replaced   *)
(* (a new hostname), and the entries read and never acknowledged are read  *)
(* again by the same hostname only.                                        *)
(*                                                                         *)
(* The steps of a task, substeps included, are numbered in the order of    *)
(* processone's walk; End[s] is the last step of the list that s is in,    *)
(* with the substeps of that list.  Every task of the program has a group; *)
(* without one the client's key of a record (client.go:60) would not be    *)
(* the server's (server.go:193).                                           *)
(***************************************************************************)
EXTENDS Integers, Sequences, FiniteSets

CONSTANTS Tasks,        \* the tasks clients submit, all of one shape
          Workers,      \* hostnames of the worker pods
          Slots,        \* goroutine identifiers of a worker: a bound
          Concurrency,  \* deliveries one subscription handles at a time
          N,            \* steps of a task
          End,          \* End[s]: the last step of s's list
          Functions,    \* the steps that name a function
          MaxFailures,  \* redis calls that fail: a bound
          MaxStops      \* restarts and replacements of workers: a bound

Steps == 1 .. N

ASSUME ShapeAssumption ==
    /\ N \in Nat \ {0}
    /\ End \in [Steps -> Steps]
    /\ \A s \in Steps : s <= End[s]
    /\ \A r, s \in Steps : r < s /\ s <= End[r] => End[s] <= End[r]
    /\ Functions \subseteq Steps
ASSUME BoundAssumption ==
    /\ IsFiniteSet(Workers) /\ IsFiniteSet(Slots)
    /\ Concurrency \in Nat /\ MaxFailures \in Nat /\ MaxStops \in Nat

VARIABLES client,   \* client[t]: how far SubmitTask of t is
          store,    \* store[t]: the record of t in the key-value store
          stream,   \* the entries ever added to the stream
          read,     \* entries already handed to some consumer of the group
          pending,  \* pending[w]: entries w was handed and has not acknowledged
          sub,      \* sub[w]: what w's subscription does next
          batch,    \* batch[w]: entries of the last reply not started yet
          go,       \* go[w][g]: the goroutines handling deliveries
          failures, \* redis calls that have failed
          stops,    \* workers that have been stopped
          done,     \* history: functions of t that returned without error
          calls,    \* history: how often each step's function was called
          again,    \* history: how often an entry of t was read again
          lost      \* history: tasks whose last write or whose queue entry is gone

vars == <<client, store, stream, read, pending, sub, batch, go, failures, stops,
          done, calls, again, lost>>
redis == <<store, stream, read, pending>>

Codes == {"", "Running", "Success", "Error"}
Copy == [Steps -> Codes]
Fresh == [s \in Steps |-> ""]
NoTask == [status |-> "none", step |-> Fresh]
Record == [status : {"Pending", "Success", "Error"}, step : Copy]
Entry == [task : Tasks, step : Copy]

(* A goroutine that handles entry `id`: it walks the steps of its copy from *)
(* `at`, calls the function of `at`, or has only the entry to acknowledge.  *)
(* It is old when the subscription that started it has failed meanwhile.    *)
Idle == [pc |-> "idle", id |-> 0, step |-> Fresh, at |-> 1, old |-> FALSE]
Goroutine == [pc : {"idle", "walk", "call", "ack"}, id : Nat, step : Copy,
              at : 1 .. N + 1, old : BOOLEAN]

TypeOK ==
    /\ client \in [Tasks -> {"new", "stored", "queued", "refused"}]
    /\ store \in [Tasks -> Record \cup {NoTask}]
    /\ stream \in Seq(Entry)
    /\ read \in 0 .. Len(stream)
    /\ pending \in [Workers -> SUBSET (1 .. Len(stream))]
    /\ sub \in [Workers -> {"down", "pending", "new", "gone"}]
    /\ batch \in [Workers -> SUBSET (1 .. Len(stream))]
    /\ go \in [Workers -> [Slots -> Goroutine]]
    /\ \A w \in Workers, g \in Slots :
          go[w][g].pc # "idle" => go[w][g].id \in 1 .. Len(stream)
    /\ failures \in 0 .. MaxFailures
    /\ stops \in 0 .. MaxStops
    /\ done \in [Tasks -> SUBSET Steps]
    /\ calls \in [Tasks -> [Steps -> Nat]]
    /\ again \in [Tasks -> Nat]
    /\ lost \subseteq Tasks

Init ==
    /\ client = [t \in Tasks |-> "new"]
    /\ store = [t \in Tasks |-> NoTask]
    /\ stream = <<>>
    /\ read = 0
    /\ pending = [w \in Workers |-> {}]
    /\ sub = [w \in Workers |-> "down"]
    /\ batch = [w \in Workers |-> {}]
    /\ go = [w \in Workers |-> [g \in Slots |-> Idle]]
    /\ failures = 0
    /\ stops = 0
    /\ done = [t \in Tasks |-> {}]
    /\ calls = [t \in Tasks |-> [s \in Steps |-> 0]]
    /\ again = [t \in Tasks |-> 0]
    /\ lost = {}

-------------------------------------------------------------------------------
(* The goroutine g of w is as r says; it handles what it did, at a place. *)
Becomes(w, g, r) == go' = [go EXCEPT ![w][g] = r]
MovesTo(w, g, pc, steps, at) ==
    Becomes(w, g, [pc |-> pc, id |-> go[w][g].id, step |-> steps, at |-> at,
                   old |-> go[w][g].old])

(* A call succeeds, or fails within the bound. *)
Outcome(ok) ==
    /\ failures' = IF ok THEN failures ELSE failures + 1
    /\ failures' <= MaxFailures
    /\ UNCHANGED stops

Put(t, status, steps, ok) ==
    store' = IF ok THEN [store EXCEPT ![t] = [status |-> status, step |-> steps]]
                   ELSE store
Pub(t, steps, lands) ==
    stream' = IF lands THEN Append(stream, [task |-> t, step |-> steps])
                       ELSE stream

(* SubmitTask: the record is stored, then the task is published. *)
SubmitPut(t, ok) ==
    /\ client[t] = "new"
    /\ Outcome(ok)
    /\ Put(t, "Pending", Fresh, ok)
    /\ client' = [client EXCEPT ![t] = IF ok THEN "stored" ELSE "refused"]
    /\ UNCHANGED <<stream, read, pending, sub, batch, go, done, calls, again, lost>>

(* The reply of a publication may be lost although the entry was added. *)
SubmitPub(t, ok, lands) ==
    /\ client[t] = "stored"
    /\ ok => lands
    /\ Outcome(ok)
    /\ Pub(t, Fresh, lands)
    /\ client' = [client EXCEPT ![t] = IF ok THEN "queued" ELSE "refused"]
    /\ UNCHANGED <<store, read, pending, sub, batch, go, done, calls, again, lost>>

(* RemoveTask, whose only caller is the archiver: any record of a task that *)
(* was created five days ago, also of one that is not over.                 *)
Remove(t) ==
    /\ store[t] # NoTask
    /\ store' = [store EXCEPT ![t] = NoTask]
    /\ UNCHANGED <<client, stream, read, pending, sub, batch, go, failures, stops,
                   done, calls, again, lost>>

-------------------------------------------------------------------------------
(* The subscription of a worker *)

Start(w) ==
    /\ sub[w] = "down"
    /\ sub' = [sub EXCEPT ![w] = "pending"]
    /\ UNCHANGED <<client, redis, batch, go, failures, stops, done, calls, again, lost>>

OfTask(ids, t) == {i \in ids : stream[i].task = t}

(* Mutant: only new entries are ever asked for. *)
ReadNothing(w) ==
    /\ sub[w] = "pending"
    /\ sub' = [sub EXCEPT ![w] = "new"]
    /\ UNCHANGED <<client, redis, batch, go, failures, stops, done, calls, again, lost>>

(* The first read asks for the entries this hostname has not acknowledged. *)
ReadPending(w) ==
    /\ sub[w] = "pending"
    /\ sub' = [sub EXCEPT ![w] = "new"]
    /\ batch' = [batch EXCEPT ![w] = pending[w]]
    /\ again' = [t \in Tasks |-> again[t] + Cardinality(OfTask(pending[w], t))]
    /\ UNCHANGED <<client, redis, go, failures, stops, done, calls, lost>>

(* Mutant: each hostname is a group of its own and is handed every entry. *)
DeliverToAll(w, n) ==
    /\ pending' = [pending EXCEPT ![w] = @ \cup (read + 1 .. n)]
    /\ UNCHANGED read

(* Entries up to n are handed to w. *)
Deliver(w, n) ==
    /\ pending' = [pending EXCEPT ![w] = @ \cup (read + 1 .. n)]
    /\ read' = n

(* Later reads block until there are new entries, and take them all. *)
ReadNew(w) ==
    /\ sub[w] = "new" /\ batch[w] = {} /\ read < Len(stream)
    /\ Deliver(w, Len(stream))
    /\ batch' = [batch EXCEPT ![w] = read + 1 .. Len(stream)]
    /\ UNCHANGED <<client, store, stream, sub, go, failures, stops, done, calls, again, lost>>

(* A read fails, perhaps after redis handed the entries out: Sub returns,   *)
(* its goroutines go on, and Run subscribes again, from the pending entries.*)
ReadFails(w, n) ==
    /\ sub[w] = "new" /\ batch[w] = {}
    /\ n \in {read, Len(stream)}
    /\ Outcome(FALSE)
    /\ Deliver(w, n)
    /\ sub' = [sub EXCEPT ![w] = "pending"]
    /\ go' = [go EXCEPT ![w] = [g \in Slots |->
                 IF @[g].pc = "idle" THEN Idle ELSE [@[g] EXCEPT !.old = TRUE]]]
    /\ UNCHANGED <<client, store, stream, batch, done, calls, again, lost>>

Busy(w) == {g \in Slots : go[w][g].pc # "idle" /\ ~go[w][g].old}

(* The next entry of the reply gets a goroutine when one may start; they    *)
(* are alike, and which of the free ones makes no difference.               *)
Dispatch(w, g) ==
    /\ Cardinality(Busy(w)) < Concurrency
    /\ go[w][g].pc = "idle" /\ g = CHOOSE h \in Slots : go[w][h].pc = "idle"
    /\ \E id \in batch[w] :
          /\ \A j \in batch[w] : id <= j
          /\ Becomes(w, g, [pc |-> "walk", id |-> id, step |-> stream[id].step,
                            at |-> 1, old |-> FALSE])
          /\ batch' = [batch EXCEPT ![w] = @ \ {id}]
    /\ UNCHANGED <<client, redis, sub, failures, stops, done, calls, again, lost>>

-------------------------------------------------------------------------------
(* One delivery: consume, process and processone *)

TaskOf(w, g) == stream[go[w][g].id].task
Failed(steps) == \E s \in Steps : steps[s] = "Error"

(* Mutant: substeps are not asked. *)
AllFinishedTop(steps) == \A s \in Steps : End[s] = N => steps[s] = "Success"
AllFinished(steps) == \A s \in Steps : steps[s] = "Success"

(* The step the walk does next: the first from `at` on that is not done *)
IsNext(w, g, s) ==
    /\ s >= go[w][g].at
    /\ go[w][g].step[s] # "Success"
    /\ \A r \in Steps : r >= go[w][g].at /\ r < s => go[w][g].step[r] = "Success"

Walked(w, g) ==
    \/ Failed(go[w][g].step)
    \/ \A s \in Steps : s >= go[w][g].at => go[w][g].step[s] = "Success"

(* A step is stored as Running; one without a function is done at once. *)
StartStep(w, g, s, ok) ==
    LET running == [go[w][g].step EXCEPT ![s] = "Running"]
        calling == s \in Functions
    IN
    /\ go[w][g].pc = "walk" /\ ~Failed(go[w][g].step) /\ IsNext(w, g, s)
    /\ Outcome(ok)
    /\ Put(TaskOf(w, g), "Pending", running, ok)
    /\ IF calling THEN MovesTo(w, g, "call", running, s)
       ELSE MovesTo(w, g, "walk", [go[w][g].step EXCEPT ![s] = "Success"], s + 1)
    /\ calls' = IF calling THEN [calls EXCEPT ![TaskOf(w, g)][s] = @ + 1] ELSE calls
    /\ UNCHANGED <<client, stream, read, pending, sub, batch, done, again, lost>>

(* Mutant: the next step is left out. *)
ResumePast(s, code) == IF code = "Success" THEN End[s] + 2 ELSE s

(* Where the walk goes on after a function *)
Resume(s, code) == IF code = "Success" THEN End[s] + 1 ELSE s

(* The function returns; after success the rest of the step's list is left  *)
(* for a later delivery, but the list above it is walked on.                *)
Return(w, g, code, ok) ==
    LET s == go[w][g].at
        steps == [go[w][g].step EXCEPT ![s] = code]
    IN
    /\ go[w][g].pc = "call"
    /\ code \in {"Success", "Error"}
    /\ Outcome(ok)
    /\ Put(TaskOf(w, g), "Pending", steps, ok)
    /\ MovesTo(w, g, "walk", steps, Resume(s, code))
    /\ done' = IF code = "Success" THEN [done EXCEPT ![TaskOf(w, g)] = @ \cup {s}]
                                   ELSE done
    /\ UNCHANGED <<client, stream, read, pending, sub, batch, calls, again, lost>>

(* The walk is over: the task is finished, with an error or with success... *)
Finish(w, g, ok) ==
    LET steps == go[w][g].step IN
    /\ go[w][g].pc = "walk" /\ Walked(w, g)
    /\ Failed(steps) \/ AllFinished(steps)
    /\ Outcome(ok)
    /\ Put(TaskOf(w, g), IF Failed(steps) THEN "Error" ELSE "Success", steps, ok)
    /\ lost' = IF ok THEN lost ELSE lost \cup {TaskOf(w, g)}
    /\ MovesTo(w, g, "ack", steps, go[w][g].at)
    /\ UNCHANGED <<client, stream, read, pending, sub, batch, done, calls, again>>

(* Mutant: a task that failed is queued again. *)
RequeueFailed(w, g, ok) ==
    LET steps == go[w][g].step IN
    /\ go[w][g].pc = "walk" /\ Walked(w, g)
    /\ ~AllFinished(steps)
    /\ Outcome(ok)
    /\ Pub(TaskOf(w, g), [s \in Steps |-> IF steps[s] = "Error" THEN "" ELSE steps[s]], ok)
    /\ lost' = IF ok THEN lost ELSE lost \cup {TaskOf(w, g)}
    /\ MovesTo(w, g, "ack", steps, go[w][g].at)
    /\ UNCHANGED <<client, store, read, pending, sub, batch, done, calls, again>>

(* ... or is queued again; an error of the publication is ignored. *)
Requeue(w, g, ok) ==
    LET steps == go[w][g].step IN
    /\ go[w][g].pc = "walk" /\ Walked(w, g)
    /\ ~Failed(steps) /\ ~AllFinished(steps)
    /\ Outcome(ok)
    /\ Pub(TaskOf(w, g), steps, ok)
    /\ lost' = IF ok THEN lost ELSE lost \cup {TaskOf(w, g)}
    /\ MovesTo(w, g, "ack", steps, go[w][g].at)
    /\ UNCHANGED <<client, store, read, pending, sub, batch, done, calls, again>>

Ack(w, g, ok) ==
    /\ go[w][g].pc = "ack"
    /\ Outcome(ok)
    /\ pending' = IF ok THEN [pending EXCEPT ![w] = @ \ {go[w][g].id}] ELSE pending
    /\ Becomes(w, g, Idle)
    /\ UNCHANGED <<client, store, stream, read, sub, batch, done, calls, again, lost>>

-------------------------------------------------------------------------------
Stop(w, state) ==
    /\ sub[w] \in {"pending", "new"}
    /\ stops < MaxStops /\ stops' = stops + 1
    /\ sub' = [sub EXCEPT ![w] = state]
    /\ batch' = [batch EXCEPT ![w] = {}]
    /\ go' = [go EXCEPT ![w] = [g \in Slots |-> Idle]]
    /\ UNCHANGED <<client, redis, failures, done, calls, again>>

(* A delivery that ends here and whose entry was acknowledged meanwhile, by *)
(* another goroutine that was handed the same entry                         *)
Unclaimed(w) == {TaskOf(w, g) : g \in {h \in Slots :
                    go[w][h].pc # "idle" /\ go[w][h].id \notin pending[w]}}

(* The container of a worker ends; it is started again under its hostname. *)
Crash(w) == Stop(w, "down") /\ lost' = lost \cup Unclaimed(w)

(* The pod of a worker is replaced while another one is there: nobody asks  *)
(* for the entries of its hostname again.                                   *)
Replace(w) ==
    /\ \E v \in Workers \ {w} : sub[v] # "gone"
    /\ Stop(w, "gone")
    /\ lost' = lost \cup Unclaimed(w) \cup {t \in Tasks : OfTask(pending[w], t) # {}}

Handle(w, g) ==
    \/ \E s \in Steps, ok \in BOOLEAN : StartStep(w, g, s, ok)
    \/ \E code \in {"Success", "Error"}, ok \in BOOLEAN : Return(w, g, code, ok)
    \/ \E ok \in BOOLEAN : Finish(w, g, ok) \/ Requeue(w, g, ok) \/ Ack(w, g, ok)

(* What a worker does by itself *)
Work(w) ==
    \/ Start(w) \/ ReadPending(w) \/ ReadNew(w)
    \/ \E g \in Slots : Dispatch(w, g) \/ Handle(w, g)

Next ==
    \/ \E t \in Tasks :
          \/ \E ok \in BOOLEAN : SubmitPut(t, ok)
          \/ \E ok, lands \in BOOLEAN : SubmitPub(t, ok, lands)
          \/ Remove(t)
    \/ \E w \in Workers :
          \/ Work(w)
          \/ \E n \in {read, Len(stream)} : ReadFails(w, n)
          \/ Crash(w)
          \/ Replace(w)

Spec == Init /\ [][Next]_vars

(* Workers run, redis answers and the functions of the steps return (each   *)
(* is given a context with a timeout); nobody has to submit anything.       *)
Fairness == \A w \in Workers : WF_vars(Work(w))

FairSpec == Spec /\ Fairness

-------------------------------------------------------------------------------
Finished(t) == store[t].status \in {"Success", "Error"}
Says == [t \in Tasks |-> store[t].status]

(* The queue implements TaskOrder: in whatever order deliveries, restarts   *)
(* and repeated deliveries interleave, functions succeed in the order of    *)
(* their lists and no record says Success too early (server.go:91-187).     *)
Order == INSTANCE TaskOrder WITH outcome <- Says
ImplementsOrder == Order!Spec

(* A step's function is called at most once, and once more for each time    *)
(* an entry of the task was read again: repeated deliveries do not multiply *)
(* by themselves (backend.go:116-137, server.go:88-95).                     *)
CalledOnce == \A t \in Tasks, s \in Steps : calls[t][s] <= 1 + again[t]

(* The record of a finished task is not written again, unless one of its    *)
(* entries was read again: nothing of the task is left in the queue         *)
(* (server.go:97-120).                                                      *)
FinishedIsFinal ==
    [][\A t \in Tasks : Finished(t) /\ again'[t] = 0 => store'[t] \in {store[t], NoTask}]_vars

(* A published task ends, and its record says so or was removed, unless the *)
(* write of the outcome or of the queue failed or the pod that held it was  *)
(* replaced: restarts and failed reads lose nothing (backend.go:106-160).   *)
Settles ==
    \A t \in Tasks : <>[](client[t] = "queued" =>
                             t \in lost \/ Finished(t) \/ store[t] = NoTask)
===============================================================================
