-------------------------------- MODULE Plugin --------------------------------
(***************************************************************************)
(* The plugin installer of one cluster.  Users install, disable and remove *)
(* plugins; a controller with a worker per plugin works on the copies of   *)
(* its cache: it waits for the plugins a plugin depends on, takes values   *)
(* from the config map another plugin renders, brings the resources of the *)
(* plugin to the cluster, and writes the status, from which the next       *)
(* reconcile decides what there is to do.  A bundle is applied one         *)
(* resource at a time by the installer itself (native, and alike kustomize *)
(* and template), or by helm, which keeps a release of its own.            *)
(***************************************************************************)
EXTENDS Naturals

CONSTANTS Plugins,
          Names,         \* resources of a plugin, each plugin has its own
          Specs,         \* versions and values that users ask for
          Renders,       \* Renders[p][s]: the resources a spec of p renders
          Dependencies,  \* Dependencies[p]: plugins that p's spec names
          Source,        \* Source[p]: the plugin whose config map p reads
          ConfigMap,     \* the resource that others read
          Initial,       \* Initial[p]: the specs p may be installed at in the beginning
          Kinds,         \* Kinds[p]: how p may be bundled
          Absent,        \* nothing there
          MaxEdits,      \* bound: requests of users
          MaxFaults      \* bound: failed calls and crashes of the controller

ASSUME PluginAssumption ==
    /\ Renders \in [Plugins -> [Specs -> SUBSET Names]]
    /\ Dependencies \in [Plugins -> SUBSET Plugins]
    /\ Source \in [Plugins -> Plugins \cup {Absent}]
    /\ Absent \notin Plugins /\ Absent \notin Specs
    /\ Initial \in [Plugins -> SUBSET Specs]
    /\ ConfigMap \in Names
    /\ Kinds \in [Plugins -> SUBSET {"native", "helm"}]
    /\ MaxEdits \in Nat /\ MaxFaults \in Nat

VARIABLES kind,     \* kind[p]: how p is bundled, which does not change
          obj,      \* obj[p]: the Plugin object
          live,     \* live[p][n]: what the cluster has of resource n of p
          release,  \* release[p]: helm's records of p: its newest, and the one deployed
          seen,     \* seen[p]: the cached copy of obj[p]
          known,    \* known[p]: the cached copy of p's config map
          queue,    \* plugins to reconcile
          work,     \* work[p]: the reconcile of p in progress
          edits,    \* requests of users so far
          faults,   \* failed calls and crashes so far
          untold,   \* history: untold[p], what a sync that failed made, or one of
                    \* which the status was never written changed
          lost      \* history: lost[p], what helm made and has no record of

vars == <<kind, obj, live, release, seen, known, queue, work, edits, faults, untold, lost>>
cache == <<seen, known>>
bounds == <<edits, faults>>
histories == <<untold, lost>>

(* What a resource was rendered from: a spec and the values read *)
Content == [spec : Specs, vals : Specs \cup {Absent}]
NoContent == [spec |-> Absent, vals |-> Absent]
Contents == Content \cup {NoContent}

Status == [phase : {"", "Installed", "Failed", "Disabled"}, at : Contents,
           res : SUBSET Names, observed : Nat]
Fresh == [phase |-> "", at |-> NoContent, res |-> {}, observed |-> 0]
Object == [gen : Nat, spec : Specs, off : BOOLEAN, deleting : BOOLEAN, fin : BOOLEAN,
           status : Status]
NoObject == [gen |-> 0]

(* Helm's newest record of a release, what the record that is deployed was  *)
(* rendered from, if there is one, and whether the newest has a forerunner. *)
Release == [is : {"none", "deployed", "failed", "pending", "uninstalling"},
            at : Contents, base : Contents, older : BOOLEAN]
NoRelease == [is |-> "none", at |-> NoContent, base |-> NoContent, older |-> FALSE]
Deployed(c, older) == [is |-> "deployed", at |-> c, base |-> c, older |-> older]

(* A reconcile holds a copy of the object and what it is to apply; it works *)
(* on the resources, or has helm do it, and then writes a status.           *)
Idle == [pc |-> "idle", touched |-> {}]
Reconcile == [pc : {"hold", "unhold", "sync", "helm", "helming"},
              copy : Object, new : Contents,
              put : SUBSET Names, drop : SUBSET Names,    \* left to write, to delete
              touched : SUBSET Names,                     \* seen to
              err : BOOLEAN]

TypeOK ==
    /\ kind \in [Plugins -> {"native", "helm"}]
    /\ obj \in [Plugins -> Object \cup {NoObject}]
    /\ live \in [Plugins -> [Names -> Contents]]
    /\ release \in [Plugins -> Release]
    /\ seen \in [Plugins -> Object \cup {NoObject}]
    /\ known \in [Plugins -> Contents]
    /\ queue \subseteq Plugins
    /\ work \in [Plugins -> Reconcile \cup {Idle}]
    /\ edits \in 0 .. MaxEdits
    /\ faults \in 0 .. MaxFaults
    /\ untold \in [Plugins -> SUBSET Names]
    /\ lost \in [Plugins -> SUBSET Names]

Manifest(p, c) == IF c = NoContent THEN {} ELSE Renders[p][c.spec]
Rendered(p, c) == [n \in Names |-> IF n \in Manifest(p, c) THEN c ELSE NoContent]

(* An installed plugin *)
Standing(p, c) ==
    [gen |-> 1, spec |-> c.spec, off |-> FALSE, deleting |-> FALSE, fin |-> TRUE,
     status |-> [phase |-> "Installed", at |-> c, res |-> Renders[p][c.spec], observed |-> 1]]

(* The controller starts where plugins may have been installed, after those *)
(* they depend on.                                                          *)
InitAt(at) ==
    /\ \A p \in Plugins : at[p] # NoContent =>
          /\ at[p].spec \in Initial[p]
          /\ \A d \in Dependencies[p] \cup ({Source[p]} \ {Absent}) : at[d] # NoContent
          /\ at[p].vals = IF Source[p] = Absent THEN Absent ELSE at[Source[p]].spec
    /\ obj = [p \in Plugins |-> IF at[p] = NoContent THEN NoObject ELSE Standing(p, at[p])]
    /\ live = [p \in Plugins |-> Rendered(p, at[p])]
    /\ \E older \in BOOLEAN :
          release = [p \in Plugins |-> IF kind[p] = "native" \/ at[p] = NoContent THEN NoRelease
                                       ELSE Deployed(at[p], older)]

Init ==
    /\ kind \in [Plugins -> {"native", "helm"}]
    /\ \A p \in Plugins : kind[p] \in Kinds[p]
    /\ \E at \in [Plugins -> Contents] : InitAt(at)
    /\ seen = obj
    /\ known = [p \in Plugins |-> live[p][ConfigMap]]
    /\ queue = {}
    /\ work = [p \in Plugins |-> Idle]
    /\ edits = 0
    /\ faults = 0
    /\ untold = [p \in Plugins |-> {}]
    /\ lost = [p \in Plugins |-> {}]

Outcome(ok) ==
    /\ faults' = IF ok THEN faults ELSE faults + 1
    /\ faults' <= MaxFaults

-------------------------------------------------------------------------------
(* The users *)

Edit(p, o) ==
    /\ edits < MaxEdits /\ edits' = edits + 1
    /\ obj' = [obj EXCEPT ![p] = o]
    /\ UNCHANGED <<kind, live, release, cache, queue, work, faults, histories>>

(* PluginManager.Install: a plugin that is there gets the new spec, which   *)
(* enables it; one that is being removed too.                               *)
Install(p, s) ==
    LET o == obj[p] IN
    Edit(p, IF o = NoObject
            THEN [gen |-> 1, spec |-> s, off |-> FALSE, deleting |-> FALSE, fin |-> FALSE,
                  status |-> Fresh]
            ELSE IF o.spec = s /\ ~o.off THEN o
            ELSE [o EXCEPT !.gen = @ + 1, !.spec = s, !.off = FALSE])

Disable(p) ==
    /\ obj[p] # NoObject /\ ~obj[p].off
    /\ Edit(p, [obj[p] EXCEPT !.gen = @ + 1, !.off = TRUE])

(* Without the finalizer the object goes at once. *)
UnInstall(p) ==
    /\ obj[p] # NoObject /\ ~obj[p].deleting
    /\ Edit(p, IF obj[p].fin THEN [obj[p] EXCEPT !.gen = @ + 1, !.deleting = TRUE]
               ELSE NoObject)

-------------------------------------------------------------------------------
(* The controller's cache and queue *)

Watch(p) ==
    /\ seen[p] # obj[p]
    /\ seen' = [seen EXCEPT ![p] = obj[p]]
    /\ queue' = queue \cup {p}
    /\ UNCHANGED <<kind, obj, live, release, known, work, bounds, histories>>

(* Mutant: nobody is told of a config map. *)
TellNobody(q) == {}

(* Mutant: who is referred to is told, not who refers. *)
TellReferred(q) == {Source[p] : p \in {r \in Plugins : seen[r] # NoObject}}

(* ConfigMapOrSecretTrigger asks the cache who reads the config map. *)
Readers(q) == {p \in Plugins : Source[p] = q /\ seen[p] # NoObject}

WatchConfigMap(q) ==
    /\ known[q] # live[q][ConfigMap]
    /\ known' = [known EXCEPT ![q] = live[q][ConfigMap]]
    /\ queue' = queue \cup Readers(q)
    /\ UNCHANGED <<kind, obj, live, release, seen, work, bounds, histories>>

-------------------------------------------------------------------------------
(* Reconcile *)

Become(p, w) == work' = [work EXCEPT ![p] = w]

Removing(o) == o.off \/ o.deleting

(* checkDepenency *)
Unmet(p) == {d \in Dependencies[p] : seen[d] = NoObject \/ seen[d].status.phase # "Installed"}

(* resolveValuesRef: the config map must be there. *)
Unresolved(p) == Source[p] # Absent /\ known[Source[p]] = NoContent
Wanted(p, o) ==
    [spec |-> o.spec, vals |-> IF Source[p] = Absent THEN Absent ELSE known[Source[p]].spec]

(* Mutant: the values read are not compared. *)
AppliedVersion(p, o, c) ==
    /\ o.status.phase = "Installed" /\ o.status.at.spec = c.spec
    /\ o.status.res = Renders[p][c.spec]

(* What native.Apply takes for applied: the status says so. *)
Applied(p, o, c) ==
    /\ o.status.phase = "Installed" /\ o.status.at = c
    /\ o.status.res = Renders[p][c.spec]

Begin(p, pc, c, put, drop, err) ==
    Become(p, [pc |-> pc, copy |-> seen[p], new |-> c, put |-> put, drop |-> drop,
               touched |-> {}, err |-> err])

(* A plugin without the finalizer gets it first; one that is being removed  *)
(* loses it when its status is Disabled.                                    *)
BeginHold(p, o) ==
    \/ ~o.deleting /\ ~o.fin /\ Begin(p, "hold", NoContent, {}, {}, FALSE)
    \/ o.deleting /\ o.fin /\ o.status.phase = "Disabled"
       /\ Begin(p, "unhold", NoContent, {}, {}, FALSE)

(* Sync of a plugin that is to go: native.Remove deletes what the status    *)
(* lists; helm's Remove believes a status that says Disabled.               *)
BeginRemove(p, o) ==
    /\ o.fin /\ Removing(o) /\ ~(o.deleting /\ o.status.phase = "Disabled")
    /\ IF kind[p] = "native" THEN Begin(p, "sync", NoContent, {}, o.status.res, FALSE)
       ELSE Begin(p, IF o.status.phase = "Disabled" THEN "sync" ELSE "helm",
                  NoContent, {}, {}, FALSE)

(* Sync of a plugin that is to be there; fetching its bundle may fail.      *)
BeginApply(p, o, ok) ==
    LET c == Wanted(p, o)
        names == Renders[p][c.spec]
    IN
    /\ o.fin /\ ~Removing(o)
    /\ IF ~ok \/ Unmet(p) # {} \/ Unresolved(p) THEN Begin(p, "sync", NoContent, {}, {}, TRUE)
       ELSE IF kind[p] = "helm" THEN Begin(p, "helm", c, {}, {}, FALSE)
       ELSE IF Applied(p, o, c) THEN Begin(p, "sync", c, {}, {}, FALSE)
       ELSE Begin(p, "sync", c, names, o.status.res \ names, FALSE)

Take(p, ok) ==
    /\ work[p] = Idle /\ p \in queue
    /\ queue' = queue \ {p}
    /\ Outcome(ok)
    /\ \/ ok /\ seen[p] = NoObject /\ UNCHANGED work
       \/ ok /\ seen[p] # NoObject /\ (BeginHold(p, seen[p]) \/ BeginRemove(p, seen[p]))
       \/ seen[p] # NoObject /\ BeginApply(p, seen[p], ok)
    /\ UNCHANGED <<kind, obj, live, release, cache, edits, histories>>

(* An update of the object of which the worker has a copy: it is refused    *)
(* when the object has changed since, and any error brings p back.          *)
Update(p, o, again, ok) ==
    LET lands == ok /\ obj[p] = work[p].copy IN
    /\ Outcome(ok)
    /\ obj' = IF lands THEN [obj EXCEPT ![p] = o] ELSE obj
    /\ queue' = IF lands /\ ~again THEN queue ELSE queue \cup {p}
    /\ Become(p, Idle)

AddFinalizer(p, ok) ==
    /\ work[p].pc = "hold"
    /\ Update(p, [work[p].copy EXCEPT !.fin = TRUE], TRUE, ok)
    /\ UNCHANGED <<kind, live, release, cache, edits, histories>>

RemoveFinalizer(p, ok) ==
    /\ work[p].pc = "unhold"
    /\ Update(p, NoObject, FALSE, ok)
    /\ UNCHANGED <<kind, live, release, cache, edits, histories>>

(* SyncDiff creates what the status does not list, then applies the rest,   *)
(* then deletes, and goes on when a resource fails.                         *)
Due(w) ==
    LET new == w.put \ w.copy.status.res IN
    IF new # {} THEN new ELSE IF w.put # {} THEN w.put ELSE w.drop

SyncOne(p, n, lands, ok) ==
    LET w == work[p] IN
    /\ w.pc = "sync" /\ n \in Due(w)
    /\ ok => lands
    /\ Outcome(ok)
    /\ live' = IF lands THEN [live EXCEPT ![p][n] = IF n \in w.put THEN w.new ELSE NoContent]
                        ELSE live
    /\ Become(p, [w EXCEPT !.put = @ \ {n}, !.drop = @ \ {n}, !.err = @ \/ ~ok,
                           !.touched = IF lands THEN @ \cup {n} ELSE @])
    /\ UNCHANGED <<kind, obj, release, cache, queue, edits, histories>>

(* Helm's calls *)

HelmReturns(p, err) ==
    Become(p, [work[p] EXCEPT !.pc = "sync", !.put = {}, !.drop = {}, !.touched = Names,
                              !.err = err])

(* removeHistories leaves two records, and deletes one that is alone unless *)
(* it is deployed.                                                          *)
Forgets(r) == r # NoRelease /\ ~r.older /\ r.is # "deployed"

(* Helm upgrades what is deployed, or else a failed release, and nothing    *)
(* while a change of the release is pending.                                *)
Refuses(r) == r.is = "pending" \/ (r.base = NoContent /\ r.is # "failed")
Current(r) == IF r.base # NoContent THEN r.base ELSE r.at

(* What the newest record names and the deployed one does not is forgotten  *)
(* with a new record, unless that names it.                                 *)
HelmChange(p, from) ==
    LET w == work[p]
        r == release[p]
        new == Manifest(p, w.new)
    IN
    /\ release' = [release EXCEPT ![p] = [is |-> "pending", at |-> w.new, base |-> r.base,
                                          older |-> r # NoRelease]]
    /\ Become(p, [w EXCEPT !.pc = "helming", !.put = new, !.drop = from \ new,
                           !.touched = Names])
    /\ lost' = [lost EXCEPT ![p] =
                   (lost[p] \cup (Manifest(p, r.at) \ Manifest(p, r.base))) \ new]

(* ApplyChart installs what has no release, leaves one that says what is    *)
(* asked for as it is, and upgrades any other, after removeHistories, whose *)
(* errors are ignored.                                                      *)
HelmInstall(p) ==
    /\ release[p] = NoRelease
    /\ HelmChange(p, {})
    /\ UNCHANGED faults

HelmLeaves(p) ==
    /\ release[p].is = "deployed" /\ release[p].at = work[p].new
    /\ HelmReturns(p, FALSE)
    /\ UNCHANGED <<release, faults, lost>>

HelmForgets(p) ==
    /\ Forgets(release[p])
    /\ release' = [release EXCEPT ![p] = NoRelease]
    /\ lost' = [lost EXCEPT ![p] = lost[p] \cup Manifest(p, release[p].at)]
    /\ HelmReturns(p, TRUE)
    /\ UNCHANGED faults

HelmRefuses(p) ==
    /\ release[p] # NoRelease /\ Refuses(release[p]) /\ ~Forgets(release[p])
    /\ HelmReturns(p, TRUE)
    /\ UNCHANGED <<release, faults, lost>>

HelmUpgrade(p) ==
    /\ release[p] # NoRelease /\ ~Refuses(release[p])
    /\ ~(release[p].is = "deployed" /\ release[p].at = work[p].new)
    /\ Outcome(~Forgets(release[p]))
    /\ HelmChange(p, Manifest(p, Current(release[p])))

HelmStart(p) ==
    /\ work[p].pc = "helm" /\ ~Removing(work[p].copy)
    /\ HelmInstall(p) \/ HelmLeaves(p) \/ HelmForgets(p) \/ HelmRefuses(p) \/ HelmUpgrade(p)
    /\ UNCHANGED <<kind, obj, live, cache, queue, edits, untold>>

(* The records cannot be read. *)
HelmFails(p) ==
    /\ work[p].pc = "helm"
    /\ Outcome(FALSE)
    /\ HelmReturns(p, TRUE)
    /\ UNCHANGED <<kind, obj, live, release, cache, queue, edits, histories>>

(* What the new manifest names is written, then what only that of the       *)
(* release upgraded names is deleted.                                       *)
HelmOne(p, n) ==
    LET w == work[p] IN
    /\ w.pc = "helming"
    /\ n \in (IF w.put # {} THEN w.put ELSE w.drop)
    /\ live' = [live EXCEPT ![p][n] = Rendered(p, w.new)[n]]
    /\ Become(p, [w EXCEPT !.put = w.put \ {n}, !.drop = w.drop \ {n}])
    /\ lost' = [lost EXCEPT ![p] = lost[p] \ {n}]
    /\ UNCHANGED <<kind, obj, release, cache, queue, bounds, untold>>

HelmEnd(p, ok) ==
    LET w == work[p] IN
    /\ w.pc = "helming"
    /\ ok => w.put = {} /\ w.drop = {}
    /\ Outcome(ok)
    /\ release' = [release EXCEPT ![p] = IF ok THEN Deployed(w.new, release[p].older)
                                         ELSE [release[p] EXCEPT !.is = "failed"]]
    /\ HelmReturns(p, ~ok)
    /\ UNCHANGED <<kind, obj, live, cache, queue, edits, histories>>

(* RemoveChart: no release is no error.  Helm deletes what the newest       *)
(* record names, and then all records.                                      *)
Uninstall(p, left, ok) ==
    LET r == release[p] IN
    /\ work[p].pc = "helm" /\ Removing(work[p].copy)
    /\ left \subseteq Manifest(p, r.at)
    /\ ok => left = {}
    /\ r = NoRelease => ok
    /\ Outcome(ok)
    /\ live' = [live EXCEPT ![p] = [n \in Names |->
                   IF n \in Manifest(p, r.at) \ left THEN NoContent ELSE live[p][n]]]
    /\ release' = [release EXCEPT ![p] =
                      IF ok THEN NoRelease
                      ELSE [r EXCEPT !.is = "uninstalling",
                                     !.base = IF r.is = "deployed" THEN NoContent ELSE r.base]]
    /\ lost' = [lost EXCEPT ![p] =
                   IF ok THEN lost[p] \cup (Manifest(p, r.base) \ Manifest(p, r.at)) ELSE lost[p]]
    /\ HelmReturns(p, ~ok)
    /\ UNCHANGED <<kind, obj, cache, queue, edits, untold>>

(* Mutant: the errors of a removal are only logged. *)
ResultAnyway(p, w) ==
    IF w.err /\ ~Removing(w.copy) THEN [w.copy.status EXCEPT !.phase = "Failed"]
    ELSE IF Removing(w.copy)
    THEN [w.copy.status EXCEPT !.phase = "Disabled", !.res = {}]
    ELSE [phase |-> "Installed", at |-> w.new, res |-> Renders[p][w.new.spec],
          observed |-> w.copy.gen]

(* The status after a sync: when anything failed, the list of what is there *)
(* stays as it was.                                                         *)
Result(p, w) ==
    IF w.err THEN [w.copy.status EXCEPT !.phase = "Failed"]
    ELSE IF Removing(w.copy)
    THEN [w.copy.status EXCEPT !.phase = "Disabled", !.res = IF kind[p] = "native" THEN {} ELSE @]
    ELSE [phase |-> "Installed", at |-> w.new, res |-> Renders[p][w.new.spec],
          observed |-> w.copy.gen]

(* The status is written, whether the sync failed or not. *)
WriteStatus(p, ok) ==
    LET w == work[p]
        lands == ok /\ obj[p] = w.copy
    IN
    /\ w.pc = "sync" /\ w.put = {} /\ w.drop = {}
    /\ Update(p, [w.copy EXCEPT !.status = Result(p, w)], w.err, ok)
    /\ untold' = [untold EXCEPT ![p] =
                     IF ~lands THEN @ \cup w.touched
                     ELSE IF w.err THEN @ \cup (w.touched \ w.copy.status.res)
                     ELSE @ \ w.touched]
    /\ UNCHANGED <<kind, live, release, cache, edits, lost>>

(* A restarted controller lists everything anew. *)
Crash ==
    /\ Outcome(FALSE)
    /\ untold' = [p \in Plugins |-> untold[p] \cup work[p].touched]
    /\ work' = [p \in Plugins |-> Idle]
    /\ seen' = obj
    /\ known' = [p \in Plugins |-> live[p][ConfigMap]]
    /\ queue' = {p \in Plugins : obj[p] # NoObject}
    /\ UNCHANGED <<kind, obj, live, release, edits, lost>>

Work(p) ==
    \/ HelmStart(p) \/ HelmFails(p)
    \/ \E n \in Names : HelmOne(p, n)
    \/ \E ok \in BOOLEAN :
          \/ Take(p, ok) \/ AddFinalizer(p, ok) \/ RemoveFinalizer(p, ok)
          \/ \E n \in Names, lands \in BOOLEAN : SyncOne(p, n, lands, ok)
          \/ \E left \in SUBSET Names : Uninstall(p, left, ok)
          \/ HelmEnd(p, ok) \/ WriteStatus(p, ok)

Next ==
    \/ \E p \in Plugins : \/ \E s \in Specs : Install(p, s)
                          \/ Disable(p) \/ UnInstall(p)
                          \/ Watch(p) \/ WatchConfigMap(p)
                          \/ Work(p)
    \/ Crash

Spec == Init /\ [][Next]_vars

(* The informers deliver and a worker per plugin works; users need not ask. *)
Fairness ==
    \A p \in Plugins : WF_vars(Watch(p)) /\ WF_vars(WatchConfigMap(p)) /\ WF_vars(Work(p))

FairSpec == Spec /\ Fairness

-------------------------------------------------------------------------------
Reported(p) == Names \ (untold[p] \cup lost[p] \cup work[p].touched)

(* "Bundle is installed" (types_plugin.go:150): a plugin whose stored phase *)
(* is Installed has the resources of the version and values its status      *)
(* names, with that content, and no others, through edits, stale copies,    *)
(* partial failures and restarts.  Three kinds of leftovers are excepted,   *)
(* which the code knows nothing of: what a sync that failed made, until one *)
(* that succeeds sees to it (native.go:62-87), what one changed of which    *)
(* the status was never written (controller.go:172-182), and what helm made *)
(* of which it deleted or passed over the record (helm-rls.go:124-125).     *)
InstalledIsThere ==
    \A p \in Plugins : obj[p] # NoObject /\ obj[p].status.phase = "Installed" =>
        \A n \in Reported(p) : live[p][n] = Rendered(p, obj[p].status.at)[n]

(* A plugin that is Disabled or gone has left nothing behind, under the     *)
(* same proviso (controller.go:160-170, native.go:89-102, apply.go:94-115). *)
RemovedIsGone ==
    \A p \in Plugins : obj[p] = NoObject \/ obj[p].status.phase = "Disabled" =>
        \A n \in Reported(p) : live[p][n] = NoContent

(* Once users and failures have ended every plugin is gone, Disabled as     *)
(* asked, Installed at the spec asked for and the values its source has, or *)
(* Failed for want of a dependency or of its values.  A helm release that   *)
(* was upgraded before is blocked for good when a restart interrupts a      *)
(* change of it, or when its removal fails and it is wanted again; one that *)
(* has a single record is not, for that is deleted (helm-rls.go:124-125,    *)
(* controller.go:136-271).                                                  *)
Rests(p) ==
    LET o == obj[p] IN
    \/ o = NoObject
    \/ o.off /\ ~o.deleting /\ o.status.phase = "Disabled"
    \/ /\ ~o.off /\ ~o.deleting /\ o.status.phase = "Installed" /\ o.status.observed = o.gen
       /\ o.status.at = [spec |-> o.spec, vals |-> IF Source[p] = Absent THEN Absent
                                                   ELSE live[Source[p]][ConfigMap].spec]
    \/ /\ o.status.phase = "Failed" /\ ~o.off /\ ~o.deleting
       /\ \/ \E d \in Dependencies[p] : obj[d] = NoObject \/ obj[d].status.phase # "Installed"
          \/ Source[p] # Absent /\ live[Source[p]][ConfigMap] = NoContent
          \/ release[p].older /\ Refuses(release[p])

Settles == \A p \in Plugins : <>[]Rests(p)
===============================================================================
