---------------------------- MODULE Plugin_proofs ----------------------------
(***************************************************************************)
(* Proofs about Plugin, for any plugins, resources, specs and bounds:      *)
(* TypeOK, InstalledIsThere and RemovedIsGone are invariants.  The         *)
(* inductive invariant says what a stored status stands for, what a helm   *)
(* release stands for, and what a reconcile in progress has seen to.       *)
(***************************************************************************)
EXTENDS Plugin, TLAPS

-----------------------------------------------------------------------------
(* The inductive invariant *)

\* Resource n of p is as it is rendered from c.
Is(p, n, c) == live[p][n] = Rendered(p, c)[n]

Gone(o) == o = NoObject \/ (o # NoObject /\ o.status.phase \in {"", "Disabled"})

\* What the stored status of p stands for, where it does not misreport.  What
\* a native plugin's status does not list is not there, also when it Failed.
Kept(p) ==
  /\ obj[p] # NoObject /\ ~obj[p].fin => obj[p].status.phase = ""
  /\ Gone(obj[p]) => \A n \in Reported(p) : live[p][n] = NoContent
  /\ obj[p] # NoObject /\ obj[p].status.phase = "Installed" =>
        \A n \in Reported(p) : Is(p, n, obj[p].status.at)
  /\ obj[p] # NoObject /\ kind[p] = "native" =>
        \A n \in Reported(p) \ obj[p].status.res : live[p][n] = NoContent

\* What helm's records of p stand for: apart from what it has lost, all that
\* is there is named by its newest or its deployed record, and a newest record
\* that is deployed is what there is.
ReleaseHolds(p) ==
  LET r == release[p] IN
  kind[p] = "helm" =>
     /\ \A n \in Names \ lost[p] : live[p][n] # NoContent =>
           n \in Manifest(p, r.at) \cup Manifest(p, r.base)
     /\ r.is = "deployed" => r.base = r.at /\ \A n \in Names \ lost[p] : Is(p, n, r.at)
     /\ Forgets(r) => r.base = NoContent

\* All that w touched is as w wants it, and what it has neither touched nor
\* left to do is as its copy of the status says.
SyncedNative(p, w) ==
  /\ \A n \in w.touched : Is(p, n, w.new)
  /\ \A n \in w.put : Rendered(p, w.new)[n] = w.new
  /\ \A n \in w.drop : Rendered(p, w.new)[n] = NoContent
  /\ \/ Applied(p, w.copy, w.new) /\ w.touched = {} /\ w.put = {} /\ w.drop = {}
     \/ \A n \in Names : n \in w.copy.status.res \/ Rendered(p, w.new)[n] # NoContent
                         => n \in w.put \cup w.drop \cup w.touched

SyncedHelm(p, w) ==
  \/ w.touched = Names /\ \A n \in Names \ lost[p] : Is(p, n, w.new)
  \/ w.touched = {} /\ Removing(w.copy) /\ w.copy.status.phase = "Disabled"

\* Where helm is with a change: what is neither left to do nor lost is as w
\* wants it.
Helming(p, w) ==
  /\ w.touched = Names /\ w.new # NoContent
  /\ release[p].is = "pending" /\ release[p].at = w.new
  /\ w.put \subseteq Manifest(p, w.new) /\ w.drop \cap Manifest(p, w.new) = {}
  /\ \A n \in Names \ (lost[p] \cup w.put \cup w.drop) : Is(p, n, w.new)

\* What a reconcile of p in progress has done.
Doing(p) ==
  LET w == work[p] IN
  /\ w.pc = "hold" => w.touched = {} /\ ~w.copy.fin
  /\ w.pc = "unhold" => w.touched = {} /\ w.copy.status.phase = "Disabled"
  /\ w.pc \in {"sync", "helm", "helming"} =>
        /\ w.copy.fin
        /\ ~w.err => (Removing(w.copy) <=> w.new = NoContent)
        /\ kind[p] = "helm" /\ w.pc # "helming" => w.put = {} /\ w.drop = {}
  /\ w.pc \in {"helm", "helming"} => kind[p] = "helm" /\ ~w.err
  /\ w.pc = "helm" => w.touched = {}
  /\ w.pc = "helming" => Helming(p, w)
  /\ w.pc = "sync" /\ ~w.err => IF kind[p] = "native" THEN SyncedNative(p, w) ELSE SyncedHelm(p, w)

Facts(p) == Kept(p) /\ ReleaseHolds(p) /\ Doing(p)

Inv == TypeOK /\ \A p \in Plugins : Facts(p)

-----------------------------------------------------------------------------
(* The types *)

LEMMA WorkType ==
  ASSUME TypeOK, NEW p \in Plugins, work[p].pc # "idle"
  PROVE  work[p] \in Reconcile
  BY DEF TypeOK, Idle

LEMMA ObjectType ==
  ASSUME TypeOK, NEW p \in Plugins
  PROVE  /\ obj[p] = NoObject \/ obj[p] \in Object
         /\ seen[p] = NoObject \/ seen[p] \in Object
  BY DEF TypeOK

LEMMA WantedType ==
  ASSUME TypeOK, NEW p \in Plugins, NEW o \in Object
  PROVE  Wanted(p, o) \in Content
  <1>1. o.spec \in Specs
    BY DEF Object
  <1>2. ASSUME Source[p] # Absent PROVE known[Source[p]].spec \in Specs \cup {Absent}
    BY <1>2, PluginAssumption DEF TypeOK, Contents, Content, NoContent
  <1>3. QED
    BY <1>1, <1>2 DEF Wanted, Content

LEMMA BeginType ==
  ASSUME TypeOK, NEW p \in Plugins, seen[p] # NoObject,
         NEW pc \in {"hold", "unhold", "sync", "helm", "helming"}, NEW c \in Contents,
         NEW put \in SUBSET Names, NEW drop \in SUBSET Names, NEW err \in BOOLEAN,
         Begin(p, pc, c, put, drop, err)
  PROVE  work' \in [Plugins -> Reconcile \cup {Idle}]
  <1>1. seen[p] \in Object
    BY ObjectType
  <1>2. [pc |-> pc, copy |-> seen[p], new |-> c, put |-> put, drop |-> drop,
         touched |-> {}, err |-> err] \in Reconcile
    BY <1>1 DEF Reconcile
  <1>3. QED
    BY <1>2 DEF Begin, Become, TypeOK

LEMMA TakeType ==
  ASSUME TypeOK, NEW p \in Plugins, NEW ok \in BOOLEAN, Take(p, ok)
  PROVE  TypeOK'
  <1>1. NoContent \in Contents /\ FALSE \in BOOLEAN /\ TRUE \in BOOLEAN /\ {} \in SUBSET Names
    BY DEF Contents
  <1>2. ASSUME seen[p] # NoObject
        PROVE  /\ seen[p] \in Object /\ seen[p].status.res \in SUBSET Names
               /\ Wanted(p, seen[p]) \in Contents /\ Renders[p][Wanted(p, seen[p]).spec] \in SUBSET Names
    <2>1. seen[p] \in Object
      BY <1>2, ObjectType
    <2>2. Wanted(p, seen[p]) \in Content
      BY <2>1, WantedType
    <2>3. Renders[p][Wanted(p, seen[p]).spec] \in SUBSET Names
      BY <2>2, PluginAssumption DEF Content
    <2>4. QED
      BY <2>1, <2>2, <2>3 DEF Object, Status, Contents
  <1>3. ASSUME seen[p] # NoObject, BeginHold(p, seen[p]) PROVE work' \in [Plugins -> Reconcile \cup {Idle}]
    BY <1>1, <1>3, BeginType DEF BeginHold
  <1>4. ASSUME seen[p] # NoObject, BeginRemove(p, seen[p]) PROVE work' \in [Plugins -> Reconcile \cup {Idle}]
    BY <1>1, <1>2, <1>4, BeginType DEF BeginRemove
  <1>5. ASSUME seen[p] # NoObject, BeginApply(p, seen[p], ok) PROVE work' \in [Plugins -> Reconcile \cup {Idle}]
    <2>1. seen[p].status.res \ Renders[p][Wanted(p, seen[p]).spec] \in SUBSET Names
      BY <1>2, <1>5
    <2>2. QED
      BY <1>1, <1>2, <1>5, <2>1, BeginType DEF BeginApply
  <1>6. work' \in [Plugins -> Reconcile \cup {Idle}]
    BY <1>3, <1>4, <1>5 DEF Take, TypeOK, histories
  <1>7. queue' \subseteq Plugins /\ faults' \in 0 .. MaxFaults
    BY PluginAssumption DEF Take, Outcome, TypeOK, histories
  <1>8. QED
    BY <1>6, <1>7 DEF Take, TypeOK, cache, histories

LEMMA UpdateType ==
  ASSUME TypeOK, NEW p \in Plugins, NEW o \in Object \cup {NoObject}, NEW again \in BOOLEAN,
         NEW ok \in BOOLEAN, Update(p, o, again, ok)
  PROVE  /\ obj' \in [Plugins -> Object \cup {NoObject}]
         /\ queue' \subseteq Plugins /\ faults' \in 0 .. MaxFaults
         /\ work' \in [Plugins -> Reconcile \cup {Idle}]
  <1>1. obj' \in [Plugins -> Object \cup {NoObject}]
    BY DEF Update, TypeOK
  <1>2. queue' \subseteq Plugins
    BY DEF Update, TypeOK
  <1>3. faults' \in 0 .. MaxFaults
    BY PluginAssumption DEF Update, Outcome, TypeOK
  <1>4. work' \in [Plugins -> Reconcile \cup {Idle}]
    BY DEF Update, Become, TypeOK
  <1>5. QED
    BY <1>1, <1>2, <1>3, <1>4

LEMMA RenderedType ==
  ASSUME NEW p, NEW c \in Contents
  PROVE  Rendered(p, c) \in [Names -> Contents]
  BY DEF Rendered, Manifest, Contents

LEMMA ResultType ==
  ASSUME TypeOK, NEW p \in Plugins, work[p] \in Reconcile,
         ~work[p].err /\ ~Removing(work[p].copy) => work[p].new # NoContent
  PROVE  Result(p, work[p]) \in Status
  <1> DEFINE w == work[p]
  <1>1. w.copy.status \in Status /\ w.copy.gen \in Nat /\ w.new \in Contents
    BY DEF Reconcile, Object
  <1>2. CASE w.err
    BY <1>1, <1>2 DEF Result, Status
  <1>3. CASE ~w.err /\ Removing(w.copy)
    BY <1>1, <1>3 DEF Result, Status
  <1>4. CASE ~w.err /\ ~Removing(w.copy)
    <2>1. w.new \in Content
      BY <1>1, <1>4 DEF Contents
    <2>2. Renders[p][w.new.spec] \in SUBSET Names
      BY <2>1, PluginAssumption DEF Content
    <2>3. QED
      BY <1>1, <1>4, <2>1, <2>2 DEF Result, Status
  <1>5. QED
    BY <1>2, <1>3, <1>4

LEMMA TypeInit == Init => TypeOK
  <1> SUFFICES ASSUME Init PROVE TypeOK
    OBVIOUS
  <1> USE PluginAssumption
  <1>1. PICK at \in [Plugins -> Contents] : InitAt(at)
    BY DEF Init
  <1>2. ASSUME NEW p \in Plugins, at[p] # NoContent PROVE at[p] \in Content /\ Standing(p, at[p]) \in Object
    <2>1. at[p] \in Content
      BY <1>2 DEF Contents
    <2>2. Renders[p][at[p].spec] \in SUBSET Names /\ at[p].spec \in Specs
      BY <2>1 DEF Content
    <2>3. [phase |-> "Installed", at |-> at[p], res |-> Renders[p][at[p].spec], observed |-> 1] \in Status
      BY <2>1, <2>2 DEF Status, Contents
    <2>4. QED
      BY <2>1, <2>2, <2>3 DEF Standing, Object
  <1>3. obj \in [Plugins -> Object \cup {NoObject}]
    BY <1>1, <1>2 DEF InitAt
  <1>4. ASSUME NEW p \in Plugins PROVE Rendered(p, at[p]) \in [Names -> Contents]
    BY RenderedType
  <1>5. live \in [Plugins -> [Names -> Contents]]
    BY <1>1, <1>4 DEF InitAt
  <1>6. release \in [Plugins -> Release]
    <2>1. PICK older \in BOOLEAN :
            release = [p \in Plugins |-> IF kind[p] = "native" \/ at[p] = NoContent THEN NoRelease
                                         ELSE Deployed(at[p], older)]
      BY <1>1 DEF InitAt
    <2>2. NoRelease \in Release /\ \A p \in Plugins : Deployed(at[p], older) \in Release
      BY DEF NoRelease, Deployed, Release, Contents
    <2>3. QED
      BY <2>1, <2>2
  <1>7. known \in [Plugins -> Contents]
    BY <1>5 DEF Init
  <1>8. /\ seen \in [Plugins -> Object \cup {NoObject}] /\ work \in [Plugins -> Reconcile \cup {Idle}]
        /\ kind \in [Plugins -> {"native", "helm"}] /\ untold \in [Plugins -> SUBSET Names]
        /\ lost \in [Plugins -> SUBSET Names]
    BY <1>3 DEF Init
  <1>9. queue \subseteq Plugins /\ edits \in 0 .. MaxEdits /\ faults \in 0 .. MaxFaults
    BY DEF Init
  <1>10. QED
    BY <1>3, <1>5, <1>6, <1>7, <1>8, <1>9 DEF TypeOK

LEMMA EditType ==
  ASSUME TypeOK, NEW p \in Plugins, NEW o \in Object \cup {NoObject}, Edit(p, o)
  PROVE  TypeOK'
  <1>1. obj' \in [Plugins -> Object \cup {NoObject}]
    BY DEF Edit, TypeOK, histories
  <1>2. edits' \in 0 .. MaxEdits
    BY PluginAssumption DEF Edit, TypeOK, histories
  <1>3. QED
    BY <1>1, <1>2 DEF Edit, TypeOK, cache, histories

LEMMA InstallType ==
  ASSUME TypeOK, NEW p \in Plugins, NEW s \in Specs, Install(p, s)
  PROVE  TypeOK'
  <1> DEFINE o == obj[p]
             fresh == [gen |-> 1, spec |-> s, off |-> FALSE, deleting |-> FALSE, fin |-> FALSE,
                       status |-> Fresh]
             edited == [o EXCEPT !.gen = @ + 1, !.spec = s, !.off = FALSE]
  <1>1. Fresh \in Status
    BY DEF Fresh, Status, Contents
  <1>2. fresh \in Object
    BY <1>1 DEF Object
  <1>3. ASSUME o # NoObject PROVE edited \in Object
    <2>1. o \in Object
      BY <1>3, ObjectType
    <2>2. o.gen + 1 \in Nat
      BY <2>1 DEF Object
    <2>3. QED
      BY <2>1, <2>2 DEF Object
  <1>4. \E x \in Object \cup {NoObject} : Edit(p, x)
    BY <1>2, <1>3, ObjectType DEF Install
  <1>5. QED
    BY <1>4, EditType

LEMMA DisableType ==
  ASSUME TypeOK, NEW p \in Plugins, Disable(p)
  PROVE  TypeOK'
  <1>1. obj[p] \in Object
    BY ObjectType DEF Disable
  <1>2. obj[p].gen + 1 \in Nat
    BY <1>1 DEF Object
  <1>3. [obj[p] EXCEPT !.gen = @ + 1, !.off = TRUE] \in Object
    BY <1>1, <1>2 DEF Object
  <1>4. QED
    BY <1>3, EditType DEF Disable

LEMMA UnInstallType ==
  ASSUME TypeOK, NEW p \in Plugins, UnInstall(p)
  PROVE  TypeOK'
  <1>1. obj[p] \in Object
    BY ObjectType DEF UnInstall
  <1>2. obj[p].gen + 1 \in Nat
    BY <1>1 DEF Object
  <1>3. [obj[p] EXCEPT !.gen = @ + 1, !.deleting = TRUE] \in Object
    BY <1>1, <1>2 DEF Object
  <1>4. QED
    BY <1>3, EditType DEF UnInstall

LEMMA FinalizerType ==
  ASSUME TypeOK, NEW p \in Plugins, NEW ok \in BOOLEAN,
         AddFinalizer(p, ok) \/ RemoveFinalizer(p, ok)
  PROVE  TypeOK'
  <1>1. work[p] \in Reconcile
    BY WorkType DEF AddFinalizer, RemoveFinalizer, histories
  <1>2. [work[p].copy EXCEPT !.fin = TRUE] \in Object
    BY <1>1 DEF Reconcile, Object
  <1>3. /\ obj' \in [Plugins -> Object \cup {NoObject}]
        /\ queue' \subseteq Plugins /\ faults' \in 0 .. MaxFaults
        /\ work' \in [Plugins -> Reconcile \cup {Idle}]
    <2>1. CASE AddFinalizer(p, ok)
      <3>1. Update(p, [work[p].copy EXCEPT !.fin = TRUE], TRUE, ok)
        BY <2>1 DEF AddFinalizer, histories
      <3>2. [work[p].copy EXCEPT !.fin = TRUE] \in Object \cup {NoObject} /\ TRUE \in BOOLEAN
        BY <1>2
      <3>3. QED
        BY <3>1, <3>2, UpdateType
    <2>2. CASE RemoveFinalizer(p, ok)
      <3>1. Update(p, NoObject, FALSE, ok)
        BY <2>2 DEF RemoveFinalizer, histories
      <3>2. NoObject \in Object \cup {NoObject} /\ FALSE \in BOOLEAN
        OBVIOUS
      <3>3. QED
        BY <3>1, <3>2, UpdateType
    <2>3. QED
      BY <2>1, <2>2
  <1>4. QED
    BY <1>3 DEF AddFinalizer, RemoveFinalizer, TypeOK, cache, histories

LEMMA HelmReturnsType ==
  ASSUME TypeOK, NEW p \in Plugins, work[p] \in Reconcile, NEW err \in BOOLEAN, HelmReturns(p, err)
  PROVE  work' \in [Plugins -> Reconcile \cup {Idle}]
  <1>1. [work[p] EXCEPT !.pc = "sync", !.put = {}, !.drop = {}, !.touched = Names,
                        !.err = err] \in Reconcile
    BY DEF Reconcile
  <1>2. QED
    BY <1>1 DEF HelmReturns, Become, TypeOK

LEMMA SyncOneType ==
  ASSUME TypeOK, NEW p \in Plugins, NEW n \in Names, NEW lands \in BOOLEAN, NEW ok \in BOOLEAN,
         SyncOne(p, n, lands, ok)
  PROVE  TypeOK'
  <1> DEFINE w == work[p]
             done == [w EXCEPT !.put = @ \ {n}, !.drop = @ \ {n}, !.err = @ \/ ~ok,
                               !.touched = IF lands THEN @ \cup {n} ELSE @]
  <1>1. w \in Reconcile
    BY WorkType DEF SyncOne, histories
  <1>2. (IF n \in w.put THEN w.new ELSE NoContent) \in Contents
    BY <1>1 DEF Reconcile, Contents
  <1>3. live' \in [Plugins -> [Names -> Contents]]
    BY <1>2 DEF SyncOne, TypeOK, histories
  <1>4. (w.err \/ ~ok) \in BOOLEAN /\ (IF lands THEN w.touched \cup {n} ELSE w.touched) \in SUBSET Names
    BY <1>1 DEF Reconcile
  <1>5. done \in Reconcile
    BY <1>1, <1>4 DEF Reconcile
  <1>6. work' \in [Plugins -> Reconcile \cup {Idle}]
    BY <1>5 DEF SyncOne, Become, TypeOK, histories
  <1>7. faults' \in 0 .. MaxFaults
    BY PluginAssumption DEF SyncOne, Outcome, TypeOK, histories
  <1>8. QED
    BY <1>3, <1>6, <1>7 DEF SyncOne, TypeOK, cache, histories

LEMMA ManifestType ==
  ASSUME NEW p \in Plugins, NEW c \in Contents
  PROVE  Manifest(p, c) \in SUBSET Names
  BY PluginAssumption DEF Manifest, Contents, Content

LEMMA HelmChangeType ==
  ASSUME TypeOK, NEW p \in Plugins, work[p] \in Reconcile, NEW from \in SUBSET Names,
         HelmChange(p, from)
  PROVE  /\ work' \in [Plugins -> Reconcile \cup {Idle}]
         /\ release' \in [Plugins -> Release]
         /\ lost' \in [Plugins -> SUBSET Names]
  <1> DEFINE w == work[p]
             r == release[p]
             new == Manifest(p, w.new)
  <1>1. w.new \in Contents /\ r \in Release /\ r.at \in Contents /\ r.base \in Contents
    BY DEF Reconcile, Release, TypeOK
  <1>2. new \in SUBSET Names /\ Manifest(p, r.at) \in SUBSET Names
    BY <1>1, ManifestType
  <1>3. [w EXCEPT !.pc = "helming", !.put = new, !.drop = from \ new, !.touched = Names] \in Reconcile
    BY <1>2 DEF Reconcile
  <1>4. [is |-> "pending", at |-> w.new, base |-> r.base, older |-> r # NoRelease] \in Release
    BY <1>1 DEF Release
  <1>5. (lost[p] \cup (Manifest(p, r.at) \ Manifest(p, r.base))) \ new \in SUBSET Names
    BY <1>2 DEF TypeOK
  <1>6. QED
    BY <1>3, <1>4, <1>5 DEF HelmChange, Become, TypeOK

LEMMA HelmStartType ==
  ASSUME TypeOK, NEW p \in Plugins, HelmStart(p)
  PROVE  TypeOK'
  <1> USE PluginAssumption
  <1>1. work[p] \in Reconcile
    BY WorkType DEF HelmStart
  <1>2. /\ Manifest(p, release[p].at) \in SUBSET Names
        /\ Manifest(p, Current(release[p])) \in SUBSET Names
    BY ManifestType DEF Current, TypeOK, Release
  <1>3. /\ work' \in [Plugins -> Reconcile \cup {Idle}]
        /\ release' \in [Plugins -> Release]
        /\ lost' \in [Plugins -> SUBSET Names]
    <2>1. CASE HelmInstall(p)
      BY <1>1, <2>1, HelmChangeType DEF HelmInstall
    <2>2. CASE HelmUpgrade(p)
      BY <1>1, <1>2, <2>2, HelmChangeType DEF HelmUpgrade
    <2>3. CASE HelmForgets(p)
      <3>1. NoRelease \in Release
        BY DEF NoRelease, Release, Contents
      <3>2. release' \in [Plugins -> Release] /\ lost' \in [Plugins -> SUBSET Names]
        BY <1>2, <2>3, <3>1 DEF HelmForgets, TypeOK
      <3>3. work' \in [Plugins -> Reconcile \cup {Idle}]
        BY <1>1, <2>3, HelmReturnsType DEF HelmForgets
      <3>4. QED
        BY <3>2, <3>3
    <2>4. CASE HelmLeaves(p)
      <3>1. work' \in [Plugins -> Reconcile \cup {Idle}]
        BY <1>1, <2>4, HelmReturnsType DEF HelmLeaves
      <3>2. QED
        BY <2>4, <3>1 DEF HelmLeaves, TypeOK
    <2>5. CASE HelmRefuses(p)
      <3>1. work' \in [Plugins -> Reconcile \cup {Idle}]
        BY <1>1, <2>5, HelmReturnsType DEF HelmRefuses
      <3>2. QED
        BY <2>5, <3>1 DEF HelmRefuses, TypeOK
    <2>6. QED
      BY <2>1, <2>2, <2>3, <2>4, <2>5 DEF HelmStart
  <1>4. faults' \in 0 .. MaxFaults
    <2>1. CASE HelmUpgrade(p)
      <3>1. Outcome(~Forgets(release[p]))
        BY <2>1 DEF HelmUpgrade
      <3>2. QED
        BY <3>1 DEF Outcome, TypeOK
    <2>2. CASE HelmInstall(p) \/ HelmLeaves(p) \/ HelmForgets(p) \/ HelmRefuses(p)
      <3>1. faults' = faults
        BY <2>2 DEF HelmInstall, HelmLeaves, HelmForgets, HelmRefuses
      <3>2. QED
        BY <3>1 DEF TypeOK
    <2>3. QED
      BY <2>1, <2>2 DEF HelmStart
  <1>5. QED
    BY <1>3, <1>4 DEF HelmStart, TypeOK, cache

LEMMA HelmType ==
  ASSUME TypeOK, NEW p \in Plugins,
         \/ HelmFails(p)
         \/ \E n \in Names : HelmOne(p, n)
         \/ \E ok \in BOOLEAN : HelmEnd(p, ok)
         \/ \E ok \in BOOLEAN, left \in SUBSET Names : Uninstall(p, left, ok)
  PROVE  TypeOK'
  <1> USE PluginAssumption
  <1> DEFINE w == work[p]
             r == release[p]
  <1>0. r \in Release /\ r.at \in Contents /\ r.base \in Contents /\ r.older \in BOOLEAN
    BY DEF TypeOK, Release
  <1>1. w \in Reconcile /\ w.new \in Contents /\ NoContent \in Contents
    BY WorkType DEF HelmFails, HelmOne, HelmEnd, Uninstall, Reconcile, Contents
  <1>2. CASE HelmFails(p)
    <2>1. work' \in [Plugins -> Reconcile \cup {Idle}]
      BY <1>1, <1>2, HelmReturnsType DEF HelmFails
    <2>2. faults' \in 0 .. MaxFaults
      BY <1>2 DEF HelmFails, Outcome, TypeOK
    <2>3. QED
      BY <1>2, <2>1, <2>2 DEF HelmFails, TypeOK, cache, histories
  <1>3. ASSUME NEW n \in Names, HelmOne(p, n) PROVE TypeOK'
    <2>1. Rendered(p, w.new) \in [Names -> Contents]
      BY <1>1, RenderedType
    <2>2. live' \in [Plugins -> [Names -> Contents]] /\ lost' \in [Plugins -> SUBSET Names]
      BY <1>3, <2>1 DEF HelmOne, TypeOK
    <2>3. [w EXCEPT !.put = w.put \ {n}, !.drop = w.drop \ {n}] \in Reconcile
      BY <1>1 DEF Reconcile
    <2>4. work' \in [Plugins -> Reconcile \cup {Idle}]
      BY <1>3, <2>3 DEF HelmOne, Become, TypeOK
    <2>5. QED
      BY <1>3, <2>2, <2>4 DEF HelmOne, TypeOK, cache, bounds
  <1>4. ASSUME NEW ok \in BOOLEAN, HelmEnd(p, ok) PROVE TypeOK'
    <2>1. work' \in [Plugins -> Reconcile \cup {Idle}]
      BY <1>1, <1>4, HelmReturnsType DEF HelmEnd
    <2>2. Deployed(w.new, r.older) \in Release /\ [r EXCEPT !.is = "failed"] \in Release
      BY <1>0, <1>1 DEF Deployed, Release
    <2>3. release' \in [Plugins -> Release]
      BY <1>4, <2>2 DEF HelmEnd, TypeOK
    <2>4. faults' \in 0 .. MaxFaults
      BY <1>4 DEF HelmEnd, Outcome, TypeOK
    <2>5. QED
      BY <1>4, <2>1, <2>3, <2>4 DEF HelmEnd, TypeOK, cache, histories
  <1>5. ASSUME NEW ok \in BOOLEAN, NEW left \in SUBSET Names, Uninstall(p, left, ok) PROVE TypeOK'
    <2>1. work' \in [Plugins -> Reconcile \cup {Idle}]
      BY <1>1, <1>5, HelmReturnsType DEF Uninstall
    <2>2. NoRelease \in Release /\ [r EXCEPT !.is = "uninstalling",
                                             !.base = IF r.is = "deployed" THEN NoContent ELSE r.base] \in Release
      BY <1>0, <1>1 DEF NoRelease, Release
    <2>3. release' \in [Plugins -> Release]
      BY <1>5, <2>2 DEF Uninstall, TypeOK
    <2>4. faults' \in 0 .. MaxFaults
      BY <1>5 DEF Uninstall, Outcome, TypeOK
    <2>5. live' \in [Plugins -> [Names -> Contents]]
      BY <1>1, <1>5 DEF Uninstall, TypeOK
    <2>6. Manifest(p, r.base) \in SUBSET Names
      BY <1>0, ManifestType
    <2>7. lost' \in [Plugins -> SUBSET Names]
      BY <1>5, <2>6 DEF Uninstall, TypeOK
    <2>8. QED
      BY <1>5, <2>1, <2>3, <2>4, <2>5, <2>7 DEF Uninstall, TypeOK, cache
  <1>6. QED
    BY <1>2, <1>3, <1>4, <1>5

LEMMA WriteStatusType ==
  ASSUME TypeOK, NEW p \in Plugins, Doing(p), NEW ok \in BOOLEAN, WriteStatus(p, ok)
  PROVE  TypeOK'
  <1> DEFINE w == work[p]
  <1>1. w \in Reconcile /\ w.err \in BOOLEAN /\ w.touched \in SUBSET Names
    BY WorkType DEF WriteStatus, Reconcile
  <1>2. Result(p, w) \in Status
    BY <1>1, ResultType DEF WriteStatus, Doing
  <1>3. [w.copy EXCEPT !.status = Result(p, w)] \in Object
    BY <1>1, <1>2 DEF Reconcile, Object
  <1>4. Update(p, [w.copy EXCEPT !.status = Result(p, w)], w.err, ok)
    BY DEF WriteStatus
  <1>5. untold' \in [Plugins -> SUBSET Names]
    BY <1>1 DEF WriteStatus, TypeOK
  <1>6. QED
    BY <1>1, <1>3, <1>4, <1>5, UpdateType DEF WriteStatus, TypeOK, cache

LEMMA CrashType == TypeOK /\ Crash => TypeOK'
  <1> SUFFICES ASSUME TypeOK, Crash PROVE TypeOK'
    OBVIOUS
  <1>1. ASSUME NEW p \in Plugins PROVE work[p].touched \in SUBSET Names
    BY DEF TypeOK, Reconcile, Idle
  <1>2. untold' \in [Plugins -> SUBSET Names]
    BY <1>1 DEF Crash, TypeOK
  <1>3. known' \in [Plugins -> Contents]
    BY PluginAssumption DEF Crash, TypeOK
  <1>4. faults' \in 0 .. MaxFaults
    BY PluginAssumption DEF Crash, Outcome, TypeOK
  <1>5. QED
    BY <1>2, <1>3, <1>4 DEF Crash, TypeOK

LEMMA WatchType ==
  ASSUME TypeOK, NEW p \in Plugins, Watch(p) \/ WatchConfigMap(p)
  PROVE  TypeOK'
  <1>1. CASE Watch(p)
    BY <1>1 DEF Watch, TypeOK, bounds, histories
  <1>2. CASE WatchConfigMap(p)
    <2>1. known' \in [Plugins -> Contents] /\ queue' \subseteq Plugins
      BY <1>2, PluginAssumption DEF WatchConfigMap, Readers, TypeOK, histories
    <2>2. QED
      BY <1>2, <2>1 DEF WatchConfigMap, TypeOK, bounds, histories
  <1>3. QED
    BY <1>1, <1>2

LEMMA TypeStep == TypeOK /\ (\A p \in Plugins : Doing(p)) /\ [Next]_vars => TypeOK'
  <1> SUFFICES ASSUME TypeOK, \A p \in Plugins : Doing(p), [Next]_vars PROVE TypeOK'
    OBVIOUS
  <1>1. CASE UNCHANGED vars
    BY <1>1 DEF vars, TypeOK
  <1>2. CASE Crash
    BY <1>2, CrashType
  <1>3. ASSUME NEW p \in Plugins, Work(p) PROVE TypeOK'
    BY <1>3, HelmStartType, HelmType, TakeType, FinalizerType, SyncOneType, WriteStatusType DEF Work
  <1>4. QED
    BY <1>1, <1>2, <1>3, InstallType, DisableType, UnInstallType, WatchType DEF Next

-----------------------------------------------------------------------------
(* What a step leaves alone *)

Same(q) ==
  /\ kind' = kind /\ obj'[q] = obj[q] /\ live'[q] = live[q] /\ release'[q] = release[q]
  /\ work'[q] = work[q] /\ untold'[q] = untold[q] /\ lost'[q] = lost[q]

LEMMA SameKeeps ==
  ASSUME NEW q, Same(q), Facts(q)
  PROVE  Facts(q)'
  <1>1. Reported(q)' = Reported(q)
    BY DEF Same, Reported
  <1>2. Kept(q)'
    BY <1>1 DEF Same, Facts, Kept, Gone, Is
  <1>3. ReleaseHolds(q)'
    BY DEF Same, Facts, ReleaseHolds, Is
  <1>4. Doing(q)'
    BY DEF Same, Facts, Doing, SyncedNative, SyncedHelm, Helming, Is
  <1>5. QED
    BY <1>2, <1>3, <1>4 DEF Facts

LEMMA EditOthers ==
  ASSUME TypeOK, NEW p \in Plugins, NEW q \in Plugins, p # q, NEW o, Edit(p, o)
  PROVE  Same(q)
  BY DEF Edit, Same, TypeOK, histories

LEMMA WatchOthers ==
  ASSUME NEW p \in Plugins, NEW q \in Plugins, Watch(p) \/ WatchConfigMap(p)
  PROVE  Same(q)
  BY DEF Watch, WatchConfigMap, Same, histories

LEMMA WorkOthers ==
  ASSUME TypeOK, NEW p \in Plugins, NEW q \in Plugins, p # q, Work(p)
  PROVE  Same(q)
  <1>1. CASE HelmStart(p)
    BY <1>1 DEF HelmStart, HelmInstall, HelmLeaves, HelmForgets, HelmRefuses, HelmUpgrade, HelmChange,
                HelmReturns, Become, Same, TypeOK
  <1>2. ASSUME NEW n \in Names, HelmOne(p, n) PROVE Same(q)
    BY <1>2 DEF HelmOne, Become, Same, TypeOK
  <1>3. ASSUME NEW ok \in BOOLEAN, Take(p, ok) PROVE Same(q)
    BY <1>3 DEF Take, BeginHold, BeginRemove, BeginApply, Begin, Become, Same, TypeOK, histories
  <1>4. ASSUME NEW ok \in BOOLEAN, AddFinalizer(p, ok) PROVE Same(q)
    BY <1>4 DEF AddFinalizer, Update, Become, Same, TypeOK, histories
  <1>5. ASSUME NEW ok \in BOOLEAN, RemoveFinalizer(p, ok) PROVE Same(q)
    BY <1>5 DEF RemoveFinalizer, Update, Become, Same, TypeOK, histories
  <1>6. ASSUME NEW ok \in BOOLEAN, NEW n \in Names, NEW lands \in BOOLEAN, SyncOne(p, n, lands, ok)
        PROVE  Same(q)
    BY <1>6 DEF SyncOne, Become, Same, TypeOK, histories
  <1>7. ASSUME NEW ok \in BOOLEAN, NEW left \in SUBSET Names, Uninstall(p, left, ok) PROVE Same(q)
    BY <1>7 DEF Uninstall, HelmReturns, Become, Same, TypeOK
  <1>8. ASSUME NEW ok \in BOOLEAN, HelmEnd(p, ok) PROVE Same(q)
    BY <1>8 DEF HelmEnd, HelmReturns, Become, Same, TypeOK, histories
  <1>9. ASSUME NEW ok \in BOOLEAN, WriteStatus(p, ok) PROVE Same(q)
    BY <1>9 DEF WriteStatus, Update, Become, Same, TypeOK
  <1>10. CASE HelmFails(p)
    BY <1>10 DEF HelmFails, HelmReturns, Become, Same, TypeOK, histories
  <1>11. QED
    BY <1>1, <1>2, <1>3, <1>4, <1>5, <1>6, <1>7, <1>8, <1>9, <1>10 DEF Work

-----------------------------------------------------------------------------
(* The invariant holds in the beginning *)

LEMMA FactsInit == ASSUME Init, NEW p \in Plugins PROVE Facts(p)
  <1> USE PluginAssumption
  <1>1. PICK at \in [Plugins -> Contents] : InitAt(at)
    BY DEF Init
  <1>2. work[p] = Idle /\ kind[p] \in {"native", "helm"}
    BY DEF Init
  <1>3. live[p] = Rendered(p, at[p])
    BY <1>1 DEF InitAt
  <1>4. Doing(p)
    BY <1>2 DEF Doing, Idle
  <1>5. CASE at[p] = NoContent
    <2>1. obj[p] = NoObject /\ \A n \in Names : live[p][n] = NoContent
      BY <1>1, <1>3, <1>5 DEF InitAt, Rendered, Manifest
    <2>2. release[p] = NoRelease
      BY <1>1, <1>5 DEF InitAt
    <2>3. Kept(p) /\ ReleaseHolds(p)
      BY <2>1, <2>2 DEF Kept, ReleaseHolds, Reported, NoRelease, Forgets
    <2>4. QED
      BY <1>4, <2>3 DEF Facts
  <1>6. CASE at[p] # NoContent
    <2>1. obj[p] = Standing(p, at[p])
      BY <1>1, <1>6 DEF InitAt
    <2>2. /\ obj[p].fin /\ obj[p].status.phase = "Installed" /\ obj[p].status.at = at[p]
          /\ obj[p].status.res = Renders[p][at[p].spec] /\ obj[p] # NoObject
      BY <2>1 DEF Standing, NoObject
    <2>3. \A n \in Names \ Renders[p][at[p].spec] : live[p][n] = NoContent
      BY <1>3 DEF Rendered, Manifest
    <2>4. Kept(p)
      BY <1>3, <2>2, <2>3 DEF Kept, Gone, Is, Reported
    <2>5. kind[p] = "helm" => \E older \in BOOLEAN : release[p] = Deployed(at[p], older)
      BY <1>1, <1>6 DEF InitAt
    <2>6. kind[p] = "helm" => release[p].is = "deployed" /\ release[p].at = at[p] /\ release[p].base = at[p]
      <3>1. SUFFICES ASSUME NEW older \in BOOLEAN, release[p] = Deployed(at[p], older)
                     PROVE  release[p].is = "deployed" /\ release[p].at = at[p] /\ release[p].base = at[p]
        BY <2>5
      <3>2. QED
        BY <3>1 DEF Deployed
    <2>7. \A n \in Names : Is(p, n, at[p]) /\ (live[p][n] # NoContent => n \in Manifest(p, at[p]))
      BY <1>3 DEF Is, Rendered
    <2>8. ReleaseHolds(p)
      BY <2>6, <2>7 DEF ReleaseHolds, Forgets
    <2>9. QED
      BY <1>4, <2>4, <2>8 DEF Facts
  <1>7. QED
    BY <1>5, <1>6

-----------------------------------------------------------------------------
(* Users *)

\* An edit changes neither the status nor what has been done.
LEMMA EditFacts ==
  ASSUME TypeOK, NEW p \in Plugins, Facts(p), NEW o, Edit(p, o),
         \/ o = NoObject /\ (obj[p] = NoObject \/ Gone(obj[p]))
         \/ o # NoObject /\ obj[p] # NoObject /\ o.status = obj[p].status /\ o.fin = obj[p].fin
         \/ o # NoObject /\ Gone(obj[p]) /\ o.status = Fresh
  PROVE  Facts(p)'
  <1>1. /\ obj'[p] = o /\ live' = live /\ release' = release /\ work' = work /\ untold' = untold
        /\ lost' = lost /\ kind' = kind
    BY DEF Edit, TypeOK, histories
  <1>2. Reported(p)' = Reported(p)
    BY <1>1 DEF Reported
  <1>3. Kept(p)'
    <2>1. CASE o = NoObject
      BY <1>1, <1>2, <2>1 DEF Facts, Kept, Gone, Is
    <2>2. CASE o # NoObject /\ obj[p] # NoObject /\ o.status = obj[p].status /\ o.fin = obj[p].fin
      BY <1>1, <1>2, <2>2 DEF Facts, Kept, Gone, Is
    <2>3. CASE o # NoObject /\ Gone(obj[p]) /\ o.status = Fresh
      <3>0. Fresh.phase = ""
        BY DEF Fresh
      <3>1. obj'[p].status.phase = ""
        BY <1>1, <2>3, <3>0
      <3>2. \A n \in Reported(p)' : live'[p][n] = NoContent
        BY <1>1, <1>2, <2>3 DEF Facts, Kept
      <3>3. QED
        BY <3>1, <3>2 DEF Kept
    <2>4. QED
      BY <2>1, <2>2, <2>3
  <1>4. ReleaseHolds(p)'
    BY <1>1 DEF Facts, ReleaseHolds, Is
  <1>5. Doing(p)'
    BY <1>1 DEF Facts, Doing, SyncedNative, SyncedHelm, Helming, Is
  <1>6. QED
    BY <1>3, <1>4, <1>5 DEF Facts

LEMMA InstallFacts ==
  ASSUME TypeOK, NEW p \in Plugins, NEW s \in Specs, Facts(p), Install(p, s)
  PROVE  Facts(p)'
  <1> DEFINE o == obj[p]
             fresh == [gen |-> 1, spec |-> s, off |-> FALSE, deleting |-> FALSE, fin |-> FALSE,
                       status |-> Fresh]
             edited == [o EXCEPT !.gen = @ + 1, !.spec = s, !.off = FALSE]
  <1>1. CASE o = NoObject
    <2>1. Edit(p, fresh) /\ fresh.status = Fresh /\ Gone(o)
      BY <1>1 DEF Install, Gone
    <2>2. fresh # NoObject
      BY DEF NoObject
    <2>3. QED
      BY <2>1, <2>2, EditFacts
  <1>2. CASE o # NoObject
    <2>1. o \in Object
      BY <1>2, ObjectType
    <2>2. edited.status = o.status /\ edited.fin = o.fin /\ edited # NoObject
      BY <2>1 DEF Object, NoObject
    <2>3. Edit(p, edited) \/ Edit(p, o)
      BY <1>2 DEF Install
    <2>4. QED
      BY <1>2, <2>2, <2>3, EditFacts
  <1>3. QED
    BY <1>1, <1>2

LEMMA DisableFacts ==
  ASSUME TypeOK, NEW p \in Plugins, Facts(p), Disable(p)
  PROVE  Facts(p)'
  <1> DEFINE o == obj[p]
             edited == [o EXCEPT !.gen = @ + 1, !.off = TRUE]
  <1>1. o \in Object
    BY ObjectType DEF Disable
  <1>2. edited.status = o.status /\ edited.fin = o.fin /\ edited # NoObject
    BY <1>1 DEF Object, NoObject
  <1>3. QED
    BY <1>2, EditFacts DEF Disable

LEMMA UnInstallFacts ==
  ASSUME TypeOK, NEW p \in Plugins, Facts(p), UnInstall(p)
  PROVE  Facts(p)'
  <1> DEFINE o == obj[p]
             edited == [o EXCEPT !.gen = @ + 1, !.deleting = TRUE]
  <1>1. o \in Object /\ o # NoObject
    BY ObjectType DEF UnInstall
  <1>2. edited.status = o.status /\ edited.fin = o.fin /\ edited # NoObject
    BY <1>1 DEF Object, NoObject
  <1>3. CASE o.fin
    BY <1>1, <1>2, <1>3, EditFacts DEF UnInstall
  <1>4. CASE ~o.fin
    <2>1. Gone(o) /\ Edit(p, NoObject)
      BY <1>1, <1>4 DEF UnInstall, Facts, Kept, Gone
    <2>2. QED
      BY <2>1, EditFacts
  <1>5. QED
    BY <1>1, <1>3, <1>4 DEF Object

-----------------------------------------------------------------------------
(* The controller *)

LEMMA Rendering ==
  ASSUME NEW p, NEW c, NEW n \in Names
  PROVE  /\ c = NoContent => Rendered(p, c)[n] = NoContent
         /\ c # NoContent /\ n \in Renders[p][c.spec] => Rendered(p, c)[n] = c
         /\ c # NoContent /\ n \notin Renders[p][c.spec] => Rendered(p, c)[n] = NoContent
  BY DEF Rendered, Manifest

\* A step that changes nothing but the reconcile of p, of which nothing was
\* or is touched.
LEMMA UntouchedFacts ==
  ASSUME NEW p \in Plugins, Facts(p),
         kind' = kind, obj' = obj, live' = live, release' = release, untold' = untold, lost' = lost,
         work[p].touched = {}, work'[p].touched = {}, Doing(p)'
  PROVE  Facts(p)'
  <1>1. Reported(p)' = Reported(p)
    BY DEF Reported
  <1>2. Kept(p)'
    BY <1>1 DEF Facts, Kept, Gone, Is
  <1>3. ReleaseHolds(p)'
    BY DEF Facts, ReleaseHolds, Is
  <1>4. QED
    BY <1>2, <1>3 DEF Facts

LEMMA TakeDoing ==
  ASSUME TypeOK, NEW p \in Plugins, NEW ok \in BOOLEAN, Take(p, ok), work' # work
  PROVE  Doing(p)' /\ work'[p].touched = {}
  <1> USE PluginAssumption
  <1> DEFINE o == seen[p]
  <1>1. kind' = kind /\ kind[p] \in {"native", "helm"}
    BY DEF Take, TypeOK, histories
  <1>2. o \in Object /\ o # NoObject
    BY ObjectType DEF Take, histories
  <1>3. CASE BeginHold(p, o)
    <2>1. CASE ~o.deleting /\ ~o.fin /\ Begin(p, "hold", NoContent, {}, {}, FALSE)
      <3>1. work'[p] = [pc |-> "hold", copy |-> o, new |-> NoContent, put |-> {},
                        drop |-> {}, touched |-> {}, err |-> FALSE]
        BY <2>1 DEF Begin, Become, TypeOK
      <3>2. QED
        BY <1>1, <2>1, <3>1 DEF Doing
    <2>2. CASE /\ o.deleting /\ o.fin /\ o.status.phase = "Disabled"
               /\ Begin(p, "unhold", NoContent, {}, {}, FALSE)
      <3>1. work'[p] = [pc |-> "unhold", copy |-> o, new |-> NoContent, put |-> {},
                        drop |-> {}, touched |-> {}, err |-> FALSE]
        BY <2>2 DEF Begin, Become, TypeOK
      <3>2. QED
        BY <1>1, <2>2, <3>1 DEF Doing
    <2>3. QED
      BY <1>3, <2>1, <2>2 DEF BeginHold
  <1>4. CASE BeginRemove(p, o)
    <2>1. o.fin /\ Removing(o)
      BY <1>4 DEF BeginRemove
    <2>2. CASE kind[p] = "native" /\ Begin(p, "sync", NoContent, {}, o.status.res, FALSE)
      <3>1. work'[p] = [pc |-> "sync", copy |-> o, new |-> NoContent, put |-> {},
                        drop |-> o.status.res, touched |-> {}, err |-> FALSE]
        BY <2>2 DEF Begin, Become, TypeOK
      <3>0. o.status.res \subseteq Names
        BY <1>2 DEF Object, Status
      <3>2. SyncedNative(p, work[p])'
        BY <3>1, <3>0, Rendering DEF SyncedNative
      <3>3. QED
        BY <1>1, <2>1, <2>2, <3>1, <3>2 DEF Doing
    <2>3. CASE /\ kind[p] = "helm" /\ o.status.phase = "Disabled"
               /\ Begin(p, "sync", NoContent, {}, {}, FALSE)
      <3>1. work'[p] = [pc |-> "sync", copy |-> o, new |-> NoContent, put |-> {},
                        drop |-> {}, touched |-> {}, err |-> FALSE]
        BY <2>3 DEF Begin, Become, TypeOK
      <3>2. QED
        BY <1>1, <2>1, <2>3, <3>1 DEF Doing, SyncedHelm
    <2>4. CASE kind[p] = "helm" /\ Begin(p, "helm", NoContent, {}, {}, FALSE)
      <3>1. work'[p] = [pc |-> "helm", copy |-> o, new |-> NoContent, put |-> {},
                        drop |-> {}, touched |-> {}, err |-> FALSE]
        BY <2>4 DEF Begin, Become, TypeOK
      <3>2. QED
        BY <1>1, <2>1, <2>4, <3>1 DEF Doing
    <2>5. QED
      BY <1>1, <1>4, <2>2, <2>3, <2>4 DEF BeginRemove
  <1>5. CASE BeginApply(p, o, ok)
    <2> DEFINE c == Wanted(p, o)
               names == Renders[p][c.spec]
    <2>1. o.fin /\ ~Removing(o)
      BY <1>5 DEF BeginApply
    <2>2. c \in Content /\ c # NoContent
      BY <1>2, WantedType DEF Content, NoContent
    <2>3. CASE Begin(p, "sync", NoContent, {}, {}, TRUE)
      <3>1. work'[p] = [pc |-> "sync", copy |-> o, new |-> NoContent, put |-> {},
                        drop |-> {}, touched |-> {}, err |-> TRUE]
        BY <2>3 DEF Begin, Become, TypeOK
      <3>2. QED
        BY <1>1, <2>1, <2>3, <3>1 DEF Doing
    <2>4. CASE kind[p] = "helm" /\ Begin(p, "helm", c, {}, {}, FALSE)
      <3>1. work'[p] = [pc |-> "helm", copy |-> o, new |-> c, put |-> {},
                        drop |-> {}, touched |-> {}, err |-> FALSE]
        BY <2>4 DEF Begin, Become, TypeOK
      <3>2. QED
        BY <1>1, <2>1, <2>2, <2>4, <3>1 DEF Doing
    <2>5. CASE kind[p] = "native" /\ Applied(p, o, c) /\ Begin(p, "sync", c, {}, {}, FALSE)
      <3>1. work'[p] = [pc |-> "sync", copy |-> o, new |-> c, put |-> {},
                        drop |-> {}, touched |-> {}, err |-> FALSE]
        BY <2>5 DEF Begin, Become, TypeOK
      <3>2. SyncedNative(p, work[p])'
        BY <2>5, <3>1 DEF SyncedNative, Applied
      <3>3. QED
        BY <1>1, <2>1, <2>2, <2>5, <3>1, <3>2 DEF Doing
    <2>6. CASE kind[p] = "native" /\ Begin(p, "sync", c, names, o.status.res \ names, FALSE)
      <3>1. work'[p] = [pc |-> "sync", copy |-> o, new |-> c, put |-> names,
                        drop |-> o.status.res \ names, touched |-> {}, err |-> FALSE]
        BY <2>6 DEF Begin, Become, TypeOK
      <3>2. names \subseteq Names /\ o.status.res \subseteq Names
        <4>1. names \subseteq Names
          BY <2>2 DEF Content
        <4>2. o.status \in Status
          BY <1>2 DEF Object
        <4>3. QED
          BY <4>1, <4>2 DEF Status
      <3>3. /\ \A n \in names : Rendered(p, c)[n] = c
            /\ \A n \in o.status.res \ names : Rendered(p, c)[n] = NoContent
            /\ \A n \in Names : Rendered(p, c)[n] # NoContent => n \in names
        BY <2>2, <3>2, Rendering
      <3>4. SyncedNative(p, work[p])'
        BY <3>1, <3>3 DEF SyncedNative
      <3>5. QED
        BY <1>1, <2>1, <2>2, <2>6, <3>1, <3>4 DEF Doing
    <2>7. QED
      BY <1>1, <1>5, <2>3, <2>4, <2>5, <2>6 DEF BeginApply
  <1>6. BeginHold(p, o) \/ BeginRemove(p, o) \/ BeginApply(p, o, ok)
    BY DEF Take, histories
  <1>7. work'[p].touched = {}
    BY <1>6 DEF BeginHold, BeginRemove, BeginApply, Begin, Become, TypeOK
  <1>8. QED
    BY <1>3, <1>4, <1>5, <1>6, <1>7

LEMMA TakeFacts ==
  ASSUME TypeOK, NEW p \in Plugins, Facts(p), NEW ok \in BOOLEAN, Take(p, ok)
  PROVE  Facts(p)'
  <1>1. /\ kind' = kind /\ obj' = obj /\ live' = live /\ release' = release /\ untold' = untold
        /\ lost' = lost /\ work[p].touched = {}
    BY DEF Take, Idle, histories
  <1>2. CASE work' = work
    BY <1>1, <1>2, SameKeeps DEF Same
  <1>3. CASE work' # work
    BY <1>1, <1>3, TakeDoing, UntouchedFacts
  <1>4. QED
    BY <1>2, <1>3

LEMMA IdleDoing == ASSUME NEW p, work'[p] = Idle PROVE Doing(p)'
  BY DEF Doing, Idle

LEMMA FinalizerFacts ==
  ASSUME TypeOK, NEW p \in Plugins, Facts(p), NEW ok \in BOOLEAN,
         AddFinalizer(p, ok) \/ RemoveFinalizer(p, ok)
  PROVE  Facts(p)'
  <1> DEFINE w == work[p]
  <1>1. w \in Reconcile /\ w.touched = {} /\ w.copy \in Object
    BY WorkType DEF AddFinalizer, RemoveFinalizer, Facts, Doing, Reconcile, histories
  <1>2. /\ kind' = kind /\ live' = live /\ release' = release /\ untold' = untold
        /\ lost' = lost /\ work'[p] = Idle
    BY DEF AddFinalizer, RemoveFinalizer, Update, Become, TypeOK, histories
  <1>3. Reported(p)' = Reported(p)
    BY <1>1, <1>2 DEF Reported, Idle
  <1>4. ReleaseHolds(p)'
    BY <1>2 DEF Facts, ReleaseHolds, Is
  <1>5. CASE obj' = obj
    BY <1>2, <1>3, <1>4, <1>5, IdleDoing DEF Facts, Kept, Gone, Is
  <1>6. CASE AddFinalizer(p, ok) /\ obj[p] = w.copy /\ obj' = [obj EXCEPT ![p] = [w.copy EXCEPT !.fin = TRUE]]
    <2>1. obj'[p].fin /\ obj'[p].status = obj[p].status
      BY <1>1, <1>6 DEF TypeOK, Object
    <2>2. ~obj[p].fin
      BY <1>6 DEF AddFinalizer, Facts, Doing, histories
    <2>3. Gone(obj[p])
      BY <2>2 DEF Facts, Kept, Gone
    <2>4. \A n \in Reported(p)' : live'[p][n] = NoContent
      BY <1>2, <1>3, <2>3 DEF Facts, Kept
    <2>5. obj[p] # NoObject => obj'[p].status.phase = ""
      BY <2>1, <2>2 DEF Facts, Kept
    <2>6. obj[p] # NoObject
      BY <1>1, <1>6 DEF Object, NoObject
    <2>7. Kept(p)'
      BY <2>1, <2>4, <2>5, <2>6 DEF Kept
    <2>8. QED
      BY <1>2, <1>4, <2>7, IdleDoing DEF Facts
  <1>7. CASE RemoveFinalizer(p, ok) /\ obj[p] = w.copy /\ obj' = [obj EXCEPT ![p] = NoObject]
    <2>1. obj[p].status.phase = "Disabled"
      BY <1>7 DEF RemoveFinalizer, Facts, Doing, histories
    <2>2. Gone(obj[p])
      BY <2>1 DEF Gone
    <2>3. obj'[p] = NoObject
      BY <1>7 DEF TypeOK
    <2>4. \A n \in Reported(p)' : live'[p][n] = NoContent
      BY <1>2, <1>3, <2>2 DEF Facts, Kept
    <2>5. Kept(p)'
      BY <2>3, <2>4 DEF Kept
    <2>6. QED
      BY <1>2, <1>4, <2>5, IdleDoing DEF Facts
  <1>8. QED
    BY <1>5, <1>6, <1>7 DEF AddFinalizer, RemoveFinalizer, Update, histories

LEMMA SyncOneFacts ==
  ASSUME TypeOK, NEW p \in Plugins, Facts(p), NEW n \in Names, NEW lands \in BOOLEAN,
         NEW ok \in BOOLEAN, SyncOne(p, n, lands, ok)
  PROVE  Facts(p)'
  <1> DEFINE w == work[p]
             v == work'[p]
  <1>1. w \in Reconcile /\ w.pc = "sync" /\ n \in w.put \cup w.drop /\ w.copy.fin
    BY WorkType DEF SyncOne, Due, Facts, Doing, histories
  <1>2. /\ kind' = kind /\ obj' = obj /\ release' = release /\ untold' = untold
        /\ lost' = lost
    BY DEF SyncOne, histories
  <1>3. kind[p] = "native"
    BY <1>1 DEF Facts, Doing, TypeOK
  <1>4. /\ v.pc = "sync" /\ v.copy = w.copy /\ v.new = w.new
        /\ v.put = w.put \ {n} /\ v.drop = w.drop \ {n}
        /\ v.touched = IF lands THEN w.touched \cup {n} ELSE w.touched
        /\ v.err <=> w.err \/ ~ok
    BY <1>1 DEF SyncOne, Become, TypeOK, Reconcile, histories
  <1>5. /\ live'[p][n] = IF ~lands THEN live[p][n] ELSE IF n \in w.put THEN w.new ELSE NoContent
        /\ \A m \in Names : m # n => live'[p][m] = live[p][m]
    BY DEF SyncOne, TypeOK, histories
  <1>6. Reported(p)' = IF lands THEN Reported(p) \ {n} ELSE Reported(p)
    BY <1>2, <1>4 DEF Reported
  <1>7. \A m \in Reported(p)' : m \in Reported(p) /\ live'[p][m] = live[p][m]
    BY <1>5, <1>6 DEF Reported
  <1>8. Kept(p)'
    BY <1>2, <1>7 DEF Facts, Kept, Gone, Is
  <1>9. ReleaseHolds(p)'
    BY <1>2, <1>3 DEF ReleaseHolds
  <1>10. ASSUME ~v.err PROVE SyncedNative(p, w) /\ lands
    BY <1>1, <1>3, <1>4, <1>10 DEF Facts, Doing, SyncOne, histories
  <1>11. ASSUME ~v.err PROVE SyncedNative(p, work[p])'
    <2>1. live'[p][n] = Rendered(p, w.new)[n]
      BY <1>1, <1>5, <1>10, <1>11 DEF SyncedNative
    <2>2. \A m \in v.touched : live'[p][m] = Rendered(p, v.new)[m]
      <3>1. w.touched \subseteq Names
        BY <1>1 DEF Reconcile
      <3>2. \A m \in w.touched : live[p][m] = Rendered(p, w.new)[m]
        BY <1>10, <1>11 DEF SyncedNative, Is
      <3>3. QED
        BY <1>4, <1>5, <2>1, <3>1, <3>2
    <2>3. \A m \in v.put : Rendered(p, v.new)[m] = v.new
      BY <1>4, <1>10, <1>11 DEF SyncedNative
    <2>4. \A m \in v.drop : Rendered(p, v.new)[m] = NoContent
      BY <1>4, <1>10, <1>11 DEF SyncedNative
    <2>5. \A m \in Names : m \in v.copy.status.res \/ Rendered(p, v.new)[m] # NoContent
                           => m \in v.put \cup v.drop \cup v.touched
      BY <1>1, <1>4, <1>10, <1>11 DEF SyncedNative
    <2>6. QED
      BY <2>2, <2>3, <2>4, <2>5 DEF SyncedNative, Is
  <1>12. Doing(p)'
    BY <1>1, <1>2, <1>3, <1>4, <1>11 DEF Facts, Doing
  <1>13. QED
    BY <1>8, <1>9, <1>12 DEF Facts

\* Helm has been at all of p's resources.
LEMMA HelmReturned ==
  ASSUME TypeOK, NEW p \in Plugins, work[p] \in Reconcile, kind' = kind, NEW err \in BOOLEAN,
         kind[p] = "helm", work[p].copy.fin,
         HelmReturns(p, err),
         ~err => /\ Removing(work[p].copy) <=> work[p].new = NoContent
                 /\ \A n \in Names \ lost'[p] : live'[p][n] = Rendered(p, work[p].new)[n]
  PROVE  Doing(p)' /\ work'[p].touched = Names
  <1> DEFINE w == work[p]
             v == work'[p]
  <1>1. /\ v.pc = "sync" /\ v.copy = w.copy /\ v.new = w.new /\ v.put = {} /\ v.drop = {}
        /\ v.touched = Names /\ v.err = err
    BY DEF HelmReturns, Become, TypeOK, Reconcile
  <1>2. ~err => SyncedHelm(p, work[p])'
    BY <1>1 DEF SyncedHelm, Is
  <1>3. QED
    BY <1>1, <1>2 DEF Doing

\* While all of p's resources are touched its status is not believed.
LEMMA TouchedKept ==
  ASSUME NEW p \in Plugins, Facts(p), kind' = kind, obj' = obj, work'[p].touched = Names
  PROVE  Kept(p)'
  <1>1. Reported(p)' = {}
    BY DEF Reported
  <1>2. QED
    BY <1>1 DEF Facts, Kept

\* Without a record there is nothing but what is lost.
LEMMA NothingHolds ==
  ASSUME NEW p \in Plugins, release'[p] = NoRelease, \A n \in Names \ lost'[p] : live'[p][n] = NoContent
  PROVE  ReleaseHolds(p)'
  <1>1. release'[p].is = "none"
    BY DEF NoRelease
  <1>2. ~Forgets(release[p])'
    BY DEF Forgets
  <1>3. QED
    BY <1>1, <1>2 DEF ReleaseHolds

LEMMA HelmDoing ==
  ASSUME TypeOK, NEW p \in Plugins, Facts(p), work[p].pc \in {"helm", "helming"}
  PROVE  /\ work[p] \in Reconcile /\ kind[p] = "helm" /\ work[p].copy.fin /\ ~work[p].err
         /\ Removing(work[p].copy) <=> work[p].new = NoContent
  BY WorkType DEF Facts, Doing

\* Nothing but what helm can still name is left where it is not lost: the step
\* from the newest record to the next.
LEMMA HelmChangeFacts ==
  ASSUME TypeOK, NEW p \in Plugins, Facts(p), work[p].pc = "helm", ~Removing(work[p].copy),
         NEW from \in SUBSET Names, HelmChange(p, from),
         kind' = kind, obj' = obj, live' = live,
         Manifest(p, release[p].base) \subseteq from
  PROVE  Facts(p)'
  <1> DEFINE w == work[p]
             v == work'[p]
             r == release[p]
             new == Manifest(p, w.new)
  <1>1. /\ w \in Reconcile /\ kind[p] = "helm" /\ w.copy.fin /\ ~w.err /\ w.new # NoContent
    BY HelmDoing
  <1>2. release'[p] = [is |-> "pending", at |-> w.new, base |-> r.base, older |-> r # NoRelease]
    BY DEF HelmChange, TypeOK
  <1>3. lost'[p] = (lost[p] \cup (Manifest(p, r.at) \ Manifest(p, r.base))) \ new
    BY DEF HelmChange, TypeOK
  <1>4. /\ v.pc = "helming" /\ v.copy = w.copy /\ v.new = w.new /\ v.put = new /\ v.drop = from \ new
        /\ v.touched = Names /\ v.err = w.err
    BY <1>1 DEF HelmChange, Become, TypeOK, Reconcile
  <1>5. \A n \in Names \ lost[p] : live[p][n] # NoContent => n \in Manifest(p, r.at) \cup Manifest(p, r.base)
    BY <1>1 DEF Facts, ReleaseHolds
  <1>6. ReleaseHolds(p)'
    <2>1. ASSUME NEW n \in Names \ lost'[p], live'[p][n] # NoContent
          PROVE  n \in new \cup Manifest(p, r.base)
      BY <1>3, <1>5, <2>1
    <2>2. /\ release'[p].is = "pending" /\ release'[p].at = w.new /\ release'[p].base = r.base
          /\ release'[p].older = (r # NoRelease)
      BY <1>2
    <2>3. Forgets(release[p])' => r = NoRelease
      BY <2>2 DEF Forgets
    <2>4. NoRelease.base = NoContent
      BY DEF NoRelease
    <2>5. Forgets(release[p])' => release'[p].base = NoContent
      BY <2>2, <2>3, <2>4
    <2>6. QED
      BY <2>1, <2>2, <2>5 DEF ReleaseHolds
  <1>7. \A n \in Names \ (lost'[p] \cup new \cup (from \ new)) : live'[p][n] = Rendered(p, w.new)[n]
    <2>1. ASSUME NEW n \in Names, n \notin lost'[p], n \notin new, n \notin from
          PROVE  live[p][n] = NoContent
      <3>1. n \notin lost[p] /\ n \notin Manifest(p, r.at) \ Manifest(p, r.base)
        BY <1>3, <2>1
      <3>2. QED
        BY <1>5, <2>1, <3>1
    <2>2. \A n \in Names \ new : Rendered(p, w.new)[n] = NoContent
      BY DEF Rendered
    <2>3. QED
      BY <2>1, <2>2
  <1>8. Helming(p, work[p])'
    <2>1. v.put \subseteq Manifest(p, v.new) /\ v.drop \cap Manifest(p, v.new) = {}
      BY <1>4
    <2>2. \A n \in Names \ (lost'[p] \cup v.put \cup v.drop) : live'[p][n] = Rendered(p, v.new)[n]
      BY <1>4, <1>7
    <2>3. release'[p].is = "pending" /\ release'[p].at = v.new
      BY <1>2, <1>4
    <2>4. v.touched = Names /\ v.new # NoContent
      BY <1>1, <1>4
    <2>5. QED
      BY <2>1, <2>2, <2>3, <2>4 DEF Helming, Is
  <1>9. Doing(p)'
    BY <1>1, <1>4, <1>8 DEF Doing
  <1>10. QED
    BY <1>4, <1>6, <1>9, TouchedKept DEF Facts

LEMMA HelmStartFacts ==
  ASSUME TypeOK, NEW p \in Plugins, Facts(p), HelmStart(p)
  PROVE  Facts(p)'
  <1> DEFINE w == work[p]
             v == work'[p]
             r == release[p]
  <1>1. /\ w \in Reconcile /\ kind[p] = "helm" /\ w.copy.fin /\ ~w.err
        /\ w.new # NoContent /\ ~Removing(w.copy) /\ w.pc = "helm"
    BY HelmDoing DEF HelmStart
  <1>2. kind' = kind /\ obj' = obj /\ live' = live
    BY DEF HelmStart
  <1>3. Manifest(p, NoContent) = {} /\ NoRelease.base = NoContent /\ NoRelease.at = NoContent
    BY DEF Manifest, NoRelease
  <1>4. ReleaseHolds(p)
    BY DEF Facts
  <1>5. CASE HelmInstall(p)
    <2>1. HelmChange(p, {}) /\ Manifest(p, r.base) \subseteq {} /\ {} \in SUBSET Names
      BY <1>3, <1>5 DEF HelmInstall
    <2>2. QED
      BY <1>1, <1>2, <2>1, HelmChangeFacts
  <1>6. CASE HelmUpgrade(p)
    <2>1. HelmChange(p, Manifest(p, Current(r)))
      BY <1>6 DEF HelmUpgrade
    <2>2. Manifest(p, r.base) \subseteq Manifest(p, Current(r))
      BY <1>3 DEF Current
    <2>3. Current(r) \in Contents
      BY DEF Current, TypeOK, Release
    <2>4. Manifest(p, Current(r)) \in SUBSET Names
      BY <2>3, ManifestType
    <2>5. QED
      BY <1>1, <1>2, <2>1, <2>2, <2>4, HelmChangeFacts
  <1>7. CASE HelmLeaves(p)
    <2>1. HelmReturns(p, FALSE) /\ release' = release /\ lost' = lost /\ r.is = "deployed" /\ r.at = w.new
      BY <1>7 DEF HelmLeaves
    <2>2. \A n \in Names \ lost'[p] : live'[p][n] = Rendered(p, w.new)[n]
      BY <1>1, <1>2, <1>4, <2>1 DEF ReleaseHolds, Is
    <2>3. Doing(p)' /\ v.touched = Names
      BY <1>1, <1>2, <2>1, <2>2, HelmReturned
    <2>4. ReleaseHolds(p)'
      BY <1>2, <1>4, <2>1 DEF ReleaseHolds, Is
    <2>5. QED
      BY <1>2, <2>3, <2>4, TouchedKept DEF Facts
  <1>8. CASE HelmForgets(p)
    <2>1. /\ HelmReturns(p, TRUE) /\ Forgets(r) /\ release'[p] = NoRelease
          /\ lost'[p] = lost[p] \cup Manifest(p, r.at)
      BY <1>8 DEF HelmForgets, TypeOK
    <2>2. Doing(p)' /\ v.touched = Names
      BY <1>1, <1>2, <2>1, HelmReturned
    <2>3. \A n \in Names \ lost'[p] : live'[p][n] = NoContent
      BY <1>1, <1>2, <1>3, <1>4, <2>1 DEF ReleaseHolds
    <2>4. ReleaseHolds(p)'
      BY <2>1, <2>3, NothingHolds
    <2>5. QED
      BY <1>2, <2>2, <2>4, TouchedKept DEF Facts
  <1>9. CASE HelmRefuses(p)
    <2>1. HelmReturns(p, TRUE) /\ release' = release /\ lost' = lost
      BY <1>9 DEF HelmRefuses
    <2>2. Doing(p)' /\ v.touched = Names
      BY <1>1, <1>2, <2>1, HelmReturned
    <2>3. ReleaseHolds(p)'
      BY <1>2, <1>4, <2>1 DEF ReleaseHolds, Is
    <2>4. QED
      BY <1>2, <2>2, <2>3, TouchedKept DEF Facts
  <1>10. QED
    BY <1>5, <1>6, <1>7, <1>8, <1>9 DEF HelmStart

LEMMA HelmFailsFacts ==
  ASSUME TypeOK, NEW p \in Plugins, Facts(p), HelmFails(p)
  PROVE  Facts(p)'
  <1>1. /\ work[p] \in Reconcile /\ kind[p] = "helm" /\ work[p].copy.fin /\ work[p].pc = "helm"
    BY HelmDoing DEF HelmFails
  <1>2. /\ kind' = kind /\ obj' = obj /\ live' = live /\ release' = release /\ lost' = lost
        /\ HelmReturns(p, TRUE)
    BY DEF HelmFails, histories
  <1>3. Doing(p)' /\ work'[p].touched = Names
    BY <1>1, <1>2, HelmReturned
  <1>4. ReleaseHolds(p)'
    BY <1>2 DEF Facts, ReleaseHolds, Is
  <1>5. QED
    BY <1>2, <1>3, <1>4, TouchedKept DEF Facts

\* A resource that helm has written or deleted is as w wants it, and is no
\* longer lost.
LEMMA HelmOneFacts ==
  ASSUME TypeOK, NEW p \in Plugins, Facts(p), NEW n \in Names, HelmOne(p, n)
  PROVE  Facts(p)'
  <1> DEFINE w == work[p]
             v == work'[p]
             r == release[p]
  <1>1. /\ w \in Reconcile /\ kind[p] = "helm" /\ w.copy.fin /\ ~w.err
        /\ (Removing(w.copy) <=> w.new = NoContent) /\ w.pc = "helming"
    BY HelmDoing DEF HelmOne
  <1>2. Helming(p, w) /\ ReleaseHolds(p)
    BY <1>1 DEF Facts, Doing
  <1>3. /\ kind' = kind /\ obj' = obj /\ release' = release
        /\ lost'[p] = lost[p] \ {n}
        /\ \A m \in Names : live'[p][m] = IF m = n THEN Rendered(p, w.new)[n] ELSE live[p][m]
    BY DEF HelmOne, TypeOK
  <1>4. /\ v.pc = "helming" /\ v.copy = w.copy /\ v.new = w.new /\ v.touched = w.touched /\ v.err = w.err
        /\ v.put = w.put \ {n} /\ v.drop = w.drop \ {n}
    BY <1>1 DEF HelmOne, Become, TypeOK, Reconcile
  <1>5. Rendered(p, w.new)[n] # NoContent => n \in Manifest(p, w.new)
    BY DEF Rendered
  <1>6. ReleaseHolds(p)'
    <2>1. r.is = "pending" /\ r.at = w.new
      BY <1>2 DEF Helming
    <2>2. ASSUME NEW m \in Names \ lost'[p], live'[p][m] # NoContent
          PROVE  m \in Manifest(p, r.at) \cup Manifest(p, r.base)
      BY <1>1, <1>2, <1>3, <1>5, <2>1, <2>2 DEF ReleaseHolds
    <2>3. Forgets(r) => r.base = NoContent
      BY <1>1, <1>2 DEF ReleaseHolds
    <2>4. QED
      BY <1>3, <2>1, <2>2, <2>3 DEF ReleaseHolds
  <1>7. \A m \in Names \ (lost'[p] \cup v.put \cup v.drop) : live'[p][m] = Rendered(p, v.new)[m]
    <2>1. ASSUME NEW m \in Names, m \notin lost'[p], m \notin v.put, m \notin v.drop, m # n
          PROVE  live'[p][m] = Rendered(p, w.new)[m]
      BY <1>2, <1>3, <1>4, <2>1 DEF Helming, Is
    <2>2. QED
      BY <1>3, <1>4, <2>1
  <1>8. Helming(p, work[p])'
    BY <1>2, <1>3, <1>4, <1>7 DEF Helming, Is
  <1>9. Doing(p)'
    BY <1>1, <1>3, <1>4, <1>8 DEF Doing
  <1>10. v.touched = Names
    BY <1>2, <1>4 DEF Helming
  <1>11. QED
    BY <1>3, <1>6, <1>9, <1>10, TouchedKept DEF Facts

LEMMA HelmEndFacts ==
  ASSUME TypeOK, NEW p \in Plugins, Facts(p), NEW ok \in BOOLEAN, HelmEnd(p, ok)
  PROVE  Facts(p)'
  <1> DEFINE w == work[p]
             r == release[p]
             s == release'[p]
  <1>1. /\ w \in Reconcile /\ kind[p] = "helm" /\ w.copy.fin /\ w.pc = "helming"
        /\ (Removing(w.copy) <=> w.new = NoContent)
    BY HelmDoing DEF HelmEnd
  <1>2. kind' = kind /\ obj' = obj /\ live' = live /\ lost' = lost
    BY DEF HelmEnd, histories
  <1>3. Helming(p, w) /\ ReleaseHolds(p)
    BY <1>1 DEF Facts, Doing
  <1>4. ok => \A n \in Names \ lost'[p] : live'[p][n] = Rendered(p, w.new)[n]
    BY <1>2, <1>3 DEF HelmEnd, Helming, Is
  <1>5. Doing(p)' /\ work'[p].touched = Names
    <2>1. HelmReturns(p, ~ok) /\ (~ok) \in BOOLEAN
      BY DEF HelmEnd
    <2>2. QED
      BY <1>1, <1>2, <1>4, <2>1, HelmReturned
  <1>6. /\ \A n \in Names \ lost[p] : live[p][n] # NoContent => n \in Manifest(p, r.at) \cup Manifest(p, r.base)
        /\ r.at = w.new /\ r.is = "pending"
        /\ Forgets(r) => r.base = NoContent
    BY <1>1, <1>3 DEF Helming, ReleaseHolds
  <1>7. CASE ok
    <2>1. s.is = "deployed" /\ s.at = w.new /\ s.base = w.new
      BY <1>7 DEF HelmEnd, Deployed, TypeOK
    <2>2. ~Forgets(release[p])'
      BY <2>1 DEF Forgets
    <2>3. \A n \in Names : Rendered(p, w.new)[n] # NoContent => n \in Manifest(p, w.new)
      BY DEF Rendered
    <2>4. ReleaseHolds(p)'
      BY <1>4, <1>7, <2>1, <2>2, <2>3 DEF ReleaseHolds, Is
    <2>5. QED
      BY <1>2, <1>5, <2>4, TouchedKept DEF Facts
  <1>8. CASE ~ok
    <2>1. s = [r EXCEPT !.is = "failed"] /\ r \in Release
      BY <1>8 DEF HelmEnd, TypeOK
    <2>2. s.is = "failed" /\ s.at = r.at /\ s.base = r.base /\ s.older = r.older
      BY <2>1 DEF Release
    <2>3. r # NoRelease
      BY <1>6 DEF NoRelease
    <2>4. Forgets(release[p])' => s.base = NoContent
      BY <1>6, <2>2, <2>3 DEF Forgets
    <2>5. ReleaseHolds(p)'
      BY <1>2, <1>6, <2>2, <2>4 DEF ReleaseHolds
    <2>6. QED
      BY <1>2, <1>5, <2>5, TouchedKept DEF Facts
  <1>9. QED
    BY <1>7, <1>8

LEMMA UninstallFacts ==
  ASSUME TypeOK, NEW p \in Plugins, Facts(p), NEW ok \in BOOLEAN, NEW left \in SUBSET Names,
         Uninstall(p, left, ok)
  PROVE  Facts(p)'
  <1> DEFINE w == work[p]
             r == release[p]
             s == release'[p]
  <1>1. /\ w \in Reconcile /\ kind[p] = "helm" /\ w.copy.fin
        /\ Removing(w.copy) /\ w.new = NoContent
    BY HelmDoing DEF Uninstall
  <1>2. kind' = kind /\ obj' = obj
    BY DEF Uninstall
  <1>3. \A n \in Names : live'[p][n] = IF n \in Manifest(p, r.at) \ left THEN NoContent ELSE live[p][n]
    BY DEF Uninstall, TypeOK
  <1>4. /\ \A n \in Names \ lost[p] : live[p][n] # NoContent => n \in Manifest(p, r.at) \cup Manifest(p, r.base)
        /\ r.is = "deployed" => r.base = r.at
        /\ Forgets(r) => r.base = NoContent
    BY <1>1 DEF Facts, ReleaseHolds
  <1>5. lost'[p] = IF ok THEN lost[p] \cup (Manifest(p, r.base) \ Manifest(p, r.at)) ELSE lost[p]
    BY DEF Uninstall, TypeOK
  <1>6. ok => \A n \in Names \ lost'[p] : live'[p][n] = NoContent
    <2>1. ok => left = {}
      BY DEF Uninstall
    <2>2. QED
      BY <1>3, <1>4, <1>5, <2>1
  <1>7. \A n \in Names : Rendered(p, w.new)[n] = NoContent
    BY <1>1, Rendering
  <1>8. Doing(p)' /\ work'[p].touched = Names
    <2>1. HelmReturns(p, ~ok) /\ (~ok) \in BOOLEAN
      BY DEF Uninstall
    <2>2. ok => \A n \in Names \ lost'[p] : live'[p][n] = Rendered(p, w.new)[n]
      BY <1>6, <1>7
    <2>3. QED
      BY <1>1, <1>2, <2>1, <2>2, HelmReturned
  <1>9. CASE ok
    <2>1. s = NoRelease
      BY <1>9 DEF Uninstall, TypeOK
    <2>2. ReleaseHolds(p)'
      BY <1>6, <1>9, <2>1, NothingHolds
    <2>3. QED
      BY <1>2, <1>8, <2>2, TouchedKept DEF Facts
  <1>10. CASE ~ok
    <2>1. /\ s = [r EXCEPT !.is = "uninstalling", !.base = IF r.is = "deployed" THEN NoContent ELSE r.base]
          /\ r \in Release /\ r # NoRelease
      BY <1>10 DEF Uninstall, TypeOK
    <2>2. /\ s.is = "uninstalling" /\ s.at = r.at /\ s.older = r.older
          /\ s.base = IF r.is = "deployed" THEN NoContent ELSE r.base
      BY <2>1 DEF Release
    <2>3. \A n \in Names \ lost'[p] : live'[p][n] # NoContent => n \in Manifest(p, s.at) \cup Manifest(p, s.base)
      BY <1>3, <1>4, <1>5, <1>10, <2>2
    <2>4. Forgets(release[p])' => s.base = NoContent
      BY <1>4, <2>1, <2>2 DEF Forgets
    <2>5. ReleaseHolds(p)'
      BY <2>2, <2>3, <2>4 DEF ReleaseHolds
    <2>6. QED
      BY <1>2, <1>8, <2>5, TouchedKept DEF Facts
  <1>11. QED
    BY <1>9, <1>10

LEMMA WriteStatusFacts ==
  ASSUME TypeOK, NEW p \in Plugins, Facts(p), NEW ok \in BOOLEAN, WriteStatus(p, ok)
  PROVE  Facts(p)'
  <1> USE PluginAssumption
  <1> DEFINE w == work[p]
             s == obj'[p].status
             lands == ok /\ obj[p] = w.copy
  <1>1. /\ w \in Reconcile /\ w.copy \in Object /\ w.touched \subseteq Names
        /\ w.copy.fin /\ w.put = {} /\ w.drop = {} /\ kind[p] \in {"native", "helm"}
    BY WorkType DEF WriteStatus, Facts, Doing, Reconcile, TypeOK
  <1>2. /\ kind' = kind /\ live' = live /\ release' = release /\ work'[p] = Idle /\ lost' = lost
        /\ Reported(p)' = Names \ (untold'[p] \cup lost[p])
    BY DEF WriteStatus, Update, Become, TypeOK, Reported, Idle
  <1>3. ReleaseHolds(p)'
    BY <1>2 DEF Facts, ReleaseHolds, Is
  <1>4. CASE ~lands
    <2>1. obj' = obj /\ untold'[p] = untold[p] \cup w.touched
      BY <1>4 DEF WriteStatus, Update, TypeOK
    <2>2. Reported(p)' = Reported(p)
      BY <1>2, <2>1 DEF Reported
    <2>3. Kept(p)'
      BY <1>2, <2>1, <2>2 DEF Facts, Kept, Gone, Is
    <2>4. QED
      BY <1>2, <1>3, <2>3, IdleDoing DEF Facts
  <1>5. CASE lands
    <2>1. /\ obj'[p] = [obj[p] EXCEPT !.status = Result(p, w)]
          /\ obj[p] = w.copy /\ obj[p] \in Object /\ obj[p] # NoObject
      BY <1>1, <1>5 DEF WriteStatus, Update, TypeOK, Object, NoObject
    <2>2. s = Result(p, w) /\ obj'[p].fin /\ obj'[p] # NoObject
      BY <1>1, <2>1 DEF Object, NoObject
    <2>3. CASE w.err
      <3>1. s.phase = "Failed" /\ s.res = obj[p].status.res
        <4>1. s = [obj[p].status EXCEPT !.phase = "Failed"] /\ obj[p].status \in Status
          BY <2>1, <2>2, <2>3 DEF Result, Object
        <4>2. QED
          BY <4>1 DEF Status
      <3>2. untold'[p] = untold[p] \cup (w.touched \ obj[p].status.res)
        BY <1>5, <2>1, <2>3 DEF WriteStatus, TypeOK
      <3>3. \A n \in Reported(p)' \ s.res : n \in Reported(p) \ obj[p].status.res
        BY <1>2, <3>1, <3>2 DEF Reported
      <3>4. Kept(p)'
        BY <1>2, <2>1, <2>2, <3>1, <3>3 DEF Facts, Kept, Gone
      <3>5. QED
        BY <1>2, <1>3, <3>4, IdleDoing DEF Facts
    <2>4. CASE ~w.err
      <3>1. \A n \in Reported(p)' : n \in Names \ lost[p] /\ (n \in w.touched \/ n \in Reported(p))
        BY <1>2, <1>5, <2>4 DEF WriteStatus, TypeOK, Reported
      <3>2. Removing(w.copy) <=> w.new = NoContent
        BY <2>4 DEF WriteStatus, Facts, Doing
      <3>3. \A n \in Reported(p)' : live[p][n] = Rendered(p, w.new)[n]
        <4>1. CASE kind[p] = "native"
          <5>1. SyncedNative(p, w)
            BY <2>4, <4>1 DEF WriteStatus, Facts, Doing
          <5>2. CASE Applied(p, w.copy, w.new) /\ w.touched = {}
            BY <2>1, <3>1, <5>2 DEF Applied, Facts, Kept, Is
          <5>3. CASE \A n \in Names : n \in w.copy.status.res \/ Rendered(p, w.new)[n] # NoContent
                                      => n \in w.put \cup w.drop \cup w.touched
            <6>1. ASSUME NEW n \in Reported(p)', n \notin w.touched
                  PROVE  live[p][n] = Rendered(p, w.new)[n]
              <7>1. n \notin w.copy.status.res /\ Rendered(p, w.new)[n] = NoContent /\ n \in Reported(p)
                BY <1>1, <3>1, <5>3, <6>1
              <7>2. QED
                BY <2>1, <4>1, <7>1 DEF Facts, Kept
            <6>2. QED
              BY <5>1, <6>1 DEF SyncedNative, Is
          <5>4. QED
            BY <5>1, <5>2, <5>3 DEF SyncedNative
        <4>2. CASE kind[p] = "helm"
          <5>1. SyncedHelm(p, w)
            BY <2>4, <4>2 DEF WriteStatus, Facts, Doing
          <5>2. CASE w.touched = Names /\ \A n \in Names \ lost[p] : Is(p, n, w.new)
            BY <3>1, <5>2 DEF Is
          <5>3. CASE w.touched = {} /\ Removing(w.copy) /\ w.copy.status.phase = "Disabled"
            <6>1. Gone(obj[p])
              BY <2>1, <5>3 DEF Gone
            <6>2. \A n \in Reported(p)' : live[p][n] = NoContent
              BY <3>1, <5>3, <6>1 DEF Facts, Kept
            <6>3. QED
              BY <3>1, <3>2, <5>3, <6>2, Rendering
          <5>4. QED
            BY <5>1, <5>2, <5>3 DEF SyncedHelm
        <4>3. QED
          BY <1>1, <4>1, <4>2
      <3>4. CASE Removing(w.copy)
        <4>1. s.phase = "Disabled"
          <5>1. obj[p].status \in Status
            BY <2>1 DEF Object
          <5>2. QED
            BY <2>1, <2>2, <2>4, <3>4, <5>1 DEF Result, Status
        <4>2. \A n \in Reported(p)' : live'[p][n] = NoContent
          BY <1>2, <3>1, <3>2, <3>3, <3>4, Rendering
        <4>3. Kept(p)'
          BY <2>2, <4>1, <4>2 DEF Kept
        <4>4. QED
          BY <1>2, <1>3, <4>3, IdleDoing DEF Facts
      <3>5. CASE ~Removing(w.copy)
        <4>1. s.phase = "Installed" /\ s.at = w.new /\ s.res = Renders[p][w.new.spec]
          BY <2>2, <2>4, <3>5 DEF Result
        <4>2. \A n \in Reported(p)' : Is(p, n, obj[p].status.at)'
          BY <1>2, <3>3, <4>1 DEF Is
        <4>3. \A n \in Reported(p)' \ s.res : live'[p][n] = NoContent
          BY <1>2, <3>1, <3>2, <3>3, <3>5, <4>1, Rendering
        <4>4. Kept(p)'
          BY <2>2, <4>1, <4>2, <4>3 DEF Kept, Gone
        <4>5. QED
          BY <1>2, <1>3, <4>4, IdleDoing DEF Facts
      <3>6. QED
        BY <3>4, <3>5
    <2>5. QED
      BY <2>3, <2>4
  <1>6. QED
    BY <1>4, <1>5

LEMMA CrashFacts ==
  ASSUME TypeOK, NEW p \in Plugins, Facts(p), Crash
  PROVE  Facts(p)'
  <1>1. /\ kind' = kind /\ obj' = obj /\ live' = live /\ release' = release /\ work'[p] = Idle
        /\ lost' = lost /\ untold'[p] = untold[p] \cup work[p].touched
    BY DEF Crash
  <1>2. Reported(p)' = Reported(p)
    BY <1>1 DEF Reported, Idle
  <1>3. Kept(p)'
    BY <1>1, <1>2 DEF Facts, Kept, Gone, Is
  <1>4. ReleaseHolds(p)'
    BY <1>1 DEF Facts, ReleaseHolds, Is
  <1>5. QED
    BY <1>1, <1>3, <1>4, IdleDoing DEF Facts

-----------------------------------------------------------------------------
(* The invariant *)

LEMMA EditsOthers ==
  ASSUME TypeOK, NEW p \in Plugins, NEW q \in Plugins, p # q,
         (\E s \in Specs : Install(p, s)) \/ Disable(p) \/ UnInstall(p)
  PROVE  Same(q)
  <1>1. \E o : Edit(p, o)
    BY DEF Install, Disable, UnInstall
  <1>2. QED
    BY <1>1, EditOthers

LEMMA WorkFacts ==
  ASSUME TypeOK, NEW p \in Plugins, Facts(p), Work(p)
  PROVE  Facts(p)'
  BY HelmStartFacts, HelmFailsFacts, HelmOneFacts, TakeFacts, FinalizerFacts, SyncOneFacts, UninstallFacts,
     HelmEndFacts, WriteStatusFacts DEF Work

LEMMA InvInit == Init => Inv
  BY TypeInit, FactsInit DEF Inv

LEMMA InvStep == Inv /\ [Next]_vars => Inv'
  <1> SUFFICES ASSUME Inv, [Next]_vars PROVE Inv'
    OBVIOUS
  <1>1. TypeOK /\ \A q \in Plugins : Facts(q)
    BY DEF Inv
  <1>2. TypeOK'
    BY <1>1, TypeStep DEF Facts
  <1>3. ASSUME NEW q \in Plugins PROVE Facts(q)'
    <2>1. CASE UNCHANGED vars
      BY <1>1, <2>1, SameKeeps DEF vars, Same
    <2>2. CASE Crash
      BY <1>1, <2>2, CrashFacts
    <2>3. ASSUME NEW p \in Plugins, (\E s \in Specs : Install(p, s)) \/ Disable(p) \/ UnInstall(p)
          PROVE  Facts(q)'
      <3>1. CASE p = q
        BY <1>1, <2>3, <3>1, InstallFacts, DisableFacts, UnInstallFacts
      <3>2. CASE p # q
        BY <1>1, <2>3, <3>2, EditsOthers, SameKeeps
      <3>3. QED
        BY <3>1, <3>2
    <2>4. ASSUME NEW p \in Plugins, Watch(p) \/ WatchConfigMap(p) PROVE Facts(q)'
      BY <1>1, <2>4, WatchOthers, SameKeeps
    <2>5. ASSUME NEW p \in Plugins, Work(p) PROVE Facts(q)'
      <3>1. CASE p = q
        BY <1>1, <2>5, <3>1, WorkFacts
      <3>2. CASE p # q
        BY <1>1, <2>5, <3>2, WorkOthers, SameKeeps
      <3>3. QED
        BY <3>1, <3>2
    <2>6. QED
      BY <2>1, <2>2, <2>3, <2>4, <2>5 DEF Next
  <1>4. QED
    BY <1>2, <1>3 DEF Inv

LEMMA Invariant == Spec => []Inv
  BY InvInit, InvStep, PTL DEF Spec

\* Every state of the model is well typed (controller.go:136-183).
THEOREM TypeCorrect == Spec => []TypeOK
  <1>1. Inv => TypeOK
    BY DEF Inv
  <1>2. QED
    BY <1>1, Invariant, PTL

\* A plugin stored as Installed has the resources its status names, with
\* their content, and no others, but for what failed syncs, lost status writes
\* and deleted or passed over helm records leave behind (helm-rls.go:124-125).
THEOREM InstalledIsCorrect == Spec => []InstalledIsThere
  <1>1. Inv => InstalledIsThere
    BY DEF Inv, Facts, Kept, Is, InstalledIsThere
  <1>2. QED
    BY <1>1, Invariant, PTL

\* A plugin that is gone or stored as Disabled has left no resource behind,
\* but for the same.
THEOREM RemovedIsCorrect == Spec => []RemovedIsGone
  <1>1. ASSUME Inv, NEW p \in Plugins, obj[p] = NoObject \/ obj[p].status.phase = "Disabled"
        PROVE  \A n \in Reported(p) : live[p][n] = NoContent
    <2>1. Gone(obj[p])
      BY <1>1 DEF Gone
    <2>2. QED
      BY <1>1, <2>1 DEF Inv, Facts, Kept
  <1>2. Inv => RemovedIsGone
    BY <1>1 DEF RemovedIsGone
  <1>3. QED
    BY <1>2, Invariant, PTL
=============================================================================
