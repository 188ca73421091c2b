--------------------------- MODULE Environment_proofs ---------------------------
(***************************************************************************)
(* What holds of every project, however many environments, namespaces,     *)
(* requests and failures there are: rows and objects agree, and what goes  *)
(* with an environment is its own.                                         *)
(***************************************************************************)
EXTENDS Environment, TLAPS

-----------------------------------------------------------------------------
(* Type correctness                                                         *)

UnderWay == {"checked", "saved", "applied"}

LEMMA Objects ==
  /\ NoObject \notin Object /\ \A o \in Object : o # NoObject
  /\ \A o \in Object : /\ o.uid \in Nat \ {0} /\ o.rev \in Nat /\ o.ns \in Namespaces
                       /\ o.policy \in Policies /\ o.deleting \in BOOLEAN /\ o.fin \in BOOLEAN
<1>1. NoObject.uid = 0
  BY DEF NoObject
<1>2. \A o \in Object : /\ o.uid \in Nat \ {0} /\ o.rev \in Nat /\ o.ns \in Namespaces
                        /\ o.policy \in Policies /\ o.deleting \in BOOLEAN /\ o.fin \in BOOLEAN
  BY DEF Object
<1>3. \A o \in Object : o # NoObject
  BY <1>1, <1>2
<1>4. QED
  BY <1>2, <1>3

LEMMA Rows ==
  /\ \A x \in Row : x # NoRow /\ x.id \in Requests /\ x.ns \in Namespaces /\ x.policy \in Policies
  /\ \A x \in Row, i \in Requests : [x EXCEPT !.id = i] \in Row
<1>1. NoRow.id = 0 /\ 0 \notin Requests
  BY EnvironmentAssumption DEF NoRow
<1>2. \A x \in Row : x.id \in Requests /\ x.ns \in Namespaces /\ x.policy \in Policies
  BY DEF Row
<1>3. \A x \in Row : x # NoRow
  BY <1>1, <1>2
<1>4. \A x \in Row, i \in Requests : [x EXCEPT !.id = i] \in Row
  BY DEF Row
<1>5. QED
  BY <1>2, <1>3, <1>4

\* What a request or a controller makes of an object is one.
LEMMA ObjectMade ==
  ASSUME NEW o \in Object
  PROVE  /\ \A x \in Row : Updated(o, x) \in Object
         /\ [o EXCEPT !.rev = @ + 1, !.deleting = TRUE] \in Object
         /\ Held(o) \in Object
         /\ Deleted(o) \in Object \cup {NoObject}
<1>1. /\ o.uid \in Nat \ {0} /\ o.rev \in Nat /\ o.rev + 1 \in Nat /\ o.ns \in Namespaces
      /\ o.policy \in Policies /\ o.deleting \in BOOLEAN /\ o.fin \in BOOLEAN
  BY Objects
<1>2. \A x \in Row : Updated(o, x) \in Object
  <2>1. \A n \in Namespaces, p \in Policies :
          [o EXCEPT !.rev = @ + 1, !.ns = n, !.policy = p] \in Object
    BY <1>1 DEF Object
  <2>2. QED
    BY <2>1, Rows DEF Updated
<1>3. [o EXCEPT !.rev = @ + 1, !.deleting = TRUE] \in Object
  BY <1>1 DEF Object
<1>4. [o EXCEPT !.rev = @ + 1, !.fin = TRUE] \in Object
  BY <1>1 DEF Object
<1>5. QED
  BY <1>2, <1>3, <1>4 DEF Held, Deleted

LEMMA RequestKinds ==
  ASSUME NEW q \in Begun \cup {Ready, Over}
  PROVE  /\ q.pc \in {"ready", "over"} \cup UnderWay
         /\ q.pc \in UnderWay => q \in Begun
         /\ q \in Begun => /\ q.pc \in UnderWay /\ q.op \in {"post", "put", "delete", "project"}
                           /\ q.env \in Envs /\ q.row \in Row \cup {NoRow} /\ q.left \in SUBSET Envs
<1>1. CASE q \in Begun
  BY <1>1 DEF Begun, UnderWay
<1>2. CASE q = Ready
  BY <1>2 DEF Begun, Ready, UnderWay
<1>3. CASE q = Over
  BY <1>3 DEF Begun, Over, UnderWay
<1>4. QED
  BY <1>1, <1>2, <1>3

LEMMA RequestMoves ==
  ASSUME NEW q \in Begun
  PROVE  /\ \A c \in UnderWay : [q EXCEPT !.pc = c] \in Begun
         /\ \A e \in Envs : [q EXCEPT !.left = @ \ {e}] \in Begun
  BY DEF Begun, UnderWay

LEMMA Workings ==
  ASSUME NEW w \in Working \cup {Idle}
  PROVE  /\ w.pc # "idle" => w \in Working
         /\ w \in Working => /\ w.pc \in {"bind", "limit", "hold", "release", "unhold"}
                             /\ w.env \in Envs /\ w.copy \in Object
                             /\ \A c \in {"bind", "limit", "hold", "release", "unhold"} :
                                   [w EXCEPT !.pc = c] \in Working
<1>1. CASE w \in Working
  BY <1>1 DEF Working
<1>2. CASE w = Idle
  BY <1>2 DEF Working, Idle
<1>3. QED
  BY <1>1, <1>2

\* What an edit or a deletion needs of the row it was given
OpInv ==
  \A r \in Requests :
    /\ req[r].pc \in UnderWay /\ req[r].op # "project" => req[r].row \in Row
    /\ req[r].pc = "applied" => req[r].op # "project"
    /\ req[r].pc \in {"saved", "applied"} /\ req[r].op # "delete" => req[r].hits = TRUE

LEMMA OutcomeType ==
  ASSUME failures \in 0 .. MaxFailures, NEW ok, Outcome(ok)
  PROVE  failures' \in 0 .. MaxFailures
  BY EnvironmentAssumption DEF Outcome

LEMMA InitType == Init => TypeOK /\ OpInv
<1> SUFFICES ASSUME Init PROVE TypeOK /\ OpInv
  OBVIOUS
<1>1. None \in Owner /\ Free \in Namespace
  BY DEF Owner, None, Free, Namespace
<1>2. nss \in [Namespaces -> Namespace \cup {Absent}] /\ quota \in [Namespaces -> Quota \cup {Absent}]
  BY <1>1 DEF Init, Free
<1>3. TypeOK
  BY <1>2, EnvironmentAssumption DEF Init, TypeOK
<1>4. OpInv
  BY DEF Init, OpInv, Ready, UnderWay
<1>5. QED
  BY <1>3, <1>4

LEMMA RequestStep ==
  ASSUME TypeOK, OpInv, NEW r \in Requests, NEW q \in Begun \cup {Over},
         req' = [req EXCEPT ![r] = q],
         q.pc \in UnderWay /\ q.op # "project" => q.row \in Row,
         q.pc = "applied" => q.op # "project",
         q.pc \in {"saved", "applied"} /\ q.op # "delete" => q.hits = TRUE
  PROVE  req' \in [Requests -> Begun \cup {Ready, Over}] /\ OpInv'
<1>1. req \in [Requests -> Begun \cup {Ready, Over}]
  BY DEF TypeOK
<1>2. req' \in [Requests -> Begun \cup {Ready, Over}]
  BY <1>1
<1>3. \A x \in Requests : req'[x] = IF x = r THEN q ELSE req[x]
  BY <1>1
<1>4. OpInv'
  BY <1>3 DEF OpInv
<1>5. QED
  BY <1>2, <1>4

\* How far a request is
LEMMA AsBegun ==
  ASSUME TypeOK, OpInv, NEW r \in Requests, req[r].pc \in UnderWay
  PROVE  /\ req[r] \in Begun /\ req[r].op \in {"post", "put", "delete", "project"}
         /\ req[r].env \in Envs /\ req[r].left \in SUBSET Envs
         /\ req[r].op # "project" => req[r].row \in Row
         /\ req[r].pc = "applied" => req[r].op # "project"
         /\ req[r].pc \in {"saved", "applied"} /\ req[r].op # "delete" => req[r].hits = TRUE
<1>1. req[r] \in Begun \cup {Ready, Over}
  BY DEF TypeOK
<1>2. req[r] \in Begun
  BY <1>1, RequestKinds
<1>3. QED
  BY <1>1, <1>2, RequestKinds DEF OpInv

LEMMA CheckType ==
  ASSUME TypeOK, OpInv, NEW r \in Requests, NEW op \in {"post", "put", "delete", "project"},
         NEW e \in Envs, NEW row \in Row \cup {NoRow}, NEW left \in SUBSET Envs,
         op # "project" => row \in Row, Check(r, op, e, row, left)
  PROVE  TypeOK' /\ OpInv'
<1> DEFINE q == [pc |-> "checked", op |-> op, env |-> e, row |-> row, left |-> left,
                hits |-> FALSE]
<1>1. q \in Begun /\ q.pc = "checked" /\ q.op = op /\ q.row = row
  BY DEF Begun
<1>2. req' = [req EXCEPT ![r] = q]
  BY DEF Check
<1> HIDE DEF q
<1>3. req' \in [Requests -> Begun \cup {Ready, Over}] /\ OpInv'
  BY <1>1, <1>2, RequestStep
<1>4. UNCHANGED <<db, project, cr, born, nss, quota, seen, queue, work, failures, apart, bound>>
  BY DEF Check, cluster, controller
<1>5. QED
  BY <1>3, <1>4 DEF TypeOK

LEMMA BeginType ==
  ASSUME TypeOK, OpInv, NEW r \in Requests
  PROVE  /\ \A e \in Envs, n \in Namespaces, p \in Policies :
              PostProjectEnvironment(r, e, n, p) \/ PutEnvironment(r, e, n, p) => TypeOK' /\ OpInv'
         /\ \A e \in Envs : DeleteEnvironment(r, e) => TypeOK' /\ OpInv'
         /\ DeleteProject(r) => TypeOK' /\ OpInv'
<1>1. \A e \in Envs : db[e] # NoRow => db[e] \in Row /\ db[e].id \in Requests
  BY Rows DEF TypeOK
<1>2. \A n \in Namespaces, p \in Policies, i \in Requests : [id |-> i, ns |-> n, policy |-> p] \in Row
  BY DEF Row
<1>3. ASSUME NEW e \in Envs, NEW n \in Namespaces, NEW p \in Policies, PostProjectEnvironment(r, e, n, p)
      PROVE  TypeOK' /\ OpInv'
  <2>1. [id |-> r, ns |-> n, policy |-> p] \in Row
    BY <1>2
  <2>2. QED
    BY <1>3, <2>1, CheckType DEF PostProjectEnvironment
<1>4. ASSUME NEW e \in Envs, NEW n \in Namespaces, NEW p \in Policies, PutEnvironment(r, e, n, p)
      PROVE  TypeOK' /\ OpInv'
  <2>1. [id |-> db[e].id, ns |-> n, policy |-> p] \in Row
    BY <1>1, <1>2, <1>4 DEF PutEnvironment
  <2>2. QED
    BY <1>4, <2>1, CheckType DEF PutEnvironment
<1>5. ASSUME NEW e \in Envs, DeleteEnvironment(r, e) PROVE TypeOK' /\ OpInv'
  BY <1>1, <1>5, CheckType DEF DeleteEnvironment
<1>6. ASSUME DeleteProject(r) PROVE TypeOK' /\ OpInv'
  <2>1. PICK e \in Envs : Check(r, "project", e, NoRow, {f \in Envs : db[f] # NoRow})
    BY <1>6 DEF DeleteProject
  <2>2. {f \in Envs : db[f] # NoRow} \in SUBSET Envs
    OBVIOUS
  <2>3. QED
    BY <2>1, <2>2, CheckType
<1>7. QED
  BY <1>3, <1>4, <1>5, <1>6

LEMMA SaveType ==
  ASSUME TypeOK, OpInv, NEW r \in Requests, Save(r)
  PROVE  TypeOK' /\ OpInv'
<1> DEFINE hits == req[r].op = "delete" => db[req[r].env].id = req[r].row.id
           q == [req[r] EXCEPT !.pc = "saved", !.hits = hits]
<1>1. req[r].pc \in UnderWay
  BY DEF Save, UnderWay
<1>2. req[r] \in Begun /\ (req[r].op # "project" => req[r].row \in Row)
  BY <1>1, AsBegun
<1>3. q \in Begun /\ q.pc = "saved" /\ q.op = req[r].op /\ q.row = req[r].row /\ q.hits = hits
  <2>1. hits \in BOOLEAN
    OBVIOUS
  <2> HIDE DEF hits
  <2>2. QED
    BY <1>2, <2>1 DEF Begun
<1>4. Over.pc = "over"
  BY DEF Over
<1>5. req' = [req EXCEPT ![r] = q] \/ req' = [req EXCEPT ![r] = Over]
  BY DEF Save
<1>6. req[r].op # "delete" => hits
  OBVIOUS
<1> HIDE DEF q, hits
<1>7. req' \in [Requests -> Begun \cup {Ready, Over}] /\ OpInv'
  <2>1. CASE req' = [req EXCEPT ![r] = q]
    BY <1>2, <1>3, <1>6, <2>1, RequestStep
  <2>2. CASE req' = [req EXCEPT ![r] = Over]
    BY <1>4, <2>2, RequestStep DEF UnderWay
  <2>3. QED
    BY <1>5, <2>1, <2>2
<1>8. UNCHANGED <<db, project, cr, born, nss, quota, seen, queue, work, failures, apart, bound>>
  BY DEF Save, cluster, controller
<1>9. QED
  BY <1>7, <1>8 DEF TypeOK

\* A request goes on to "applied", or is over.
LEMMA AppliedType ==
  ASSUME TypeOK, OpInv, NEW r \in Requests, NEW ok, req[r].pc = "saved", req[r].op # "project",
         req' = [req EXCEPT ![r] = IF ok THEN [req[r] EXCEPT !.pc = "applied"] ELSE Over]
  PROVE  req' \in [Requests -> Begun \cup {Ready, Over}] /\ OpInv'
<1> DEFINE q == [req[r] EXCEPT !.pc = "applied"]
<1>1. req[r].pc \in UnderWay
  BY DEF UnderWay
<1>2. req[r] \in Begun /\ req[r].row \in Row /\ (req[r].op # "delete" => req[r].hits = TRUE)
  BY <1>1, AsBegun
<1>3. /\ q \in Begun /\ q.pc = "applied" /\ q.op = req[r].op /\ q.row = req[r].row
      /\ q.hits = req[r].hits
  BY <1>2 DEF Begun
<1>4. Over.pc = "over"
  BY DEF Over
<1>5. req' = [req EXCEPT ![r] = q] \/ req' = [req EXCEPT ![r] = Over]
  OBVIOUS
<1> HIDE DEF q
<1>6. CASE req' = [req EXCEPT ![r] = q]
  BY <1>2, <1>3, <1>6, RequestStep
<1>7. CASE req' = [req EXCEPT ![r] = Over]
  BY <1>4, <1>7, RequestStep DEF UnderWay
<1>8. QED
  BY <1>5, <1>6, <1>7

LEMMA ApplyType ==
  ASSUME TypeOK, OpInv, NEW r \in Requests, NEW lands \in BOOLEAN, NEW ok \in BOOLEAN,
         Apply(r, lands, ok)
  PROVE  TypeOK' /\ OpInv'
<1> DEFINE q == req[r]
           e == q.env
           new == [uid |-> born[e] + 1, rev |-> 0, ns |-> q.row.ns, policy |-> q.row.policy,
                   deleting |-> FALSE, fin |-> FALSE]
           old == Updated(cr[e], q.row)
<1>1. q.pc = "saved" /\ q.op \in {"post", "put"} /\ q.pc \in UnderWay
  BY DEF Apply, UnderWay
<1>2. e \in Envs /\ q.row \in Row
  BY <1>1, AsBegun
<1>3. q.row.ns \in Namespaces /\ q.row.policy \in Policies
  BY <1>2, Rows
<1>4. cr \in [Envs -> Object \cup {NoObject}] /\ born \in [Envs -> Nat]
  BY DEF TypeOK
<1>5. new \in Object /\ born[e] + 1 \in Nat
  BY <1>2, <1>3, <1>4 DEF Object
<1>6. cr[e] # NoObject => old \in Object
  BY <1>2, <1>3, <1>4, ObjectMade
<1>7. req' \in [Requests -> Begun \cup {Ready, Over}] /\ OpInv'
  <2>1. req' = [req EXCEPT ![r] = IF ok THEN [req[r] EXCEPT !.pc = "applied"] ELSE Over]
    BY DEF Apply
  <2>2. req[r].pc = "saved" /\ req[r].op # "project"
    BY <1>1
  <2>3. QED
    BY <2>1, <2>2, AppliedType
<1>8. \/ UNCHANGED <<cr, born>>
      \/ cr[e] = NoObject /\ born' = [born EXCEPT ![e] = @ + 1] /\ cr' = [cr EXCEPT ![e] = new]
      \/ cr[e] # NoObject /\ cr' = [cr EXCEPT ![e] = old] /\ UNCHANGED born
  <2>1. CASE ~lands
    BY <2>1 DEF Apply
  <2>2. CASE lands /\ cr[e] = NoObject
    BY <2>2 DEF Apply
  <2>3. CASE lands /\ cr[e] # NoObject
    BY <2>3 DEF Apply
  <2>4. QED
    BY <2>1, <2>2, <2>3
<1> HIDE DEF new, old
<1>9. cr' \in [Envs -> Object \cup {NoObject}] /\ born' \in [Envs -> Nat]
  BY <1>2, <1>4, <1>5, <1>6, <1>8
<1>10. apart' \subseteq Envs /\ failures' \in 0 .. MaxFailures
  BY <1>2, OutcomeType DEF Apply, TypeOK
<1>11. UNCHANGED <<db, project, nss, quota, seen, queue, work, bound>>
  BY DEF Apply, controller
<1>12. QED
  BY <1>7, <1>9, <1>10, <1>11 DEF TypeOK

LEMMA DeletedType ==
  ASSUME cr \in [Envs -> Object \cup {NoObject}], NEW e \in Envs, cr[e] # NoObject
  PROVE  [cr EXCEPT ![e] = Deleted(cr[e])] \in [Envs -> Object \cup {NoObject}]
<1>1. Deleted(cr[e]) \in Object \cup {NoObject}
  BY ObjectMade
<1>2. QED
  BY <1>1

LEMMA DeleteObjectType ==
  ASSUME TypeOK, OpInv, NEW r \in Requests, NEW lands \in BOOLEAN, NEW ok \in BOOLEAN,
         DeleteObject(r, lands, ok)
  PROVE  TypeOK' /\ OpInv'
<1> DEFINE e == req[r].env
<1>1. req[r].pc = "saved" /\ req[r].op = "delete" /\ req[r].pc \in UnderWay
  BY DEF DeleteObject, UnderWay
<1>2. e \in Envs
  BY <1>1, AsBegun
<1>3. req' \in [Requests -> Begun \cup {Ready, Over}] /\ OpInv'
  <2>1. req' = [req EXCEPT ![r] = IF ok THEN [req[r] EXCEPT !.pc = "applied"] ELSE Over]
    BY DEF DeleteObject
  <2>2. QED
    BY <1>1, <2>1, AppliedType
<1>4. cr' \in [Envs -> Object \cup {NoObject}]
  BY <1>2, DeletedType DEF DeleteObject, TypeOK
<1>5. apart' \subseteq Envs /\ failures' \in 0 .. MaxFailures
  BY <1>2, OutcomeType DEF DeleteObject, TypeOK
<1>6. UNCHANGED <<db, project, born, nss, quota, seen, queue, work, bound>>
  BY DEF DeleteObject, controller
<1>7. QED
  BY <1>3, <1>4, <1>5, <1>6 DEF TypeOK

LEMMA DeleteObjectOfType ==
  ASSUME TypeOK, OpInv, NEW r \in Requests, NEW e \in Envs, NEW lands \in BOOLEAN,
         NEW ok \in BOOLEAN, DeleteObjectOf(r, e, lands, ok)
  PROVE  TypeOK' /\ OpInv'
<1> DEFINE q == [req[r] EXCEPT !.left = @ \ {e}]
<1>1. /\ req[r].pc = "saved" /\ req[r].op = "project" /\ req[r].pc \in UnderWay
      /\ lands => cr[e] # NoObject
  BY DEF DeleteObjectOf, UnderWay
<1>2. req[r] \in Begun /\ req[r].hits = TRUE
  BY <1>1, AsBegun
<1>3. q \in Begun /\ q.pc = "saved" /\ q.op = "project" /\ q.hits = TRUE
  BY <1>1, <1>2 DEF Begun
<1>4. Over.pc = "over"
  BY DEF Over
<1>5. req' = [req EXCEPT ![r] = q] \/ req' = [req EXCEPT ![r] = Over]
  BY DEF DeleteObjectOf
<1> HIDE DEF q
<1>6. req' \in [Requests -> Begun \cup {Ready, Over}] /\ OpInv'
  <2>1. CASE req' = [req EXCEPT ![r] = q]
    BY <1>3, <2>1, RequestStep
  <2>2. CASE req' = [req EXCEPT ![r] = Over]
    BY <1>4, <2>2, RequestStep DEF UnderWay
  <2>3. QED
    BY <1>5, <2>1, <2>2
<1>7. cr' \in [Envs -> Object \cup {NoObject}]
  <2>1. cr' = cr \/ (cr[e] # NoObject /\ cr' = [cr EXCEPT ![e] = Deleted(cr[e])])
    BY <1>1 DEF DeleteObjectOf
  <2>2. cr \in [Envs -> Object \cup {NoObject}]
    BY DEF TypeOK
  <2>3. QED
    BY <2>1, <2>2, DeletedType
<1>8. apart' \subseteq Envs
  <2>1. apart' = apart \/ \E S \in SUBSET Envs : apart' = apart \cup S
    <3>1. {f \in Envs : db[f] # NoRow /\ (cr'[f] = NoObject \/ cr'[f].deleting)} \in SUBSET Envs
      OBVIOUS
    <3>2. QED
      BY <3>1 DEF DeleteObjectOf
  <2>2. QED
    BY <2>1 DEF TypeOK
<1>9. failures' \in 0 .. MaxFailures
  <2>1. failures' = failures \/ Outcome(ok)
    BY DEF DeleteObjectOf
  <2>2. QED
    BY <2>1, OutcomeType DEF TypeOK
<1>10. UNCHANGED <<db, project, born, nss, quota, seen, queue, work, bound>>
  BY DEF DeleteObjectOf, controller
<1>11. QED
  BY <1>6, <1>7, <1>8, <1>9, <1>10 DEF TypeOK

LEMMA CommitType ==
  ASSUME TypeOK, OpInv, NEW r \in Requests, NEW ok \in BOOLEAN, Commit(r, ok)
  PROVE  TypeOK' /\ OpInv'
<1> DEFINE q == req[r]
<1>1. q.pc = "applied" \/ (q.pc = "saved" /\ q.op = "project")
  BY DEF Commit
<1>2. q.env \in Envs /\ (q.op # "project" => q.row \in Row)
  BY <1>1, AsBegun DEF UnderWay
<1>3. Over.pc = "over"
  BY DEF Over
<1>4. req' = [req EXCEPT ![r] = Over]
  BY DEF Commit
<1>5. req' \in [Requests -> Begun \cup {Ready, Over}] /\ OpInv'
  BY <1>3, <1>4, RequestStep DEF UnderWay
<1>6. db \in [Envs -> Row \cup {NoRow}]
  BY DEF TypeOK
<1>7. q.op # "project" => Written(q, q.env) \in Row \cup {NoRow}
  BY <1>2, <1>6, Rows DEF Written
<1>8. db' \in [Envs -> Row \cup {NoRow}] /\ project' \in BOOLEAN
  BY <1>2, <1>6, <1>7 DEF Commit, TypeOK
<1>9. apart' \subseteq Envs
  <2>1. \E S \in SUBSET Envs : apart' = apart \cup S
    <3>1. /\ {e \in Envs : q.op = "project" /\ cr[e] # NoObject /\ ~cr[e].deleting} \in SUBSET Envs
          /\ {q.env} \in SUBSET Envs /\ Envs \in SUBSET Envs
      BY <1>2
    <3>2. QED
      BY <3>1 DEF Commit
  <2>2. QED
    BY <2>1 DEF TypeOK
<1>10. failures' \in 0 .. MaxFailures
  BY OutcomeType DEF Commit, TypeOK
<1>11. UNCHANGED <<cr, born, nss, quota, seen, queue, work, bound>>
  BY DEF Commit, cluster, controller
<1>12. QED
  BY <1>5, <1>8, <1>9, <1>10, <1>11 DEF TypeOK

LEMMA ServeType ==
  ASSUME TypeOK, OpInv, NEW r \in Requests, Serve(r)
  PROVE  TypeOK' /\ OpInv'
  BY BeginType, SaveType, ApplyType, DeleteObjectType, DeleteObjectOfType, CommitType DEF Serve
-----------------------------------------------------------------------------
(* The controller and the garbage collector                                 *)

LEMMA Binding ==
  ASSUME TypeOK, work.pc \in {"bind", "limit", "hold", "release", "unhold"}
  PROVE  /\ work \in Working /\ work.env \in Envs /\ work.copy \in Object
         /\ Ns \in Namespaces /\ Me \in Owner
         /\ \A c \in {"bind", "limit", "hold", "release", "unhold"} :
               [work EXCEPT !.pc = c] \in Working
<1>1. work \in Working \cup {Idle} /\ work.pc # "idle"
  BY DEF TypeOK
<1>2. /\ work \in Working /\ work.env \in Envs /\ work.copy \in Object
      /\ \A c \in {"bind", "limit", "hold", "release", "unhold"} : [work EXCEPT !.pc = c] \in Working
  BY <1>1, Workings
<1>3. work.copy.ns \in Namespaces /\ work.copy.uid \in Nat \ {0}
  BY <1>2, Objects
<1>4. QED
  BY <1>2, <1>3 DEF Ns, Me, Owner

LEMMA QueueType ==
  ASSUME TypeOK, OpInv, NEW e \in Envs, Watch(e) \/ Resync(e) \/ Reconcile(e)
  PROVE  TypeOK' /\ OpInv'
<1>1. CASE Watch(e)
  BY <1>1 DEF Watch, TypeOK, OpInv, service, cluster
<1>2. CASE Resync(e)
  BY <1>2 DEF Resync, TypeOK, OpInv, service, cluster
<1>3. CASE Reconcile(e)
  <2>1. work' \in Working \cup {Idle}
    <3>1. CASE seen[e] # NoObject
      <4>1. seen[e] \in Object
        BY <3>1 DEF TypeOK
      <4>2. \A c \in {"release", "bind"} : [pc |-> c, env |-> e, copy |-> seen[e]] \in Working
        BY <4>1 DEF Working
      <4>3. QED
        BY <1>3, <4>2 DEF Reconcile
    <3>2. CASE seen[e] = NoObject
      BY <1>3, <3>2 DEF Reconcile
    <3>3. QED
      BY <3>1, <3>2
  <2>2. queue' \subseteq Envs
    BY <1>3 DEF Reconcile, TypeOK
  <2>3. QED
    BY <1>3, <2>1, <2>2 DEF Reconcile, TypeOK, OpInv, service, cluster
<1>4. QED
  BY <1>1, <1>2, <1>3

LEMMA BindType ==
  ASSUME TypeOK, OpInv, NEW freed \in SUBSET Namespaces, NEW ok \in BOOLEAN, Bind(freed, ok)
  PROVE  TypeOK' /\ OpInv'
<1> DEFINE e == work.env
           owner == IF nss[Ns].owner = None THEN Me ELSE nss[Ns].owner
<1>1. work.pc = "bind"
  BY DEF Bind
<1>2. e \in Envs /\ Ns \in Namespaces /\ Me \in Owner /\ [work EXCEPT !.pc = "limit"] \in Working
  BY <1>1, Binding
<1>3. Free \in Namespace /\ None \in Owner /\ Absent.owner = None
  BY DEF Free, Namespace, Owner, Absent
<1>4. nss[Ns].owner \in Owner
  BY <1>2, <1>3 DEF TypeOK, Namespace
<1>5. owner \in Owner
  BY <1>2, <1>4
<1>6. [owner |-> owner, by |-> e] \in Namespace
  BY <1>2, <1>5 DEF Namespace
<1> HIDE DEF owner
<1>7. nss' = [n \in Namespaces |->
                IF n = Ns /\ ok THEN [owner |-> owner, by |-> e]
                ELSE IF n \in freed THEN Free ELSE nss[n]]
  BY DEF Bind, owner
<1>8. nss' \in [Namespaces -> Namespace \cup {Absent}]
  BY <1>3, <1>6, <1>7 DEF TypeOK
<1>9. work' \in Working \cup {Idle}
  BY <1>2 DEF Bind, Goto
<1>10. bound' \in [Envs -> Namespaces \cup {"none"}]
  BY <1>2 DEF Bind, TypeOK
<1>11. failures' \in 0 .. MaxFailures
  <2>1. failures \in 0 .. MaxFailures
    BY DEF TypeOK
  <2>2. QED
    BY <2>1, OutcomeType DEF Bind
<1>12. UNCHANGED <<db, project, req, cr, born, quota, seen, queue, apart>>
  BY DEF Bind, service
<1>13. QED
  BY <1>8, <1>9, <1>10, <1>11, <1>12 DEF TypeOK, OpInv

LEMMA LimitType ==
  ASSUME TypeOK, OpInv, NEW ok \in BOOLEAN, Limit(ok)
  PROVE  TypeOK' /\ OpInv'
<1>1. work.pc = "limit"
  BY DEF Limit
<1>2. /\ work.env \in Envs /\ Ns \in Namespaces /\ Me \in Owner
      /\ [work EXCEPT !.pc = "hold"] \in Working
  BY <1>1, Binding
<1>3. quota[Ns] \in Quota \cup {Absent} /\ Absent.owner = None /\ None \in Owner
  BY <1>2 DEF TypeOK, Absent, Owner
<1>4. quota[Ns].owner \in Owner
  BY <1>3 DEF Quota
<1>5. \A o \in Owner : [owner |-> o, by |-> work.env] \in Quota
  BY <1>2 DEF Quota
<1>6. quota' = quota \/ \E o \in Owner : quota' = [quota EXCEPT ![Ns] = [owner |-> o, by |-> work.env]]
  BY <1>2, <1>4 DEF Limit
<1>7. quota' \in [Namespaces -> Quota \cup {Absent}]
  BY <1>5, <1>6 DEF TypeOK
<1>8. work' \in Working \cup {Idle}
  BY <1>2 DEF Limit, Goto
<1>9. failures' \in 0 .. MaxFailures
  <2>1. failures \in 0 .. MaxFailures
    BY DEF TypeOK
  <2>2. QED
    BY <2>1, OutcomeType DEF Limit
<1>10. UNCHANGED <<db, project, req, cr, born, nss, seen, queue, apart, bound>>
  BY DEF Limit, service
<1>11. QED
  BY <1>7, <1>8, <1>9, <1>10 DEF TypeOK, OpInv

LEMMA HoldType ==
  ASSUME TypeOK, OpInv, NEW ok \in BOOLEAN, Hold(ok)
  PROVE  TypeOK' /\ OpInv'
<1>1. work.pc = "hold"
  BY DEF Hold
<1>2. work.env \in Envs /\ work.copy \in Object
  BY <1>1, Binding
<1>3. cr' = cr \/ (cr[work.env] \in Object /\ cr' = [cr EXCEPT ![work.env] = Held(cr[work.env])])
  BY <1>2 DEF Hold
<1>4. cr' \in [Envs -> Object \cup {NoObject}]
  <2>1. cr \in [Envs -> Object \cup {NoObject}]
    BY DEF TypeOK
  <2>2. cr[work.env] \in Object => Held(cr[work.env]) \in Object
    BY ObjectMade
  <2>3. QED
    BY <1>3, <2>1, <2>2
<1>5. failures' \in 0 .. MaxFailures
  <2>1. failures \in 0 .. MaxFailures
    BY DEF TypeOK
  <2>2. QED
    BY <2>1, OutcomeType DEF Hold
<1>6. work' = Idle /\ UNCHANGED <<db, project, req, born, nss, quota, seen, queue, apart, bound>>
  BY DEF Hold, service
<1>7. QED
  BY <1>4, <1>5, <1>6 DEF TypeOK, OpInv

LEMMA ReleaseType ==
  ASSUME TypeOK, OpInv, NEW ok \in BOOLEAN, Release(ok)
  PROVE  TypeOK' /\ OpInv'
<1>1. work.pc = "release"
  BY DEF Release
<1>2. work.env \in Envs /\ Ns \in Namespaces /\ [work EXCEPT !.pc = "unhold"] \in Working
  BY <1>1, Binding
<1>3. Free \in Namespace
  BY DEF Free, Namespace, Owner
<1>4. nss' \in [Namespaces -> Namespace \cup {Absent}]
  BY <1>2, <1>3 DEF Release, TypeOK
<1>5. work' \in Working \cup {Idle} /\ queue' \subseteq Envs
  BY <1>2 DEF Release, Goto, Retry, TypeOK
<1>6. failures' \in 0 .. MaxFailures
  <2>1. failures \in 0 .. MaxFailures
    BY DEF TypeOK
  <2>2. failures' = failures \/ Outcome(ok)
    BY DEF Release
  <2>3. QED
    BY <2>1, <2>2, OutcomeType
<1>7. UNCHANGED <<db, project, req, cr, born, quota, seen, apart, bound>>
  BY DEF Release, service
<1>8. QED
  BY <1>4, <1>5, <1>6, <1>7 DEF TypeOK, OpInv

LEMMA UnholdType ==
  ASSUME TypeOK, OpInv, NEW ok \in BOOLEAN, Unhold(ok)
  PROVE  TypeOK' /\ OpInv'
<1>1. work.pc = "unhold"
  BY DEF Unhold
<1>2. work.env \in Envs
  BY <1>1, Binding
<1>3. cr' \in [Envs -> Object \cup {NoObject}]
  BY <1>2 DEF Unhold, TypeOK
<1>4. work' = Idle /\ queue' \subseteq Envs
  BY <1>2 DEF Unhold, Retry, TypeOK
<1>5. failures' \in 0 .. MaxFailures
  <2>1. failures \in 0 .. MaxFailures
    BY DEF TypeOK
  <2>2. QED
    BY <2>1, OutcomeType DEF Unhold
<1>6. UNCHANGED <<db, project, req, born, nss, quota, seen, apart, bound>>
  BY DEF Unhold, service
<1>7. QED
  BY <1>3, <1>4, <1>5, <1>6 DEF TypeOK, OpInv

LEMMA RestType ==
  ASSUME TypeOK, OpInv, Crash \/ \E n \in Namespaces : Collect(n)
  PROVE  TypeOK' /\ OpInv'
<1>1. CASE Crash
  <2>1. failures' \in 0 .. MaxFailures
    <3>1. failures \in 0 .. MaxFailures
      BY DEF TypeOK
    <3>2. QED
      BY <1>1, <3>1, OutcomeType DEF Crash
  <2>2. UNCHANGED <<db, project, req, cr, born, nss, quota, apart, bound>>
    BY <1>1 DEF Crash, service, cluster
  <2>3. work' = Idle /\ seen' = cr /\ queue' \subseteq Envs
    BY <1>1 DEF Crash
  <2>4. QED
    BY <2>1, <2>2, <2>3 DEF TypeOK, OpInv
<1>2. ASSUME NEW n \in Namespaces, CollectNamespace(n) PROVE TypeOK' /\ OpInv'
  <2>1. /\ nss' = [nss EXCEPT ![n] = Absent] /\ quota' = [quota EXCEPT ![n] = Absent]
        /\ UNCHANGED <<db, project, req, cr, born, seen, queue, work, failures, apart, bound>>
    BY <1>2 DEF CollectNamespace, service, controller
  <2>2. QED
    BY <2>1 DEF TypeOK, OpInv
<1>3. ASSUME NEW n \in Namespaces, CollectQuota(n) PROVE TypeOK' /\ OpInv'
  <2>1. /\ quota' = [quota EXCEPT ![n] = Absent]
        /\ UNCHANGED <<db, project, req, cr, born, nss, seen, queue, work, failures, apart, bound>>
    BY <1>3 DEF CollectQuota, service, controller
  <2>2. QED
    BY <2>1 DEF TypeOK, OpInv
<1>4. QED
  BY <1>1, <1>2, <1>3 DEF Collect

LEMMA TypeStep == TypeOK /\ OpInv /\ [Next]_vars => TypeOK' /\ OpInv'
<1> SUFFICES ASSUME TypeOK, OpInv, [Next]_vars PROVE TypeOK' /\ OpInv'
  OBVIOUS
<1>1. CASE UNCHANGED vars
  BY <1>1 DEF vars, TypeOK, OpInv
<1>2. CASE Work
  BY <1>2, BindType, LimitType, HoldType, ReleaseType, UnholdType DEF Work
<1>3. QED
  BY <1>1, <1>2, ServeType, QueueType, RestType DEF Next

\* Every variable keeps its type: the row of an edit or a deletion is there as long as
\* its request runs, and a reconcile works on an object that was read, whatever fails
\* and whenever the controller restarts.
THEOREM TypeCorrect == Spec => []TypeOK
  BY InitType, TypeStep, PTL DEF Spec
-----------------------------------------------------------------------------
(* Rows and objects                                                         *)

Agree(e) == IF db[e] = NoRow THEN ~Live(e) ELSE Live(e) /\ Names(cr[e], db[e])

\* The requests whose transactions hold e's row; the deletion of a former row
\* holds none.
Concerns(r, e) ==
  InTransaction(r) /\ req[r].hits = TRUE /\ (req[r].op = "project" \/ req[r].env = e)

\* What a transaction finds of e, or has made of it already
Fits(r, e) ==
  \/ req[r].op = "project" /\ (Agree(e) \/ ~Live(e))
  \/ req[r].pc = "saved" /\ Agree(e)
  \/ /\ req[r].pc = "applied" /\ req[r].op \in {"post", "put"}
     /\ Live(e) /\ Names(cr[e], req[r].row)
  \/ req[r].pc = "applied" /\ req[r].op = "delete" /\ ~Live(e)

RowFine(e) ==
  /\ \A r \in Requests : Concerns(r, e) => Fits(r, e)
  /\ (\A r \in Requests : ~Concerns(r, e)) => Agree(e)

LockInv == \A q, r \in Requests : \A e \in Envs : Concerns(q, e) /\ Concerns(r, e) => q = r
WorkInv == work.pc \in {"release", "unhold"} => work.copy.deleting
RowInv == LockInv /\ \A e \in Envs \ apart : RowFine(e)

\* e's row stays, and its object as much as the row says of it.
Untouched(e) ==
  /\ db'[e] = db[e]
  /\ Live(e)' <=> Live(e)
  /\ Live(e) => cr'[e].ns = cr[e].ns /\ cr'[e].policy = cr[e].policy

LEMMA SameObject ==
  ASSUME NEW e \in Envs, db'[e] = db[e], cr'[e] = cr[e]
  PROVE  Untouched(e)
  BY DEF Untouched, Live

LEMMA AgreeKept ==
  ASSUME NEW e \in Envs, Untouched(e)
  PROVE  /\ Agree(e)' <=> Agree(e)
         /\ \A r \in Requests : req'[r] = req[r] => (Fits(r, e)' <=> Fits(r, e))
<1>1. Agree(e)' <=> Agree(e)
  BY DEF Untouched, Agree, Names
<1>2. ASSUME NEW r \in Requests, req'[r] = req[r] PROVE Fits(r, e)' <=> Fits(r, e)
  BY <1>1, <1>2 DEF Fits, Untouched, Names
<1>3. QED
  BY <1>1, <1>2

LEMMA FineKept ==
  ASSUME NEW e \in Envs, Untouched(e), RowFine(e),
         \A q \in Requests : Concerns(q, e)' <=> Concerns(q, e),
         \A q \in Requests : Concerns(q, e) => req'[q] = req[q]
  PROVE  RowFine(e)'
<1>1. ASSUME NEW q \in Requests, Concerns(q, e)' PROVE Fits(q, e)'
  BY <1>1, AgreeKept DEF RowFine
<1>2. (\A q \in Requests : ~Concerns(q, e)') => Agree(e)'
  BY AgreeKept DEF RowFine
<1>3. QED
  BY <1>1, <1>2 DEF RowFine

\* A request is over: its rows are free.
LEMMA FineIfFree ==
  ASSUME NEW e \in Envs, NEW r \in Requests, \A q \in Requests : Concerns(q, e)' => q = r,
         ~Concerns(r, e)', Agree(e)'
  PROVE  RowFine(e)'
<1>1. \A q \in Requests : ~Concerns(q, e)'
  OBVIOUS
<1>2. QED
  BY <1>1 DEF RowFine

LEMMA FineIfHeld ==
  ASSUME NEW e \in Envs, NEW r \in Requests, \A q \in Requests : Concerns(q, e)' => q = r,
         Concerns(r, e)', Fits(r, e)'
  PROVE  RowFine(e)'
<1>1. \A q \in Requests : Concerns(q, e)' => Fits(q, e)'
  OBVIOUS
<1>2. QED
  BY <1>1 DEF RowFine

\* The requests other than r stay as they are.
LEMMA OthersStay ==
  ASSUME TypeOK, NEW r \in Requests, NEW q, req' = [req EXCEPT ![r] = q]
  PROVE  /\ req'[r] = q
         /\ \A x \in Requests \ {r} : req'[x] = req[x]
         /\ \A x \in Requests \ {r} : \A e \in Envs : Concerns(x, e)' <=> Concerns(x, e)
<1>1. req'[r] = q /\ \A x \in Requests \ {r} : req'[x] = req[x]
  BY DEF TypeOK
<1>2. QED
  BY <1>1 DEF Concerns, InTransaction

LEMMA InitRow == Init => RowInv /\ WorkInv
<1> SUFFICES ASSUME Init PROVE RowInv /\ WorkInv
  OBVIOUS
<1>1. \A r \in Requests : \A e \in Envs : ~Concerns(r, e)
  BY DEF Init, Concerns, InTransaction, Ready
<1>2. \A e \in Envs : Agree(e)
  BY DEF Init, Agree, Live
<1>3. WorkInv
  BY DEF Init, WorkInv, Idle
<1>4. QED
  BY <1>1, <1>2, <1>3 DEF RowInv, LockInv, RowFine

\* A step of a request that neither has nor takes a lock
LEMMA RowIfLockless ==
  ASSUME TypeOK, RowInv, NEW r \in Requests, NEW q, req' = [req EXCEPT ![r] = q],
         \A e \in Envs : ~Concerns(r, e), ~(q.pc \in {"saved", "applied"} /\ q.hits = TRUE),
         apart \subseteq apart', \A e \in Envs \ apart' : Untouched(e)
  PROVE  RowInv'
<1>1. /\ req'[r] = q /\ \A x \in Requests \ {r} : req'[x] = req[x]
      /\ \A x \in Requests \ {r} : \A e \in Envs : Concerns(x, e)' <=> Concerns(x, e)
  BY OthersStay
<1>2. \A e \in Envs : ~Concerns(r, e) /\ ~Concerns(r, e)'
  BY <1>1 DEF Concerns, InTransaction
<1>3. LockInv'
  BY <1>1, <1>2 DEF RowInv, LockInv
<1>4. ASSUME NEW e \in Envs \ apart' PROVE RowFine(e)'
  <2>1. Untouched(e)
    OBVIOUS
  <2>2. \A x \in Requests : Concerns(x, e)' <=> Concerns(x, e)
    BY <1>1, <1>2
  <2>3. \A x \in Requests : Concerns(x, e) => req'[x] = req[x]
    BY <1>1, <1>2
  <2>4. QED
    BY <2>1, <2>2, <2>3, FineKept DEF RowInv
<1>5. QED
  BY <1>3, <1>4 DEF RowInv

LEMMA RowIfChecked ==
  ASSUME TypeOK, RowInv, NEW r \in Requests, NEW op, NEW e, NEW row, NEW left,
         Check(r, op, e, row, left)
  PROVE  RowInv'
<1> DEFINE q == [pc |-> "checked", op |-> op, env |-> e, row |-> row, left |-> left,
                hits |-> FALSE]
<1>1. (\A f \in Envs : ~Concerns(r, f)) /\ q.pc \notin {"saved", "applied"}
  BY DEF Check, Concerns, InTransaction, Ready
<1>2. req' = [req EXCEPT ![r] = q] /\ UNCHANGED <<db, cr, apart>>
  BY DEF Check, cluster
<1>3. \A f \in Envs : Untouched(f)
  BY <1>2, SameObject
<1> HIDE DEF q
<1>4. QED
  BY <1>1, <1>2, <1>3, RowIfLockless

\* The lock is taken when nobody else has it; a deletion that hits no row takes none.
LEMMA RowIfSaved ==
  ASSUME TypeOK, OpInv, RowInv, NEW r \in Requests, Save(r)
  PROVE  RowInv'
<1> DEFINE hits == req[r].op = "delete" => db[req[r].env].id = req[r].row.id
           q == [req[r] EXCEPT !.pc = "saved", !.hits = hits]
<1>1. /\ req[r].pc = "checked" /\ req[r].pc \in UnderWay
      /\ \A e \in Envs : e = req[r].env \/ req[r].op = "project" => ~Locked(r, e)
      /\ req' = [req EXCEPT ![r] = Over] \/ req' = [req EXCEPT ![r] = q]
      /\ UNCHANGED <<db, cr, apart>>
  BY DEF Save, UnderWay, cluster
<1>2. q.pc = "saved" /\ q.op = req[r].op /\ q.env = req[r].env /\ (q.hits = TRUE <=> hits)
  <2>1. hits \in BOOLEAN /\ req[r] \in Begun
    BY <1>1, AsBegun
  <2> HIDE DEF hits
  <2>2. QED
    BY <2>1 DEF Begun
<1>3. \A e \in Envs : ~Concerns(r, e) /\ Untouched(e)
  BY <1>1, SameObject DEF Concerns, InTransaction
<1>4. ASSUME hits, NEW e \in Envs, e = req[r].env \/ req[r].op = "project",
             NEW x \in Requests \ {r}
      PROVE  ~Concerns(x, e)
  <2>1. ~Locked(r, e)
    BY <1>1, <1>4
  <2>2. CASE req[r].op # "delete"
    BY <2>1, <2>2 DEF Locked, Concerns
  <2>3. CASE req[r].op = "delete"
    <3>1. db[e].id = req[r].row.id /\ req[r].row \in Row
      BY <1>1, <1>4, <2>3, AsBegun
    <3>2. db[e] # NoRow
      BY <3>1, Rows, EnvironmentAssumption DEF NoRow
    <3>3. QED
      BY <2>1, <2>3, <3>1, <3>2 DEF Locked, Concerns
  <2>4. QED
    BY <2>2, <2>3
<1> HIDE DEF q, hits
<1>5. CASE req' = [req EXCEPT ![r] = Over]
  <2>1. Over.pc \notin {"saved", "applied"}
    BY DEF Over
  <2>2. QED
    BY <1>1, <1>3, <1>5, <2>1, RowIfLockless
<1>6. CASE req' = [req EXCEPT ![r] = q] /\ ~hits
  BY <1>1, <1>2, <1>3, <1>6, RowIfLockless
<1>7. CASE req' = [req EXCEPT ![r] = q] /\ hits
  <2>1. /\ req'[r] = q /\ \A x \in Requests \ {r} : req'[x] = req[x]
        /\ \A x \in Requests \ {r} : \A e \in Envs : Concerns(x, e)' <=> Concerns(x, e)
    BY <1>7, OthersStay
  <2>2. \A e \in Envs : /\ ~Concerns(r, e)
                        /\ Concerns(r, e)' <=> (req[r].op = "project" \/ req[r].env = e)
    BY <1>2, <1>3, <1>7, <2>1 DEF Concerns, InTransaction
  <2>3. \A e \in Envs : Concerns(r, e)' => \A x \in Requests \ {r} : ~Concerns(x, e)
    BY <1>4, <1>7, <2>2
  <2>4. LockInv'
    BY <2>1, <2>2, <2>3 DEF RowInv, LockInv
  <2>5. ASSUME NEW e \in Envs \ apart PROVE RowFine(e)'
    <3>1. Untouched(e) /\ RowFine(e)
      BY <1>3 DEF RowInv
    <3>2. CASE Concerns(r, e)'
      <4>1. Agree(e)
        BY <2>2, <2>3, <3>1, <3>2 DEF RowFine
      <4>2. Agree(e)'
        BY <3>1, <4>1, AgreeKept
      <4>3. Fits(r, e)'
        BY <1>2, <2>1, <4>2 DEF Fits
      <4>4. \A x \in Requests : Concerns(x, e)' => x = r
        BY <2>1, <2>3, <3>2
      <4>5. QED
        BY <3>2, <4>3, <4>4, FineIfHeld
    <3>3. CASE ~Concerns(r, e)'
      <4>1. \A x \in Requests : Concerns(x, e)' <=> Concerns(x, e)
        BY <2>1, <2>2, <3>3
      <4>2. \A x \in Requests : Concerns(x, e) => req'[x] = req[x]
        BY <2>1, <2>2
      <4>3. QED
        BY <3>1, <4>1, <4>2, FineKept
    <3>4. QED
      BY <3>2, <3>3
  <2>6. QED
    BY <1>1, <2>4, <2>5 DEF RowInv
<1>8. QED
  BY <1>1, <1>5, <1>6, <1>7

\* What r does to the rows it holds is nobody else's matter.
LEMMA RowIfHeld ==
  ASSUME TypeOK, RowInv, NEW r \in Requests, NEW q, req' = [req EXCEPT ![r] = q],
         InTransaction(r), req[r].hits = TRUE,
         q.pc \in {"saved", "applied"} => q.op = req[r].op /\ q.env = req[r].env,
         apart \subseteq apart',
         \A e \in Envs : ~Concerns(r, e) => Untouched(e),
         \A e \in Envs \ apart' : Concerns(r, e) /\ Concerns(r, e)' /\ Fits(r, e) => Fits(r, e)',
         \A e \in Envs \ apart' : Concerns(r, e) /\ ~Concerns(r, e)' /\ Fits(r, e) => Agree(e)'
  PROVE  RowInv'
<1>1. /\ req'[r] = q /\ \A x \in Requests \ {r} : req'[x] = req[x]
      /\ \A x \in Requests \ {r} : \A e \in Envs : Concerns(x, e)' <=> Concerns(x, e)
  BY OthersStay
<1>2. \A e \in Envs : Concerns(r, e)' => Concerns(r, e)
  BY <1>1 DEF Concerns, InTransaction
<1>3. LockInv'
  BY <1>1, <1>2 DEF RowInv, LockInv
<1>4. ASSUME NEW e \in Envs \ apart' PROVE RowFine(e)'
  <2>1. RowFine(e)
    BY DEF RowInv
  <2>2. CASE Concerns(r, e)
    <3>1. Fits(r, e) /\ \A x \in Requests : Concerns(x, e)' => x = r
      BY <1>1, <2>1, <2>2 DEF RowFine, RowInv, LockInv
    <3>2. CASE Concerns(r, e)'
      BY <2>2, <3>1, <3>2, FineIfHeld
    <3>3. CASE ~Concerns(r, e)'
      BY <2>2, <3>1, <3>3, FineIfFree
    <3>4. QED
      BY <3>2, <3>3
  <2>3. CASE ~Concerns(r, e)
    <3>1. \A x \in Requests : Concerns(x, e)' <=> Concerns(x, e)
      BY <1>1, <1>2, <2>3
    <3>2. \A x \in Requests : Concerns(x, e) => req'[x] = req[x]
      BY <1>1, <2>3
    <3>3. QED
      BY <2>1, <2>3, <3>1, <3>2, FineKept
  <2>4. QED
    BY <2>2, <2>3
<1>5. QED
  BY <1>3, <1>4 DEF RowInv

LEMMA RowIfApplied ==
  ASSUME TypeOK, OpInv, RowInv, NEW r \in Requests, NEW lands \in BOOLEAN, NEW ok \in BOOLEAN,
         Apply(r, lands, ok), NEW e \in Envs, e = req[r].env
  PROVE  RowInv'
<1> DEFINE q == IF ok THEN [req[r] EXCEPT !.pc = "applied"] ELSE Over
<1>1. /\ req[r].pc = "saved" /\ req[r].op \in {"post", "put"} /\ req[r].pc \in UnderWay
      /\ ok => lands
      /\ req' = [req EXCEPT ![r] = q] /\ UNCHANGED db
      /\ apart' = IF lands /\ (~ok \/ (cr[e] # NoObject /\ cr[e].deleting))
                  THEN apart \cup {e} ELSE apart
  BY DEF Apply, UnderWay
<1>2. req[r] \in Begun /\ e \in Envs /\ req[r].row \in Row /\ req[r].hits = TRUE
  BY <1>1, AsBegun
<1>3. /\ ok => /\ q.pc = "applied" /\ q.op = req[r].op /\ q.env = e /\ q.row = req[r].row
               /\ q.hits = TRUE
      /\ ~ok => q.pc = "over"
  BY <1>2 DEF Begun, Over
<1>4. InTransaction(r) /\ \A f \in Envs : Concerns(r, f) <=> f = e
  BY <1>1, <1>2 DEF InTransaction, Concerns
<1>5. cr \in [Envs -> Object \cup {NoObject}] /\ born \in [Envs -> Nat] /\ req'[r] = q
  BY <1>1 DEF TypeOK
<1> HIDE DEF q
<1>6. ASSUME NEW f \in Envs, f # e PROVE Untouched(f)
  <2>1. cr'[f] = cr[f]
    BY <1>2, <1>5, <1>6 DEF Apply
  <2>2. QED
    BY <1>1, <2>1, SameObject
<1>7. ASSUME e \notin apart', ok PROVE Live(e)' /\ Names(cr[e], req[r].row)'
  <2>1. lands /\ ~(cr[e] # NoObject /\ cr[e].deleting)
    BY <1>1, <1>2, <1>7
  <2>2. CASE cr[e] = NoObject
    <3> DEFINE new == [uid |-> born[e] + 1, rev |-> 0, ns |-> req[r].row.ns,
                       policy |-> req[r].row.policy, deleting |-> FALSE, fin |-> FALSE]
    <3>1. cr'[e] = new
      BY <1>2, <1>5, <2>1, <2>2 DEF Apply
    <3>2. new.uid # 0 /\ NoObject.uid = 0
      BY <1>2, <1>5 DEF NoObject
    <3>3. cr'[e] # NoObject
      BY <3>1, <3>2
    <3>4. ~cr'[e].deleting /\ cr'[e].ns = req[r].row.ns /\ cr'[e].policy = req[r].row.policy
      BY <3>1
    <3>5. req'[r].row = req[r].row
      BY <1>3, <1>5, <1>7
    <3>6. QED
      BY <1>3, <1>5, <1>7, <3>3, <3>4, <3>5 DEF Live, Names
  <2>3. CASE cr[e] # NoObject
    <3>1. cr'[e] = Updated(cr[e], req[r].row) /\ cr[e] \in Object
      BY <1>2, <1>5, <2>1, <2>3 DEF Apply
    <3>2. cr'[e] # NoObject
      BY <1>2, <3>1, ObjectMade, Objects
    <3>3. ~cr'[e].deleting /\ cr'[e].ns = req[r].row.ns /\ cr'[e].policy = req[r].row.policy
      BY <2>1, <2>3, <3>1 DEF Updated, Names, Object
    <3>4. req'[r].row = req[r].row
      BY <1>3, <1>5, <1>7
    <3>5. QED
      BY <3>2, <3>3, <3>4 DEF Live, Names
  <2>4. QED
    BY <2>2, <2>3
<1>8. ASSUME NEW f \in Envs \ apart', Concerns(r, f), Concerns(r, f)' PROVE Fits(r, f)'
  <2>1. ok /\ f = e
    BY <1>3, <1>4, <1>5, <1>8 DEF Concerns, InTransaction
  <2>2. QED
    BY <1>1, <1>3, <1>5, <1>7, <1>8, <2>1 DEF Fits, Names
<1>9. ASSUME NEW f \in Envs \ apart', Concerns(r, f), ~Concerns(r, f)', Fits(r, f) PROVE Agree(f)'
  <2>1. ~ok /\ f = e
    BY <1>3, <1>4, <1>5, <1>9 DEF Concerns, InTransaction
  <2>2. ~lands
    BY <1>1, <1>9, <2>1
  <2>3. cr' = cr
    BY <2>2 DEF Apply
  <2>4. Agree(f)
    BY <1>1, <1>9 DEF Fits
  <2>5. QED
    BY <1>1, <2>3, <2>4, SameObject, AgreeKept
<1>10. apart \subseteq apart'
  BY <1>1
<1>11. \A f \in Envs : ~Concerns(r, f) => Untouched(f)
  BY <1>4, <1>6
<1>12. q.pc \in {"saved", "applied"} => q.op = req[r].op /\ q.env = req[r].env
  BY <1>3
<1>13. QED
  BY <1>1, <1>2, <1>4, <1>8, <1>9, <1>10, <1>11, <1>12, RowIfHeld

\* What the api server makes of an object that is deleted is not alive.
LEMMA DeletedIsDead ==
  ASSUME cr \in [Envs -> Object \cup {NoObject}], NEW e \in Envs, cr[e] # NoObject,
         cr' = [cr EXCEPT ![e] = Deleted(cr[e])]
  PROVE  /\ ~Live(e)' /\ (cr'[e] = NoObject \/ cr'[e].deleting)
         /\ \A f \in Envs \ {e} : cr'[f] = cr[f]
<1>1. cr[e] \in Object /\ cr'[e] = Deleted(cr[e])
  OBVIOUS
<1>2. [cr[e] EXCEPT !.rev = @ + 1, !.deleting = TRUE].deleting
  BY <1>1 DEF Object
<1>3. cr'[e] = NoObject \/ cr'[e].deleting
  BY <1>1, <1>2 DEF Deleted
<1>4. QED
  BY <1>3 DEF Live

LEMMA RowIfDeleted ==
  ASSUME TypeOK, OpInv, RowInv, NEW r \in Requests, NEW lands \in BOOLEAN, NEW ok \in BOOLEAN,
         DeleteObject(r, lands, ok), NEW e \in Envs, e = req[r].env
  PROVE  RowInv'
<1> DEFINE q == IF ok THEN [req[r] EXCEPT !.pc = "applied"] ELSE Over
<1>1. /\ req[r].pc = "saved" /\ req[r].op = "delete" /\ req[r].pc \in UnderWay
      /\ ok => lands
      /\ req' = [req EXCEPT ![r] = q] /\ UNCHANGED db
      /\ cr' = IF lands /\ cr[e] # NoObject THEN [cr EXCEPT ![e] = Deleted(cr[e])] ELSE cr
      /\ apart' = IF lands /\ (~ok \/ (~req[r].hits /\ cr[e] # NoObject /\ ~cr[e].deleting))
                  THEN apart \cup {e} ELSE apart
  BY DEF DeleteObject, UnderWay
<1>2. req[r] \in Begun
  BY <1>1, AsBegun
<1>3. /\ ok => q.pc = "applied" /\ q.op = req[r].op /\ q.env = e /\ q.hits = req[r].hits
      /\ ~ok => q.pc = "over"
  BY <1>2 DEF Begun, Over
<1>4. InTransaction(r) /\ \A f \in Envs : Concerns(r, f) <=> (f = e /\ req[r].hits = TRUE)
  BY <1>1 DEF InTransaction, Concerns
<1>5. cr \in [Envs -> Object \cup {NoObject}] /\ req'[r] = q
  BY <1>1 DEF TypeOK
<1> HIDE DEF q
<1>6. ASSUME NEW f \in Envs, f # e PROVE Untouched(f)
  <2>1. cr'[f] = cr[f]
    BY <1>1, <1>5, <1>6, DeletedIsDead
  <2>2. QED
    BY <1>1, <2>1, SameObject
<1>7. ASSUME ok PROVE ~Live(e)'
  <2>1. CASE cr[e] = NoObject
    BY <1>1, <1>7, <2>1 DEF Live
  <2>2. CASE cr[e] # NoObject
    BY <1>1, <1>5, <1>7, <2>2, DeletedIsDead
  <2>3. QED
    BY <2>1, <2>2
<1>8. CASE req[r].hits # TRUE
  <2>1. q.pc = "over" \/ q.hits # TRUE
    BY <1>3, <1>8
  <2>2. ASSUME NEW f \in Envs \ apart' PROVE Untouched(f)
    <3>1. CASE f # e
      BY <1>6, <3>1
    <3>2. CASE f = e /\ cr' = cr
      BY <1>1, <3>2, SameObject
    <3>3. CASE f = e /\ cr' # cr
      <4>1. lands /\ cr[e] # NoObject
        BY <1>1, <3>3
      <4>2. ~Live(e)
        BY <1>1, <1>2, <1>8, <2>2, <3>3, <4>1 DEF Live, Begun
      <4>3. ~Live(e)'
        BY <1>1, <1>5, <4>1, DeletedIsDead
      <4>4. QED
        BY <1>1, <3>3, <4>2, <4>3 DEF Untouched
    <3>4. QED
      BY <3>1, <3>2, <3>3
  <2>3. apart \subseteq apart' /\ \A f \in Envs : ~Concerns(r, f)
    BY <1>1, <1>4, <1>8
  <2>4. QED
    BY <1>1, <2>1, <2>2, <2>3, RowIfLockless
<1>9. CASE req[r].hits = TRUE
  <2>1. ASSUME NEW f \in Envs \ apart', Concerns(r, f), Concerns(r, f)' PROVE Fits(r, f)'
    <3>1. ok /\ f = e
      BY <1>3, <1>4, <1>5, <2>1 DEF Concerns, InTransaction
    <3>2. QED
      BY <1>1, <1>3, <1>5, <1>7, <3>1 DEF Fits
  <2>2. ASSUME NEW f \in Envs \ apart', Concerns(r, f), ~Concerns(r, f)', Fits(r, f) PROVE Agree(f)'
    <3>1. ~ok /\ f = e
      BY <1>3, <1>4, <1>5, <2>2 DEF Concerns, InTransaction
    <3>2. ~lands
      BY <1>1, <2>2, <3>1
    <3>3. cr' = cr
      BY <1>1, <3>2
    <3>4. Agree(f)
      BY <1>1, <2>2 DEF Fits
    <3>5. QED
      BY <1>1, <3>3, <3>4, SameObject, AgreeKept
  <2>3. apart \subseteq apart'
    BY <1>1
  <2>4. \A f \in Envs : ~Concerns(r, f) => Untouched(f)
    BY <1>4, <1>6, <1>9
  <2>5. q.pc \in {"saved", "applied"} => q.op = req[r].op /\ q.env = req[r].env
    BY <1>3
  <2>6. QED
    BY <1>1, <1>4, <1>9, <2>1, <2>2, <2>3, <2>4, <2>5, RowIfHeld
<1>10. QED
  BY <1>8, <1>9

\* A project's deletion holds all rows while it takes the objects of its list.
LEMMA RowIfDeletedOf ==
  ASSUME TypeOK, OpInv, RowInv, NEW r \in Requests, NEW e \in Envs, NEW lands \in BOOLEAN,
         NEW ok \in BOOLEAN, DeleteObjectOf(r, e, lands, ok)
  PROVE  RowInv'
<1> DEFINE q == IF ok THEN [req[r] EXCEPT !.left = @ \ {e}] ELSE Over
           Dead == {f \in Envs : db[f] # NoRow /\ (cr'[f] = NoObject \/ cr'[f].deleting)}
<1>1. /\ req[r].pc = "saved" /\ req[r].op = "project" /\ req[r].pc \in UnderWay
      /\ ok => lands /\ cr[e] # NoObject
      /\ lands => cr[e] # NoObject
      /\ req' = [req EXCEPT ![r] = q] /\ UNCHANGED db
      /\ cr' = IF lands THEN [cr EXCEPT ![e] = Deleted(cr[e])] ELSE cr
      /\ apart' = IF ok THEN apart ELSE apart \cup Dead
  BY DEF DeleteObjectOf, UnderWay
<1>2. req[r] \in Begun /\ req[r].hits = TRUE
  BY <1>1, AsBegun
<1>3. /\ ok => q.pc = "saved" /\ q.op = "project" /\ q.env = req[r].env /\ q.hits = TRUE
      /\ ~ok => q.pc = "over"
  BY <1>1, <1>2 DEF Begun, Over
<1>4. InTransaction(r) /\ \A f \in Envs : Concerns(r, f)
  BY <1>1, <1>2 DEF InTransaction, Concerns
<1>5. cr \in [Envs -> Object \cup {NoObject}] /\ req'[r] = q
  BY <1>1 DEF TypeOK
<1> HIDE DEF q
<1>6. ASSUME NEW f \in Envs, Fits(r, f) PROVE Agree(f)' \/ ~Live(f)'
  <2>1. Agree(f) \/ ~Live(f)
    BY <1>1, <1>6 DEF Fits
  <2>2. CASE cr'[f] = cr[f]
    <3>1. Untouched(f)
      BY <1>1, <2>2, SameObject
    <3>2. QED
      BY <2>1, <3>1, AgreeKept DEF Untouched
  <2>3. CASE cr'[f] # cr[f]
    BY <1>1, <1>5, <2>3, DeletedIsDead
  <2>4. QED
    BY <2>2, <2>3
<1>7. ASSUME NEW f \in Envs \ apart', Concerns(r, f), Concerns(r, f)', Fits(r, f) PROVE Fits(r, f)'
  <2>1. ok
    BY <1>3, <1>5, <1>7 DEF Concerns, InTransaction
  <2>2. Agree(f)' \/ ~Live(f)'
    BY <1>6, <1>7
  <2>3. QED
    BY <1>3, <1>5, <2>1, <2>2 DEF Fits
<1>8. ASSUME NEW f \in Envs \ apart', Concerns(r, f), ~Concerns(r, f)', Fits(r, f) PROVE Agree(f)'
  <2>1. ~ok
    BY <1>3, <1>5, <1>8 DEF Concerns, InTransaction
  <2>2. f \notin Dead
    BY <1>1, <1>8, <2>1
  <2>3. Agree(f)' \/ ~Live(f)'
    BY <1>6, <1>8
  <2>4. db'[f] = db[f]
    BY <1>1
  <2>5. ~Live(f)' => db[f] = NoRow
    BY <2>2 DEF Live
  <2>6. QED
    BY <2>3, <2>4, <2>5 DEF Agree
<1>9. apart \subseteq apart'
  BY <1>1
<1>10. q.pc \in {"saved", "applied"} => q.op = req[r].op /\ q.env = req[r].env
  BY <1>1, <1>3
<1>11. QED
  BY <1>1, <1>2, <1>4, <1>7, <1>8, <1>9, <1>10, RowIfHeld

LEMMA RowIfCommitted ==
  ASSUME TypeOK, OpInv, RowInv, NEW r \in Requests, NEW ok \in BOOLEAN, Commit(r, ok),
         NEW e \in Envs, e = req[r].env
  PROVE  RowInv'
<1> DEFINE Gone1 == {f \in Envs : req[r].op = "project" /\ cr[f] # NoObject /\ ~cr[f].deleting}
<1>1. /\ req[r].pc = "applied" \/ (req[r].pc = "saved" /\ req[r].op = "project")
      /\ req' = [req EXCEPT ![r] = Over] /\ UNCHANGED cr
      /\ ok /\ req[r].op = "project" => db' = [f \in Envs |-> NoRow]
      /\ ok /\ req[r].op # "project" => db' = [db EXCEPT ![e] = Written(req[r], e)]
      /\ ~ok => UNCHANGED db
      /\ apart' = apart \cup (IF ~ok THEN IF req[r].op = "project" THEN Envs ELSE {e} ELSE Gone1)
  BY DEF Commit, cluster
<1>2. /\ req[r] \in Begun /\ req[r].op \in {"post", "put", "delete", "project"}
      /\ req[r].op # "project" => req[r].row \in Row
      /\ req[r].op # "delete" => req[r].hits = TRUE
      /\ req[r].pc = "applied" => req[r].op # "project"
  BY <1>1, AsBegun DEF UnderWay
<1>3. /\ InTransaction(r) /\ Over.pc = "over"
      /\ \A f \in Envs :
            Concerns(r, f) <=> (req[r].hits = TRUE /\ (req[r].op = "project" \/ f = e))
  BY <1>1 DEF InTransaction, Concerns, Over
<1>4. db \in [Envs -> Row \cup {NoRow}] /\ req'[r] = Over
  BY <1>1 DEF TypeOK
<1>5. \A f \in Envs : ~Concerns(r, f)'
  BY <1>3, <1>4 DEF Concerns, InTransaction
<1>6. ASSUME NEW f \in Envs, ~Concerns(r, f) PROVE Untouched(f)
  <2>1. db'[f] = db[f] /\ cr'[f] = cr[f]
    <3>1. CASE f = e /\ req[r].op = "delete"
      BY <1>1, <1>2, <1>3, <1>4, <1>6, <3>1 DEF Written, Begun
    <3>2. CASE ~(f = e /\ req[r].op = "delete")
      BY <1>1, <1>2, <1>3, <1>4, <1>6, <3>2
    <3>3. QED
      BY <3>1, <3>2
  <2>2. QED
    BY <2>1, SameObject
<1>7. ASSUME NEW f \in Envs \ apart', Concerns(r, f), Fits(r, f) PROVE Agree(f)'
  <2>1. Live(f)' = Live(f) /\ cr'[f] = cr[f]
    BY <1>1 DEF Live
  <2>2. ok /\ f \notin Gone1
    BY <1>1, <1>3, <1>7
  <2>3. CASE req[r].op = "project"
    <3>1. db'[f] = NoRow /\ ~Live(f)
      BY <1>1, <2>2, <2>3 DEF Live
    <3>2. QED
      BY <2>1, <3>1 DEF Agree
  <2>4. CASE req[r].op = "delete"
    <3>1. f = e /\ ~Live(f)
      BY <1>1, <1>3, <1>7, <2>4 DEF Fits
    <3>2. db'[f] = NoRow
      BY <1>1, <1>3, <1>4, <1>7, <2>2, <2>4, <3>1 DEF Written
    <3>3. QED
      BY <2>1, <3>1, <3>2 DEF Agree
  <2>5. CASE req[r].op \in {"post", "put"}
    <3>1. f = e /\ Live(f) /\ Names(cr[f], req[r].row)
      BY <1>1, <1>3, <1>7, <2>5 DEF Fits
    <3>2. db'[f] = Written(req[r], f)
      BY <1>1, <1>4, <2>2, <2>5, <3>1
    <3>3. Written(req[r], f) = req[r].row
          \/ (db[f] # NoRow /\ Written(req[r], f) = [req[r].row EXCEPT !.id = db[f].id])
      BY <2>5 DEF Written
    <3>4. db[f] # NoRow => db[f].id \in Requests
      BY <1>4, Rows
    <3>5. /\ Written(req[r], f) # NoRow
          /\ Written(req[r], f).ns = req[r].row.ns /\ Written(req[r], f).policy = req[r].row.policy
      <4>1. req[r].row \in Row
        BY <1>2, <2>5
      <4>2. \A i \in Requests : /\ [req[r].row EXCEPT !.id = i].ns = req[r].row.ns
                                /\ [req[r].row EXCEPT !.id = i].policy = req[r].row.policy
        BY <4>1 DEF Row
      <4>3. QED
        BY <3>3, <3>4, <4>1, <4>2, Rows
    <3>6. QED
      BY <2>1, <3>1, <3>2, <3>5 DEF Agree, Names
  <2>6. QED
    BY <1>2, <2>3, <2>4, <2>5
<1>8. apart \subseteq apart'
  BY <1>1
<1>9. Over.pc \notin {"saved", "applied"}
  BY <1>3
<1>10. CASE req[r].hits = TRUE
  BY <1>1, <1>3, <1>5, <1>6, <1>7, <1>8, <1>9, <1>10, RowIfHeld
<1>11. CASE req[r].hits # TRUE
  BY <1>1, <1>3, <1>6, <1>8, <1>9, <1>11, RowIfLockless
<1>12. QED
  BY <1>10, <1>11

LEMMA ServeRow ==
  ASSUME TypeOK, OpInv, RowInv, NEW r \in Requests, Serve(r)
  PROVE  RowInv' /\ UNCHANGED work
<1>1. ASSUME NEW e \in Envs, NEW n \in Namespaces, NEW p \in Policies,
             PostProjectEnvironment(r, e, n, p) \/ PutEnvironment(r, e, n, p)
      PROVE  RowInv' /\ UNCHANGED work
  <2>1. PICK op, row : Check(r, op, e, row, {})
    BY <1>1 DEF PostProjectEnvironment, PutEnvironment
  <2>2. RowInv'
    BY <2>1, RowIfChecked
  <2>3. QED
    BY <2>1, <2>2 DEF Check, controller
<1>2. ASSUME NEW e \in Envs, DeleteEnvironment(r, e) PROVE RowInv' /\ UNCHANGED work
  <2>1. Check(r, "delete", e, db[e], {})
    BY <1>2 DEF DeleteEnvironment
  <2>2. RowInv'
    BY <2>1, RowIfChecked
  <2>3. QED
    BY <2>1, <2>2 DEF Check, controller
<1>3. ASSUME DeleteProject(r) PROVE RowInv' /\ UNCHANGED work
  <2>1. PICK e \in Envs : Check(r, "project", e, NoRow, {f \in Envs : db[f] # NoRow})
    BY <1>3 DEF DeleteProject
  <2>2. RowInv'
    BY <2>1, RowIfChecked
  <2>3. QED
    BY <2>1, <2>2 DEF Check, controller
<1>4. ASSUME Save(r) PROVE RowInv' /\ UNCHANGED work
  BY <1>4, RowIfSaved DEF Save, controller
<1>5. req[r].pc \in {"saved", "applied"} => req[r].env \in Envs
  BY AsBegun DEF UnderWay
<1>6. ASSUME NEW lands \in BOOLEAN, NEW ok \in BOOLEAN, Apply(r, lands, ok)
      PROVE  RowInv' /\ UNCHANGED work
  <2>1. req[r].env \in Envs
    BY <1>5, <1>6 DEF Apply
  <2>2. RowInv'
    BY <1>6, <2>1, RowIfApplied
  <2>3. QED
    BY <1>6, <2>2 DEF Apply, controller
<1>7. ASSUME NEW lands \in BOOLEAN, NEW ok \in BOOLEAN, DeleteObject(r, lands, ok)
      PROVE  RowInv' /\ UNCHANGED work
  <2>1. req[r].env \in Envs
    BY <1>5, <1>7 DEF DeleteObject
  <2>2. RowInv'
    BY <1>7, <2>1, RowIfDeleted
  <2>3. QED
    BY <1>7, <2>2 DEF DeleteObject, controller
<1>8. ASSUME NEW lands \in BOOLEAN, NEW ok \in BOOLEAN, NEW e \in Envs, DeleteObjectOf(r, e, lands, ok)
      PROVE  RowInv' /\ UNCHANGED work
  <2>1. RowInv'
    BY <1>8, RowIfDeletedOf
  <2>2. QED
    BY <1>8, <2>1 DEF DeleteObjectOf, controller
<1>9. ASSUME NEW ok \in BOOLEAN, Commit(r, ok) PROVE RowInv' /\ UNCHANGED work
  <2>1. req[r].env \in Envs
    BY <1>5, <1>9 DEF Commit
  <2>2. RowInv'
    BY <1>9, <2>1, RowIfCommitted
  <2>3. QED
    BY <1>9, <2>2 DEF Commit, controller
<1>10. QED
  BY <1>1, <1>2, <1>3, <1>4, <1>6, <1>7, <1>8, <1>9 DEF Serve

\* The rows are none of the controller's business, and it leaves of an object what a row says.
LEMMA RowIfUntouched ==
  ASSUME RowInv, UNCHANGED <<req, apart>>, \A e \in Envs : Untouched(e)
  PROVE  RowInv'
<1>1. \A q \in Requests, e \in Envs : Concerns(q, e)' <=> Concerns(q, e)
  BY DEF Concerns, InTransaction
<1>2. LockInv'
  BY <1>1 DEF RowInv, LockInv
<1>3. ASSUME NEW e \in Envs \ apart PROVE RowFine(e)'
  BY <1>1, FineKept DEF RowInv
<1>4. QED
  BY <1>2, <1>3 DEF RowInv

LEMMA HoldRow ==
  ASSUME TypeOK, RowInv, NEW ok \in BOOLEAN, Hold(ok)
  PROVE  RowInv' /\ WorkInv'
<1>1. work.pc = "hold" /\ work' = Idle /\ UNCHANGED <<db, req, apart>>
  BY DEF Hold, service
<1>2. work.env \in Envs /\ work.copy \in Object
  BY <1>1, Binding
<1>3. cr' = cr \/ (cr[work.env] = work.copy /\ cr' = [cr EXCEPT ![work.env] = Held(work.copy)])
  BY <1>2 DEF Hold
<1>4. ASSUME NEW e \in Envs PROVE Untouched(e)
  <2>1. CASE cr'[e] = cr[e]
    BY <1>1, <2>1, SameObject
  <2>2. CASE cr'[e] # cr[e]
    <3>1. cr[e] = work.copy /\ cr'[e] = Held(work.copy)
      BY <1>2, <1>3, <2>2 DEF TypeOK
    <3>2. Held(work.copy).deleting = work.copy.deleting /\ Held(work.copy).ns = work.copy.ns
          /\ Held(work.copy).policy = work.copy.policy
      BY <1>2 DEF Held, Object
    <3>3. cr[e] # NoObject /\ cr'[e] # NoObject
      BY <1>2, <3>1, ObjectMade, Objects
    <3>4. QED
      BY <1>1, <3>1, <3>2, <3>3 DEF Untouched, Live
  <2>3. QED
    BY <2>1, <2>2
<1>5. RowInv'
  BY <1>1, <1>4, RowIfUntouched
<1>6. QED
  BY <1>1, <1>5 DEF WorkInv, Idle

\* Only an object that is terminating loses its finalizer.
LEMMA UnholdRow ==
  ASSUME TypeOK, RowInv, WorkInv, NEW ok \in BOOLEAN, Unhold(ok)
  PROVE  RowInv' /\ WorkInv'
<1>1. work.pc = "unhold" /\ work' = Idle /\ UNCHANGED <<db, req, apart>> /\ work.copy.deleting
  BY DEF Unhold, Retry, service, WorkInv
<1>2. work.env \in Envs
  BY <1>1, Binding
<1>3. cr' = cr \/ (cr[work.env] = work.copy /\ cr' = [cr EXCEPT ![work.env] = NoObject])
  BY DEF Unhold
<1>4. ASSUME NEW e \in Envs PROVE Untouched(e)
  <2>1. CASE cr'[e] = cr[e]
    BY <1>1, <2>1, SameObject
  <2>2. CASE cr'[e] # cr[e]
    <3>1. cr[e].deleting /\ cr'[e] = NoObject
      BY <1>1, <1>2, <1>3, <2>2 DEF TypeOK
    <3>2. QED
      BY <1>1, <3>1 DEF Untouched, Live
  <2>3. QED
    BY <2>1, <2>2
<1>5. RowInv'
  BY <1>1, <1>4, RowIfUntouched
<1>6. QED
  BY <1>1, <1>5 DEF WorkInv, Idle

\* The other steps leave the objects alone.
LEMMA WorkRow ==
  ASSUME TypeOK, RowInv, WorkInv, NEW ok \in BOOLEAN
  PROVE  /\ \A freed \in SUBSET Namespaces : Bind(freed, ok) => RowInv' /\ WorkInv'
         /\ Limit(ok) \/ Release(ok) => RowInv' /\ WorkInv'
<1>1. ASSUME UNCHANGED <<db, req, apart, cr>> PROVE RowInv'
  BY <1>1, SameObject, RowIfUntouched
<1>2. work.pc \in {"bind", "limit", "release"} =>
        \A c \in {"limit", "hold", "unhold"} :
           [work EXCEPT !.pc = c].pc = c /\ [work EXCEPT !.pc = c].copy = work.copy
  BY Binding DEF Working
<1>3. ASSUME NEW freed \in SUBSET Namespaces, Bind(freed, ok) PROVE RowInv' /\ WorkInv'
  <2>1. work.pc = "bind" /\ work' = [work EXCEPT !.pc = "limit"] /\ UNCHANGED <<db, req, apart, cr>>
    BY <1>3 DEF Bind, Goto, service
  <2>2. QED
    BY <1>1, <1>2, <2>1 DEF WorkInv
<1>4. ASSUME Limit(ok) PROVE RowInv' /\ WorkInv'
  <2>1. work.pc = "limit" /\ work' = [work EXCEPT !.pc = "hold"] /\ UNCHANGED <<db, req, apart, cr>>
    BY <1>4 DEF Limit, Goto, service
  <2>2. QED
    BY <1>1, <1>2, <2>1 DEF WorkInv
<1>5. ASSUME Release(ok) PROVE RowInv' /\ WorkInv'
  <2>1. work.pc = "release" /\ UNCHANGED <<db, req, apart, cr>>
        /\ (work' = [work EXCEPT !.pc = "unhold"] \/ work' = Idle)
    BY <1>5 DEF Release, Goto, Retry, service
  <2>2. [work EXCEPT !.pc = "unhold"].copy = work.copy
    BY <1>2, <2>1
  <2>3. Idle.pc = "idle"
    BY DEF Idle
  <2>4. WorkInv'
    BY <2>1, <2>2, <2>3 DEF WorkInv
  <2>5. QED
    BY <1>1, <2>1, <2>4
<1>6. QED
  BY <1>3, <1>4, <1>5

LEMMA RestRow ==
  ASSUME TypeOK, RowInv, WorkInv,
         \/ \E e \in Envs : Watch(e) \/ Resync(e) \/ Reconcile(e)
         \/ Crash \/ UNCHANGED vars \/ \E n \in Namespaces : Collect(n)
  PROVE  RowInv' /\ WorkInv'
<1>1. UNCHANGED <<db, req, apart, cr>>
  BY DEF Watch, Resync, Reconcile, Crash, Collect, CollectNamespace, CollectQuota, vars,
         service, cluster
<1>2. RowInv'
  BY <1>1, SameObject, RowIfUntouched
<1>3. ASSUME NEW e \in Envs, Reconcile(e) PROVE WorkInv'
  <2>1. CASE work' = Idle
    BY <2>1 DEF WorkInv, Idle
  <2>2. CASE work' # Idle
    <3>1. work' = [pc |-> IF seen[e].deleting THEN "release" ELSE "bind", env |-> e, copy |-> seen[e]]
      BY <1>3, <2>2 DEF Reconcile
    <3>2. work'.pc = "release" \/ work'.pc = "unhold" => seen[e].deleting
      BY <3>1
    <3>3. QED
      BY <3>1, <3>2 DEF WorkInv
  <2>3. QED
    BY <2>1, <2>2
<1>4. CASE Crash
  <2>1. work' = Idle /\ Idle.pc = "idle"
    BY <1>4 DEF Crash, Idle
  <2>2. QED
    BY <1>2, <2>1 DEF WorkInv
<1>5. ASSUME UNCHANGED work PROVE WorkInv'
  BY <1>5 DEF WorkInv
<1>6. (\E e \in Envs : Reconcile(e)) \/ Crash \/ UNCHANGED work
  BY DEF Watch, Resync, Collect, CollectNamespace, CollectQuota, vars, controller
<1>7. QED
  BY <1>2, <1>3, <1>4, <1>5, <1>6

LEMMA RowStep == TypeOK /\ OpInv /\ RowInv /\ WorkInv /\ [Next]_vars => RowInv' /\ WorkInv'
<1> SUFFICES ASSUME TypeOK, OpInv, RowInv, WorkInv, [Next]_vars PROVE RowInv' /\ WorkInv'
  OBVIOUS
<1>1. ASSUME NEW r \in Requests, Serve(r) PROVE RowInv' /\ WorkInv'
  BY <1>1, ServeRow DEF WorkInv
<1>2. CASE Work
  BY <1>2, WorkRow, HoldRow, UnholdRow DEF Work
<1>3. QED
  BY <1>1, <1>2, RestRow DEF Next

\* No interleaving of requests parts row and object, for any number of them: the rows
\* stay locked from the first write of a transaction to its end, and the call to the
\* cluster is between the two (handler.go:144-181, 305-362).
THEOREM RowsStayAgreed == Spec => []RowsAgree
<1>1. RowInv => RowsAgree
  BY DEF RowInv, RowFine, Concerns, Agree, RowsAgree
<1>2. Init => TypeOK /\ OpInv /\ RowInv /\ WorkInv
  BY InitType, InitRow
<1>3. TypeOK /\ OpInv /\ RowInv /\ WorkInv /\ [Next]_vars => (TypeOK /\ OpInv /\ RowInv /\ WorkInv)'
  BY TypeStep, RowStep
<1>4. QED
  BY <1>1, <1>2, <1>3, PTL DEF Spec

-----------------------------------------------------------------------------
(* Namespaces                                                               *)

\* A namespace other than the one last bound without failure is not e's by its label.
BoundInv ==
  \A e \in Envs : bound[e] # "none" => \A n \in Namespaces \ {bound[e]} : nss[n].by # e

\* Who owns a namespace has labelled it, or another one has since.
OwnedInv == \A n \in Namespaces : nss[n].owner # None => nss[n].by \in Envs

\* What delLabels frees nobody owns until the object goes: nothing is bound meanwhile.
FreeInv ==
  work.pc = "unhold" /\ work.copy.policy = "delLabels" => nss[work.copy.ns].owner = None

NsInv == BoundInv /\ OwnedInv /\ FreeInv

LEMMA Marks ==
  /\ Free.owner = None /\ Free.by = "none" /\ Absent.owner = None /\ Absent.by = "absent"
  /\ "none" \notin Envs /\ "absent" \notin Envs /\ "none" \notin Namespaces
  /\ Idle.pc = "idle"
<1>1. "none" \notin Envs /\ "absent" \notin Envs /\ "none" \notin Namespaces
  BY EnvironmentAssumption
<1>2. Free.owner = None /\ Free.by = "none" /\ Absent.owner = None /\ Absent.by = "absent"
  BY DEF Free, Absent
<1>3. Idle.pc = "idle"
  BY DEF Idle
<1>4. QED
  BY <1>1, <1>2, <1>3

LEMMA InitNs == Init => NsInv
<1> SUFFICES ASSUME Init PROVE NsInv
  OBVIOUS
<1>1. \A n \in Namespaces : nss[n] = Free \/ nss[n] = Absent
  BY DEF Init, Free
<1>2. work = Idle /\ \A e \in Envs : bound[e] = "none"
  BY DEF Init
<1>3. QED
  BY <1>1, <1>2, Marks DEF NsInv, BoundInv, OwnedInv, FreeInv

\* A step in which namespaces change only by losing label and owner
LEMMA NsIfFreed ==
  ASSUME NsInv, UNCHANGED bound,
         \A n \in Namespaces : nss'[n] \in {nss[n], Free, Absent},
         FreeInv'
  PROVE  NsInv'
<1>1. BoundInv'
  <2> SUFFICES ASSUME NEW e \in Envs, bound[e] # "none", NEW n \in Namespaces \ {bound[e]}
               PROVE  nss'[n].by # e
    BY DEF BoundInv
  <2>1. nss[n].by # e
    BY DEF NsInv, BoundInv
  <2>2. QED
    BY <2>1, Marks
<1>2. OwnedInv'
  <2> SUFFICES ASSUME NEW n \in Namespaces, nss'[n].owner # None PROVE nss'[n].by \in Envs
    BY DEF OwnedInv
  <2>1. nss'[n] = nss[n]
    BY Marks
  <2>2. QED
    BY <2>1 DEF NsInv, OwnedInv
<1>3. QED
  BY <1>1, <1>2 DEF NsInv

LEMMA BindNs ==
  ASSUME TypeOK, NsInv, NEW freed \in SUBSET Namespaces, NEW ok \in BOOLEAN, Bind(freed, ok)
  PROVE  NsInv'
<1> DEFINE e == work.env
           owner == IF nss[Ns].owner = None THEN Me ELSE nss[Ns].owner
           all == ok /\ freed = Former(e, Ns)
<1>1. work.pc = "bind" /\ work' = [work EXCEPT !.pc = "limit"] /\ freed \subseteq Former(e, Ns)
  BY DEF Bind, Goto
<1>2. work \in Working /\ e \in Envs /\ Ns \in Namespaces
  BY <1>1, Binding
<1>3. work'.pc = "limit"
  BY <1>1, <1>2 DEF Working
<1> HIDE DEF owner
<1>4. \A n \in Namespaces :
        nss'[n] = IF n = Ns /\ ok THEN [owner |-> owner, by |-> e]
                  ELSE IF n \in freed THEN Free ELSE nss[n]
  BY DEF Bind, owner
<1>5. \A n \in Namespaces : \/ nss'[n] = nss[n] /\ n \notin freed
                            \/ nss'[n] = Free
                            \/ n = Ns /\ ok /\ nss'[n].by = e
  BY <1>4
<1>6. bound' = [bound EXCEPT ![e] = IF all THEN Ns ELSE "none"]
  BY DEF Bind
<1>7. BoundInv'
  <2> SUFFICES ASSUME NEW f \in Envs, bound'[f] # "none", NEW n \in Namespaces \ {bound'[f]}
               PROVE  nss'[n].by # f
    BY DEF BoundInv
  <2>1. CASE f = e
    <3>1. all /\ n # Ns
      BY <1>2, <1>6, <2>1 DEF TypeOK
    <3>2. nss[n].by = e => n \in freed
      BY <3>1 DEF Former
    <3>3. QED
      BY <1>2, <1>5, <2>1, <3>1, <3>2, Marks
  <2>2. CASE f # e
    <3>1. bound'[f] = bound[f]
      BY <1>6, <2>2 DEF TypeOK
    <3>2. nss[n].by # f
      BY <3>1 DEF NsInv, BoundInv
    <3>3. QED
      BY <1>5, <2>2, <3>2, Marks
  <2>3. QED
    BY <2>1, <2>2
<1>8. OwnedInv'
  <2> SUFFICES ASSUME NEW n \in Namespaces, nss'[n].owner # None PROVE nss'[n].by \in Envs
    BY DEF OwnedInv
  <2>1. nss'[n] = nss[n] \/ nss'[n].by = e
    BY <1>5, Marks
  <2>2. QED
    BY <1>2, <2>1 DEF NsInv, OwnedInv
<1>9. FreeInv'
  BY <1>3 DEF FreeInv
<1>10. QED
  BY <1>7, <1>8, <1>9 DEF NsInv

LEMMA ReleaseNs ==
  ASSUME TypeOK, NsInv, NEW ok \in BOOLEAN, Release(ok)
  PROVE  NsInv'
<1>1. /\ work.pc = "release" /\ UNCHANGED bound
      /\ nss' = IF ok /\ work.copy.policy = "delLabels" THEN [nss EXCEPT ![Ns] = Free] ELSE nss
      /\ IF ok THEN work' = [work EXCEPT !.pc = "unhold"] ELSE work' = Idle
  BY DEF Release, Goto, Retry
<1>2. work \in Working /\ Ns \in Namespaces /\ nss \in [Namespaces -> Namespace \cup {Absent}]
  BY <1>1, Binding DEF TypeOK
<1>3. [work EXCEPT !.pc = "unhold"].copy = work.copy
  BY <1>2 DEF Working
<1>4. \A n \in Namespaces : nss'[n] \in {nss[n], Free, Absent}
  BY <1>1, <1>2
<1>5. FreeInv'
  <2> SUFFICES ASSUME work'.pc = "unhold", work'.copy.policy = "delLabels"
               PROVE  nss'[work'.copy.ns].owner = None
    BY DEF FreeInv
  <2>1. ok /\ work'.copy = work.copy
    BY <1>1, <1>3, Marks
  <2>2. nss'[Ns] = Free
    BY <1>1, <1>2, <2>1
  <2>3. QED
    BY <2>1, <2>2, Marks DEF Ns
<1>6. QED
  BY <1>1, <1>4, <1>5, NsIfFreed

\* The reconcile goes on or ends, without a namespace.
LEMMA NsIfAlike ==
  ASSUME NsInv, UNCHANGED <<nss, bound>>, UNCHANGED work \/ work'.pc # "unhold"
  PROVE  NsInv'
<1>1. FreeInv'
  BY DEF NsInv, FreeInv
<1>2. QED
  BY <1>1, NsIfFreed

LEMMA CollectNs ==
  ASSUME TypeOK, NsInv, NEW n \in Namespaces, Collect(n)
  PROVE  NsInv'
<1>1. UNCHANGED <<work, bound>> /\ (nss' = nss \/ nss' = [nss EXCEPT ![n] = Absent])
  BY DEF Collect, CollectNamespace, CollectQuota, controller
<1>2. \A m \in Namespaces : nss'[m] \in {nss[m], Free, Absent}
  BY <1>1 DEF TypeOK
<1>3. FreeInv'
  <2> SUFFICES ASSUME work.pc = "unhold", work.copy.policy = "delLabels"
               PROVE  nss'[work.copy.ns].owner = None
    BY <1>1 DEF FreeInv
  <2>1. work.copy.ns \in Namespaces /\ nss[work.copy.ns].owner = None
    BY Binding DEF NsInv, FreeInv, Ns
  <2>2. QED
    BY <1>2, <2>1, Marks
<1>4. QED
  BY <1>1, <1>2, <1>3, NsIfFreed

LEMMA NsStep == TypeOK /\ NsInv /\ [Next]_vars => NsInv'
<1> SUFFICES ASSUME TypeOK, NsInv, [Next]_vars PROVE NsInv'
  OBVIOUS
<1>1. ASSUME NEW r \in Requests, Serve(r) PROVE NsInv'
  <2>1. UNCHANGED <<nss, bound, work>>
    BY <1>1 DEF Serve, PostProjectEnvironment, PutEnvironment, DeleteEnvironment, DeleteProject,
                Check, Save, Apply, DeleteObject, DeleteObjectOf, Commit, cluster, controller
  <2>2. QED
    BY <2>1, NsIfAlike
<1>2. ASSUME NEW e \in Envs, Watch(e) \/ Resync(e) PROVE NsInv'
  BY <1>2, NsIfAlike DEF Watch, Resync, cluster
<1>3. ASSUME NEW e \in Envs, Reconcile(e) PROVE NsInv'
  <2>1. work'.pc # "unhold"
    BY <1>3, Marks DEF Reconcile
  <2>2. QED
    BY <1>3, <2>1, NsIfAlike DEF Reconcile, cluster
<1>4. ASSUME NEW ok \in BOOLEAN, Limit(ok) PROVE NsInv'
  <2>1. work.pc = "limit" /\ work' = [work EXCEPT !.pc = "hold"] /\ UNCHANGED <<nss, bound>>
    BY <1>4 DEF Limit, Goto
  <2>2. work'.pc # "unhold"
    BY <2>1, Binding DEF Working
  <2>3. QED
    BY <2>1, <2>2, NsIfAlike
<1>5. ASSUME NEW ok \in BOOLEAN, Hold(ok) \/ Unhold(ok) PROVE NsInv'
  <2>1. work' = Idle /\ UNCHANGED <<nss, bound>>
    BY <1>5 DEF Hold, Unhold, Retry
  <2>2. QED
    BY <2>1, NsIfAlike, Marks
<1>6. CASE Work
  BY <1>4, <1>5, <1>6, BindNs, ReleaseNs DEF Work
<1>7. CASE Crash
  BY <1>7, NsIfAlike, Marks DEF Crash, cluster
<1>8. CASE UNCHANGED vars
  BY <1>8, NsIfAlike DEF vars
<1>9. QED
  BY <1>1, <1>2, <1>3, <1>6, <1>7, <1>8, CollectNs DEF Next

\* A held object goes in one way only.
LEMMA HeldGoes ==
  ASSUME TypeOK, OpInv, [Next]_vars, NEW e \in Envs, cr[e] # NoObject, cr[e].fin, cr'[e] = NoObject
  PROVE  work.pc = "unhold" /\ work.copy = cr[e]
<1>1. cr \in [Envs -> Object \cup {NoObject}] /\ cr[e] \in Object
  BY DEF TypeOK
<1>2. \A o \in Object : o # NoObject
  BY Objects
<1>3. ASSUME NEW ok \in BOOLEAN, Unhold(ok) PROVE work.pc = "unhold" /\ work.copy = cr[e]
  BY <1>1, <1>3 DEF Unhold
<1>4. ASSUME NEW ok \in BOOLEAN, Hold(ok) PROVE FALSE
  BY <1>1, <1>2, <1>4, ObjectMade DEF Hold
<1>5. ASSUME NEW r \in Requests, NEW lands \in BOOLEAN, NEW ok \in BOOLEAN, Apply(r, lands, ok)
      PROVE  FALSE
  <2>1. req[r].pc = "saved" /\ req[r].op \in {"post", "put"}
    BY <1>5 DEF Apply
  <2>2. req[r].row \in Row
    BY <2>1, AsBegun DEF UnderWay
  <2>3. Updated(cr[e], req[r].row) # NoObject
    BY <1>1, <1>2, <2>2, ObjectMade
  <2>4. cr' = cr \/ cr[req[r].env] = NoObject \/ cr' = [cr EXCEPT ![req[r].env] = Updated(@, req[r].row)]
    BY <1>5 DEF Apply
  <2>5. cr[req[r].env] = NoObject => cr'[e] = cr[e]
    BY <1>1, <1>5 DEF Apply
  <2>6. QED
    BY <1>1, <2>3, <2>4, <2>5
<1>6. Deleted(cr[e]) # NoObject
  <2>1. [cr[e] EXCEPT !.rev = @ + 1, !.deleting = TRUE] \in Object
    BY <1>1, ObjectMade
  <2>2. QED
    BY <1>1, <1>2, <2>1 DEF Deleted
<1>7. ASSUME NEW r \in Requests, NEW lands \in BOOLEAN, NEW ok \in BOOLEAN,
             DeleteObject(r, lands, ok) \/ \E f \in Envs : DeleteObjectOf(r, f, lands, ok)
      PROVE  FALSE
  <2>1. cr' = cr \/ \E f : cr' = [cr EXCEPT ![f] = Deleted(cr[f])]
    BY <1>7 DEF DeleteObject, DeleteObjectOf
  <2>2. QED
    BY <1>1, <1>6, <2>1
<1>8. cr' # cr
  OBVIOUS
<1>9. ASSUME NEW r \in Requests, Serve(r) PROVE FALSE
  <2>1. ASSUME NEW ok \in BOOLEAN, Commit(r, ok) PROVE FALSE
    BY <1>8, <2>1 DEF Commit, cluster
  <2>2. Save(r) => FALSE
    BY <1>8 DEF Save, cluster
  <2>3. ASSUME NEW op, NEW f, NEW row, NEW left, Check(r, op, f, row, left) PROVE FALSE
    BY <1>8, <2>3 DEF Check, cluster
  <2>4. QED
    BY <1>5, <1>7, <1>9, <2>1, <2>2, <2>3 DEF Serve, PostProjectEnvironment, PutEnvironment,
                                             DeleteEnvironment, DeleteProject
<1>10. ASSUME Crash \/ UNCHANGED vars \/ (\E n \in Namespaces : Collect(n))
              \/ (\E f \in Envs : Watch(f) \/ Resync(f) \/ Reconcile(f))
       PROVE  FALSE
  BY <1>8, <1>10 DEF Crash, vars, Collect, CollectNamespace, CollectQuota, Watch, Resync, Reconcile, cluster
<1>11. CASE Work
  <2>1. ASSUME NEW ok \in BOOLEAN, Limit(ok) \/ Release(ok) PROVE FALSE
    BY <1>8, <2>1 DEF Limit, Release
  <2>2. ASSUME NEW freed, NEW ok \in BOOLEAN, Bind(freed, ok) PROVE FALSE
    BY <1>8, <2>2 DEF Bind
  <2>3. QED
    BY <1>3, <1>4, <1>11, <2>1, <2>2 DEF Work
<1>12. QED
  BY <1>9, <1>10, <1>11 DEF Next

\* With an environment goes the namespace it was given, unless it was to be freed, and
\* another one only if some environment has bound that since, for any number of
\* environments, edits, failures and restarts (environment_controller.go:84-124, 161-181).
THEOREM OwnTaken == Spec => TakesItsOwn
<1>1. TypeOK /\ OpInv /\ NsInv /\ [Next]_vars
      => [\A e \in Envs, n \in Namespaces :
            Takes(e, n) /\ cr[e].fin /\ bound[e] = cr[e].ns
            => \/ n = cr[e].ns /\ cr[e].policy = "delNamespace"
               \/ nss[n].by \in Envs \ {e}]_vars
  <2> SUFFICES ASSUME TypeOK, OpInv, NsInv, [Next]_vars, NEW e \in Envs, NEW n \in Namespaces,
                      Takes(e, n), cr[e].fin, bound[e] = cr[e].ns
               PROVE  \/ n = cr[e].ns /\ cr[e].policy = "delNamespace"
                      \/ nss[n].by \in Envs \ {e}
    OBVIOUS
  <2>1. cr[e] # NoObject /\ cr'[e] = NoObject /\ nss[n].owner.env = e
    BY DEF Takes
  <2>2. cr[e] \in Object
    BY <2>1 DEF TypeOK
  <2>3. cr[e].ns \in Namespaces /\ cr[e].policy \in Policies
    BY <2>2, Objects
  <2>4. nss[n].owner # None
    BY <2>1, Marks DEF None
  <2>5. nss[n].by \in Envs
    BY <2>4 DEF NsInv, OwnedInv
  <2>6. CASE n # cr[e].ns
    <3>1. nss[n].by # e
      BY <2>3, <2>6, Marks DEF NsInv, BoundInv
    <3>2. QED
      BY <2>5, <3>1
  <2>7. CASE n = cr[e].ns
    <3>1. work.pc = "unhold" /\ work.copy = cr[e]
      BY <2>1, HeldGoes
    <3>2. cr[e].policy # "delLabels"
      BY <2>4, <2>7, <3>1 DEF NsInv, FreeInv
    <3>3. QED
      BY <2>3, <2>7, <3>2 DEF Policies
  <2>8. QED
    BY <2>6, <2>7
<1>2. Init => TypeOK /\ OpInv /\ NsInv
  BY InitType, InitNs
<1>3. TypeOK /\ OpInv /\ NsInv /\ [Next]_vars => (TypeOK /\ OpInv /\ NsInv)'
  BY TypeStep, NsStep
<1>4. QED
  BY <1>1, <1>2, <1>3, PTL DEF Spec, TakesItsOwn
=============================================================================
