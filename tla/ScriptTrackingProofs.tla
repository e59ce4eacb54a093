------------------------ MODULE ScriptTrackingProofs ------------------------
(***************************************************************************)
(* Proofs about ScriptTracking, for every set of deployers, paths, drafts  *)
(* and projects and for any bounds.                                        *)
(***************************************************************************)
EXTENDS ScriptTracking, FiniteSetTheorems, WellFoundedInduction, TLAPS

(* What the proofs need of the types of the state.                         *)
Shape ==
  /\ pc \in [Deployers -> {"idle", "scan", "lock", "begin", "exec"}]
  /\ tx = [d \in Deployers |-> tx[d]]

(* An empty store says nothing wrong (what a transaction begins with).     *)
LEMMA EmptyAgrees == Agrees(Empty) /\ Empty.log = {}
BY DEF Agrees, Empty

(* Logging one execution keeps a store truthful (the three inserts of the  *)
(* loop and the script between them).                                      *)
LEMMA AddedAgrees ==
  ASSUME NEW t, NEW r, Agrees(t)
  PROVE  Agrees(Added(t, r)) /\ Added(t, r).log = t.log \cup {r}
BY DEF Agrees, Added

(* Committing a truthful transaction keeps the database truthful.          *)
LEMMA MergeAgrees ==
  ASSUME NEW s, NEW t, Agrees(s), Agrees(t)
  PROVE  Agrees(Merge(s, t)) /\ Merge(s, t).log = s.log \cup t.log
BY DEF Agrees, Merge

(* The steps that touch neither the database nor a transaction and take    *)
(* nobody past the lock keep the invariant.                                *)
LEMMA QuietStep ==
  ASSUME Shape, TrackingInv, UNCHANGED <<db, tx>>,
         NEW d \in Deployers, NEW l \in {"idle", "scan", "lock"},
         pc[d] # "exec", pc' = [pc EXCEPT ![d] = l]
  PROVE  TrackingInv'
<1>1. \A o \in Deployers : pc'[o] \in {"begin", "exec"} =>
         o # d /\ pc[o] \in {"begin", "exec"}
  BY DEF Shape
<1>2. \A o \in Deployers : pc'[o] # "exec" => tx[o] = Empty
  BY DEF Shape, TrackingInv
<1> QED
  BY <1>1, <1>2 DEF TrackingInv, Agrees, Once

(* The end of a transaction that leaves the database alone.                *)
LEMMA RollBack ==
  ASSUME Shape, TrackingInv, NEW d \in Deployers, NEW how, NEW o,
         EndTx(d, how, o), UNCHANGED db
  PROVE  TrackingInv'
<1>1. \A p \in Deployers : pc'[p] \in {"begin", "exec"} =>
         p # d /\ pc[p] \in {"begin", "exec"}
  BY DEF Shape, EndTx
<1>2. \A p \in Deployers : tx'[p] = IF p = d THEN Empty ELSE tx[p]
  BY DEF Shape, EndTx
<1>3. \A p \in Deployers : pc'[p] # "exec" => tx'[p] = Empty
  BY <1>2 DEF Shape, EndTx, TrackingInv
<1>4. \A p \in Deployers : Agrees(tx'[p]) /\ Once(db.log \cup tx'[p].log)
  BY <1>2, EmptyAgrees DEF TrackingInv, Once
<1> QED
  BY <1>1, <1>3, <1>4 DEF TrackingInv, Agrees, Once

(* Every step keeps the inductive invariant.                               *)
LEMMA TrackingStep ==
  ASSUME Shape, TrackingInv, [Next]_vars
  PROVE  TrackingInv'
<1>1. CASE UNCHANGED vars
  BY <1>1 DEF vars, local, TrackingInv, Agrees, Once
<1>2. ASSUME NEW new, Edit(new) PROVE TrackingInv'
  BY <1>2 DEF Edit, local, TrackingInv, Agrees, Once
<1>3. ASSUME NEW d \in Deployers, Start(d) PROVE TrackingInv'
  BY <1>3, QuietStep DEF Start
<1>4. ASSUME NEW d \in Deployers, NEW p \in Paths, ScanFile(d, p) PROVE TrackingInv'
  <2>1. pc' = [pc EXCEPT ![d] = "idle"] \/ pc' = [pc EXCEPT ![d] = "scan"]
    BY <1>4 DEF ScanFile, Finish, Shape
  <2> QED BY <2>1, <1>4, QuietStep DEF ScanFile
<1>5. ASSUME NEW d \in Deployers, ValidateScan(d) PROVE TrackingInv'
  BY <1>5, QuietStep DEF ValidateScan, Finish
<1>6. ASSUME NEW d \in Deployers, TryLock(d) PROVE TrackingInv'
  <2>1. CASE \E o \in Deployers : Locked(o)
    BY <1>6, <2>1, QuietStep DEF TryLock, Finish
  <2>2. CASE ~ \E o \in Deployers : Locked(o)
    <3>1. pc' = [pc EXCEPT ![d] = "begin"] /\ UNCHANGED <<db, tx>> /\ pc[d] = "lock"
      BY <1>6, <2>2 DEF TryLock
    <3>2. \A o \in Deployers : pc'[o] \in {"begin", "exec"} => o = d
      BY <2>2, <3>1 DEF Locked, Shape
    <3>3. \A o \in Deployers : pc'[o] # "exec" => tx[o] = Empty
      BY <3>1 DEF Shape, TrackingInv
    <3> QED BY <3>1, <3>2, <3>3 DEF TrackingInv, Agrees, Once
  <2> QED BY <2>1, <2>2
<1>7. ASSUME NEW d \in Deployers, Begin(d) PROVE TrackingInv'
  <2>1. pc[d] = "begin" /\ pc' = [pc EXCEPT ![d] = "exec"] /\ db' = db
    BY <1>7 DEF Begin
  <2>2. tx' = tx
    BY <1>7, <2>1 DEF Begin, TrackingInv, Shape
  <2>3. \A o \in Deployers : pc'[o] \in {"begin", "exec"} => pc[o] \in {"begin", "exec"}
    BY <2>1 DEF Shape
  <2>4. \A o \in Deployers : pc'[o] # "exec" => tx[o] = Empty
    BY <2>1 DEF Shape, TrackingInv
  <2> QED BY <2>1, <2>2, <2>3, <2>4 DEF TrackingInv, Agrees, Once
<1>8. ASSUME NEW d \in Deployers, NEW e \in pending[d], Skip(d, e) PROVE TrackingInv'
  BY <1>8 DEF Skip, TrackingInv, Agrees, Once
<1>9. ASSUME NEW d \in Deployers, NEW e \in pending[d], Execute(d, e) PROVE TrackingInv'
  <2> DEFINE r == Row(d, snap[d], e)
  <2>1. /\ pc[d] = "exec" /\ pc' = pc /\ db' = db
        /\ tx' = [tx EXCEPT ![d] = Added(@, r)]
        /\ ~Skips(d, snap[d], e.path)
    BY <1>9 DEF Execute
  <2>2. \A o \in Deployers : tx'[o] = IF o = d THEN Added(tx[d], r) ELSE tx[o]
    BY <2>1 DEF Shape
  <2>3. r.obj = ObjectId(snap[d], e.path) /\ r.idempotent = Idempotent(snap[d], e.path)
    BY DEF Row
  <2>4. r.idempotent \/ \A a \in db.log \cup tx[d].log : a.obj = r.obj => a.idempotent
    BY <2>1, <2>3 DEF Skips, AlreadyRan
  <2>5. Agrees(Added(tx[d], r)) /\ Added(tx[d], r).log = tx[d].log \cup {r}
    BY AddedAgrees DEF TrackingInv
  <2>6. Once(db.log \cup tx[d].log)
    BY DEF TrackingInv
  <2> HIDE DEF r
  <2>7. Once((db.log \cup tx[d].log) \cup {r})
    BY <2>4, <2>6 DEF Once
  <2>8. Once(db.log \cup Added(tx[d], r).log)
    BY <2>5, <2>7 DEF Once
  <2>9. \A o \in Deployers : Agrees(tx'[o]) /\ Once(db.log \cup tx'[o].log)
    BY <2>2, <2>5, <2>8 DEF TrackingInv
  <2>10. \A o \in Deployers : pc[o] # "exec" => tx'[o] = Empty
    BY <2>1, <2>2 DEF TrackingInv
  <2> QED BY <2>1, <2>9, <2>10 DEF TrackingInv, Agrees, Once
<1>10. ASSUME NEW d \in Deployers, NEW e \in pending[d], ScriptFails(d, e) PROVE TrackingInv'
  BY <1>10, RollBack DEF ScriptFails
<1>11. ASSUME NEW d \in Deployers, Abort(d) PROVE TrackingInv'
  BY <1>11, RollBack DEF Abort
<1>12. ASSUME NEW d \in Deployers, Commit(d) PROVE TrackingInv'
  <2>1. /\ pc[d] = "exec" /\ pc' = [pc EXCEPT ![d] = "idle"]
        /\ tx' = [tx EXCEPT ![d] = Empty] /\ db' = Merge(db, tx[d])
    BY <1>12 DEF Commit, EndTx
  <2>2. \A o \in Deployers : pc'[o] \notin {"begin", "exec"}
    BY <2>1 DEF TrackingInv, Shape
  <2>3. \A o \in Deployers : tx'[o] = Empty
    BY <2>1 DEF TrackingInv, Shape
  <2>4. Agrees(db') /\ db'.log = db.log \cup tx[d].log
    BY <2>1, MergeAgrees DEF TrackingInv
  <2>5. Once(db'.log)
    BY <2>4 DEF TrackingInv
  <2>6. \A o \in Deployers : Agrees(tx'[o]) /\ Once(db'.log \cup tx'[o].log)
    BY <2>3, <2>5, EmptyAgrees DEF Once
  <2> QED BY <2>2, <2>3, <2>4, <2>5, <2>6 DEF TrackingInv, Agrees, Once
<1>13. ASSUME NEW d \in Deployers, GiveUp(d) PROVE TrackingInv'
  <2>1. CASE pc[d] = "exec"
    BY <1>13, <2>1 DEF GiveUp, TrackingInv, Agrees, Once
  <2>2. CASE pc[d] # "exec"
    BY <1>13, <2>2, QuietStep DEF GiveUp
  <2> QED BY <2>1, <2>2
<1> QED
  BY <1>1, <1>2, <1>3, <1>4, <1>5, <1>6, <1>7, <1>8, <1>9, <1>10, <1>11, <1>12, <1>13
     DEF Next, Write, Move, Scaffold, Quiescent

(* The shapes hold in every reachable state.                               *)
LEMMA ShapeHolds == Spec => []Shape
<1>1. Init => Shape
  BY DEF Init, Shape, Empty
<1>2. ASSUME Shape, [Next]_vars PROVE Shape'
  <2>1. CASE UNCHANGED vars
    BY <1>2, <2>1 DEF Shape, vars, local
  <2>2. ASSUME NEW new, Edit(new) PROVE Shape'
    BY <1>2, <2>2 DEF Shape, Edit, local
  <2>3. ASSUME NEW d \in Deployers, NEW l \in {"idle", "scan", "lock", "begin", "exec"},
               pc' = [pc EXCEPT ![d] = l] \/ pc' = pc,
               NEW t, tx' = [tx EXCEPT ![d] = t] \/ tx' = tx
        PROVE  Shape'
    BY <1>2, <2>3 DEF Shape
  <2>4. ASSUME NEW d \in Deployers,
               \/ Start(d) \/ ValidateScan(d) \/ TryLock(d) \/ Begin(d)
               \/ Abort(d) \/ Commit(d) \/ GiveUp(d)
        PROVE  Shape'
    BY <2>3, <2>4 DEF Start, ValidateScan, TryLock, Begin, Abort, Commit, GiveUp,
       EndTx, Finish
  <2>5. ASSUME NEW d \in Deployers, NEW p \in Paths, ScanFile(d, p) PROVE Shape'
    BY <2>3, <2>5 DEF ScanFile, Finish
  <2>6. ASSUME NEW d \in Deployers, NEW e \in pending[d],
               Skip(d, e) \/ Execute(d, e) \/ ScriptFails(d, e)
        PROVE  Shape'
    BY <2>3, <2>6 DEF Skip, Execute, ScriptFails, EndTx
  <2> QED
    BY <1>2, <2>1, <2>2, <2>4, <2>5, <2>6 DEF Next, Write, Move, Scaffold, Quiescent
<1> QED BY <1>1, <1>2, PTL DEF Spec

(* The inductive invariant holds in every reachable state.                 *)
LEMMA TrackingInvHolds == Spec => []TrackingInv
<1>1. Init => TrackingInv
  BY EmptyAgrees DEF Init, TrackingInv, Once
<1> QED BY <1>1, TrackingStep, ShapeHolds, PTL DEF Spec

(* No identity runs twice under the one-time contract, over any number of  *)
(* deployments, deployers and edits.                                       *)
THEOREM OneTimeScriptsRunOnce == Spec => []RunsOnce
<1>1. TrackingInv => RunsOnce
  BY DEF TrackingInv, Agrees, RunsOnce
<1> QED BY <1>1, TrackingInvHolds, PTL

(* The execution log is exactly what took effect.                          *)
THEOREM LogIsTruthful == Spec => []TrackingAgrees
<1>1. TrackingInv => TrackingAgrees
  BY DEF TrackingInv, TrackingAgrees
<1> QED BY <1>1, TrackingInvHolds, PTL

----------------------------------------------------------------------------
(* What a deployment has done of its plan                                  *)

(* A file as a scan reads it: metadata that parsed has its sort keys.      *)
SnapOK(s) == DOMAIN s \subseteq Paths /\ \A p \in DOMAIN s : FileOK(s[p])

(* The places of key k in a file's sort keys whose plan rows are done.     *)
DoneAt(s, left, p, k) ==
  {i \in DOMAIN SortKeys(s, p) :
     SortKeys(s, p)[i] = k /\ [key |-> k, path |-> p, nth |-> i] \notin left}

RanAt(rows, p, k) == {r \in rows : r.path = p /\ r.key = k}

(* A row of the log that lets a one-time file be passed over.              *)
Covers(s, rows, p, r) ==
  r.obj = ObjectId(s, p) /\ ~r.idempotent /\ (r \in rows => r.path = p)

FromPlan(s, r) ==
  /\ r.path \in DOMAIN s \cap SqlPaths
  /\ \E i \in DOMAIN SortKeys(s, r.path) : r.key = SortKeys(s, r.path)[i]
  /\ r.obj = ObjectId(s, r.path) /\ r.idempotent = Idempotent(s, r.path)
  /\ r.content = s[r.path].content

NotAfter(a, b) == a.key < b.key \/ (a.key = b.key /\ a.path <= b.path)

(* With rows the log of a deployment of snapshot s, left its plan rows to  *)
(* come and seen all it sees of the log: rows come from the plan and in    *)
(* its order, before what is left; a one-time row is at the file's first   *)
(* key; whatever was passed of a one-time file is covered; and each key of *)
(* an idempotent file was run as often as it was passed.                   *)
InOrder(left, rows) ==
  /\ \A r \in rows, e \in left : NotAfter(r, e)
  /\ \A a, b \in rows : a.n < b.n => NotAfter(a, b)
  /\ \A a, b \in rows : a.n = b.n => a = b

FirstKey(s, rows) ==
  \A r \in rows : ~r.idempotent =>
    \A i \in DOMAIN SortKeys(s, r.path) : r.key <= SortKeys(s, r.path)[i]

Covered(s, left, rows, seen) ==
  \A e \in PlanView(s) \ left : ~Idempotent(s, e.path) =>
    \E r \in seen : Covers(s, rows, e.path, r)

Repeated(s, left, rows) ==
  \A p \in DOMAIN s \cap SqlPaths : Idempotent(s, p) =>
    \A i \in DOMAIN SortKeys(s, p) :
      Cardinality(RanAt(rows, p, SortKeys(s, p)[i]))
        = Cardinality(DoneAt(s, left, p, SortKeys(s, p)[i]))

Follows(s, left, rows, seen) ==
  /\ ~DuplicateIDs(s)
  /\ left \subseteq PlanView(s)
  /\ IsFiniteSet(rows) /\ rows \subseteq seen
  /\ \A r \in rows : FromPlan(s, r)
  /\ InOrder(left, rows) /\ FirstKey(s, rows)
  /\ Covered(s, left, rows, seen) /\ Repeated(s, left, rows)

Rows(d) == {r \in db.log \cup tx[d].log : r.run = run[d]}

(* Deployments are told apart by their numbers, rows by the deployment     *)
(* that wrote them and, within it, by when.                                *)
Numbered ==
  /\ seq \in Nat \ {0} /\ runs \in Nat /\ run \in [Deployers -> 0..runs]
  /\ ended = [d \in Deployers |-> ended[d]]
  /\ \A d, o \in Deployers : run[d] = run[o] /\ run[d] # 0 => d = o
  /\ \A d \in Deployers : pc[d] # "idle" => run[d] # 0 /\ ended[d] = "none"
  /\ \A r \in db.log : r.n \in Nat /\ r.n < seq /\ r.run \in 1..runs
  /\ \A d \in Deployers : \A r \in tx[d].log : r.n \in Nat /\ r.n < seq /\ r.run = run[d]
  /\ \A d \in Deployers : \A r \in db.log : r.run = run[d] => ended[d] = "committed"

Files ==
  /\ project = [p \in Paths |-> project[p]]
  /\ \A p \in Paths : project[p] = Absent \/ FileOK(project[p])
  /\ snap = [d \in Deployers |-> snap[d]] /\ pending = [d \in Deployers |-> pending[d]]
  /\ \A d \in Deployers : SnapOK(snap[d])

PlanFor(d) ==
  /\ pc[d] = "lock" => ~DuplicateIDs(snap[d])
  /\ ended[d] = "committed" => pending[d] = {} /\ run[d] # 0
  /\ pc[d] \in {"begin", "exec"} \/ ended[d] = "committed" =>
       Follows(snap[d], pending[d], Rows(d), db.log \cup tx[d].log)

PlanInv == \A d \in Deployers : PlanFor(d)

(* Every file has at least one sort key, and all are ranks.                *)
LEMMA KeysType ==
  ASSUME NEW s, SnapOK(s), NEW p \in DOMAIN s
  PROVE  /\ p \in Nat
         /\ SortKeys(s, p) \in Seq(Nat)
         /\ DOMAIN SortKeys(s, p) = 1..Len(SortKeys(s, p))
         /\ Len(SortKeys(s, p)) \in Nat \ {0}
         /\ \A i \in DOMAIN SortKeys(s, p) : SortKeys(s, p)[i] \in Nat
         /\ IsFiniteSet(DOMAIN SortKeys(s, p))
<1>1. p \in Nat
  BY PathsAreRanks DEF SnapOK
<1>2. CASE HasMeta(s, p) /\ s[p].meta.keys # <<>>
  <2>1. SortKeys(s, p) = s[p].meta.keys
    BY <1>2 DEF SortKeys
  <2>2. s[p].meta.keys \in Seq(Nat)
    BY <1>2 DEF SnapOK, FileOK, HasMeta
  <2> HIDE DEF HasMeta
  <2> DEFINE k == s[p].meta.keys
  <2>3. k \in Seq(Nat) /\ k # <<>>
    BY <2>2, <1>2
  <2> HIDE DEF k
  <2>4. DOMAIN k = 1..Len(k) /\ Len(k) \in Nat \ {0} /\ \A i \in DOMAIN k : k[i] \in Nat
    BY <2>3
  <2>5. IsFiniteSet(1..Len(k))
    BY <2>4, FS_Interval
  <2> QED BY <1>1, <2>1, <2>3, <2>4, <2>5 DEF k
<1>3. CASE ~ (HasMeta(s, p) /\ s[p].meta.keys # <<>>)
  <2>1. SortKeys(s, p) = <<p>>
    BY <1>3 DEF SortKeys
  <2>2. IsFiniteSet({1})
    BY FS_Singleton
  <2>3. Len(<<p>>) = 1 /\ DOMAIN <<p>> = 1..1 /\ 1..1 = {1} /\ <<p>> \in Seq(Nat)
    BY <1>1
  <2> QED BY <1>1, <2>1, <2>2, <2>3
<1> QED BY <1>2, <1>3

(* A row of the plan is one place in one file's sort keys.                 *)
LEMMA PlanRow ==
  ASSUME NEW s, SnapOK(s), NEW e \in PlanView(s)
  PROVE  /\ e.path \in DOMAIN s \cap SqlPaths /\ e.path \in Nat
         /\ e.nth \in DOMAIN SortKeys(s, e.path) /\ e.nth \in Nat
         /\ e.key = SortKeys(s, e.path)[e.nth] /\ e.key \in Nat
         /\ e = [key |-> e.key, path |-> e.path, nth |-> e.nth]
<1>1. PICK p \in DOMAIN s \cap SqlPaths :
        \E i \in DOMAIN SortKeys(s, p) : e = [key |-> SortKeys(s, p)[i], path |-> p, nth |-> i]
  BY DEF PlanView
<1>2. PICK i \in DOMAIN SortKeys(s, p) :
        e = [key |-> SortKeys(s, p)[i], path |-> p, nth |-> i]
  BY <1>1
<1>3. e.path = p /\ e.nth = i /\ e.key = SortKeys(s, p)[i]
  BY <1>2
<1>4. e.path \in DOMAIN s \cap SqlPaths /\ e.nth \in DOMAIN SortKeys(s, e.path)
  BY <1>3
<1> QED BY <1>2, <1>3, <1>4, KeysType

LEMMA RowInPlan ==
  ASSUME NEW s, NEW p \in DOMAIN s \cap SqlPaths, NEW i \in DOMAIN SortKeys(s, p)
  PROVE  [key |-> SortKeys(s, p)[i], path |-> p, nth |-> i] \in PlanView(s)
BY DEF PlanView

(* A deployment that has done nothing yet follows its plan.                *)
LEMMA StartFollows ==
  ASSUME NEW s, SnapOK(s), ~DuplicateIDs(s), NEW seen
  PROVE  Follows(s, PlanView(s), {}, seen)
<1>1. Repeated(s, PlanView(s), {})
  <2> SUFFICES ASSUME NEW p \in DOMAIN s \cap SqlPaths, NEW i \in DOMAIN SortKeys(s, p)
               PROVE  Cardinality(RanAt({}, p, SortKeys(s, p)[i]))
                        = Cardinality(DoneAt(s, PlanView(s), p, SortKeys(s, p)[i]))
    BY DEF Repeated
  <2>1. RanAt({}, p, SortKeys(s, p)[i]) = {}
    BY DEF RanAt
  <2>2. DoneAt(s, PlanView(s), p, SortKeys(s, p)[i]) = {}
    BY RowInPlan DEF DoneAt
  <2> QED BY <2>1, <2>2
<1> QED BY <1>1, FS_EmptySet DEF Follows, InOrder, FirstKey, Covered

(* Two one-time files of one scan have two identities.                     *)
LEMMA OneFile ==
  ASSUME NEW s, ~DuplicateIDs(s), NEW p \in DOMAIN s, NEW q \in DOMAIN s,
         ~Idempotent(s, p), ~Idempotent(s, q), ObjectId(s, p) = ObjectId(s, q)
  PROVE  p = q
BY DEF Idempotent, ObjectId, DuplicateIDs

(* Taking a row from the plan passes that place and no other.              *)
LEMMA PassedPlaces ==
  ASSUME NEW s, SnapOK(s), NEW left, left \subseteq PlanView(s), NEW e \in left,
         NEW p \in DOMAIN s \cap SqlPaths, NEW k
  PROVE  DoneAt(s, left \ {e}, p, k) =
           IF p = e.path /\ k = e.key THEN DoneAt(s, left, p, k) \cup {e.nth}
                                      ELSE DoneAt(s, left, p, k)
<1>1. /\ e.nth \in DOMAIN SortKeys(s, e.path) /\ e.key = SortKeys(s, e.path)[e.nth]
      /\ e = [key |-> e.key, path |-> e.path, nth |-> e.nth]
  BY PlanRow
<1>2. \A i : [key |-> k, path |-> p, nth |-> i] = e <=> k = e.key /\ p = e.path /\ i = e.nth
  BY <1>1
<1> DEFINE r(i) == [key |-> k, path |-> p, nth |-> i]
<1> HIDE DEF r
<1>3. \A i : r(i) \notin left \ {e} <=> r(i) \notin left \/ (k = e.key /\ p = e.path /\ i = e.nth)
  BY <1>2 DEF r
<1> DEFINE D == DOMAIN SortKeys(s, p)
<1>4. DoneAt(s, left \ {e}, p, k) = {i \in D : SortKeys(s, p)[i] = k /\ r(i) \notin left \ {e}}
  BY DEF DoneAt, r
<1>5. DoneAt(s, left, p, k) = {i \in D : SortKeys(s, p)[i] = k /\ r(i) \notin left}
  BY DEF DoneAt, r
<1> QED BY <1>1, <1>3, <1>4, <1>5

(* The loop passes a one-time file that has run before.                    *)
LEMMA SkipFollows ==
  ASSUME NEW s, SnapOK(s), NEW left, NEW rows, NEW seen, Follows(s, left, rows, seen),
         NEW e \in left, ~Idempotent(s, e.path),
         NEW r \in seen, r.obj = ObjectId(s, e.path), ~r.idempotent
  PROVE  Follows(s, left \ {e}, rows, seen)
<1>1. /\ e.path \in DOMAIN s \cap SqlPaths /\ e.nth \in DOMAIN SortKeys(s, e.path)
      /\ e.key = SortKeys(s, e.path)[e.nth] /\ left \subseteq PlanView(s)
      /\ e = [key |-> e.key, path |-> e.path, nth |-> e.nth]
  BY PlanRow DEF Follows
<1>2. r \in rows => r.path = e.path
  BY <1>1, OneFile DEF Follows, FromPlan
<1>3. Covered(s, left \ {e}, rows, seen)
  BY <1>2 DEF Covered, Covers, Follows
<1>4. Repeated(s, left \ {e}, rows)
  <2> SUFFICES ASSUME NEW p \in DOMAIN s \cap SqlPaths, Idempotent(s, p),
                      NEW i \in DOMAIN SortKeys(s, p)
               PROVE  DoneAt(s, left \ {e}, p, SortKeys(s, p)[i])
                        = DoneAt(s, left, p, SortKeys(s, p)[i])
    BY DEF Repeated, Follows
  <2>1. p # e.path
    OBVIOUS
  <2>2. \A k, n : [key |-> k, path |-> p, nth |-> n] # e
    BY <2>1
  <2>3. \A k, n : [key |-> k, path |-> p, nth |-> n] \in left
                    <=> [key |-> k, path |-> p, nth |-> n] \in left \ {e}
    BY <2>2
  <2> QED BY <2>3 DEF DoneAt
<1> QED BY <1>3, <1>4 DEF Follows, InOrder

(* What others commit meanwhile changes nothing for it.                    *)
LEMMA SeenGrows ==
  ASSUME NEW s, NEW left, NEW rows, NEW seen, Follows(s, left, rows, seen),
         NEW more, seen \subseteq more
  PROVE  Follows(s, left, rows, more)
<1>1. Covered(s, left, rows, more)
  BY DEF Follows, Covered
<1> QED BY <1>1 DEF Follows

(* One place of an idempotent file passed, and one row more for it.        *)
LEMMA RepeatsGrow ==
  ASSUME NEW s, SnapOK(s), NEW left, NEW rows, NEW seen, Follows(s, left, rows, seen),
         NEW e \in left, NEW r, r \notin rows, r.path = e.path, r.key = e.key
  PROVE  Repeated(s, left \ {e}, rows \cup {r})
<1>1. /\ e.path \in DOMAIN s \cap SqlPaths /\ e.nth \in DOMAIN SortKeys(s, e.path)
      /\ e.key = SortKeys(s, e.path)[e.nth] /\ left \subseteq PlanView(s)
      /\ e = [key |-> e.key, path |-> e.path, nth |-> e.nth]
  BY PlanRow DEF Follows
<1> SUFFICES ASSUME NEW p \in DOMAIN s \cap SqlPaths, Idempotent(s, p),
                    NEW i \in DOMAIN SortKeys(s, p)
             PROVE  Cardinality(RanAt(rows \cup {r}, p, SortKeys(s, p)[i]))
                      = Cardinality(DoneAt(s, left \ {e}, p, SortKeys(s, p)[i]))
  BY DEF Repeated
<1> DEFINE k == SortKeys(s, p)[i]
           R == RanAt(rows, p, k)
           D == DoneAt(s, left, p, k)
<1>2. Cardinality(R) = Cardinality(D)
  BY DEF Follows, Repeated
<1>3. D \subseteq DOMAIN SortKeys(s, p) /\ R \subseteq rows
  BY DEF DoneAt, RanAt
<1>4. IsFiniteSet(D) /\ IsFiniteSet(R)
  <2>1. IsFiniteSet(DOMAIN SortKeys(s, p))
    BY KeysType
  <2>2. IsFiniteSet(rows)
    BY DEF Follows
  <2> HIDE DEF D, R
  <2> QED BY <1>3, <2>1, <2>2, FS_Subset
<1>5. RanAt(rows \cup {r}, p, k) = IF p = e.path /\ k = e.key THEN R \cup {r} ELSE R
  BY DEF RanAt
<1>6. DoneAt(s, left \ {e}, p, k) = IF p = e.path /\ k = e.key THEN D \cup {e.nth} ELSE D
  <2> HIDE DEF k
  <2> QED BY <1>1, PassedPlaces
<1>7. r \notin R
  BY DEF RanAt
<1>8. p = e.path /\ k = e.key => e.nth \notin D
  BY <1>1 DEF DoneAt
<1> HIDE DEF k, R, D
<1>9. Cardinality(R \cup {r}) = Cardinality(R) + 1
  BY <1>4, <1>7, FS_AddElement
<1>10. e.nth \notin D => Cardinality(D \cup {e.nth}) = Cardinality(D) + 1
  BY <1>4, FS_AddElement
<1>11. Cardinality(RanAt(rows \cup {r}, p, k)) = Cardinality(DoneAt(s, left \ {e}, p, k))
  <2>1. CASE p = e.path /\ k = e.key
    BY <1>2, <1>5, <1>6, <1>8, <1>9, <1>10, <2>1
  <2>2. CASE ~ (p = e.path /\ k = e.key)
    BY <1>2, <1>5, <1>6, <2>2
  <2> QED BY <2>1, <2>2
<1> QED BY <1>11 DEF k

(* The loop runs the next row: the log gets a row of its own for it.       *)
LEMMA RunFollows ==
  ASSUME NEW s, SnapOK(s), NEW left, NEW rows, NEW seen, Follows(s, left, rows, seen),
         NEW e \in left, \A o \in left \ {e} : Before(e, o),
         ~ (~Idempotent(s, e.path) /\ \E a \in seen : a.obj = ObjectId(s, e.path) /\ ~a.idempotent),
         NEW r, r \notin seen, \A a \in rows : a.n \in Nat /\ a.n < r.n, r.n \in Nat,
         r.path = e.path, r.key = e.key, r.obj = ObjectId(s, e.path),
         r.content = s[e.path].content, r.idempotent = Idempotent(s, e.path)
  PROVE  Follows(s, left \ {e}, rows \cup {r}, seen \cup {r})
<1>1. /\ e.path \in DOMAIN s \cap SqlPaths /\ e.nth \in DOMAIN SortKeys(s, e.path)
      /\ e.key = SortKeys(s, e.path)[e.nth] /\ left \subseteq PlanView(s)
      /\ e = [key |-> e.key, path |-> e.path, nth |-> e.nth]
      /\ e.key \in Nat /\ e.path \in Nat
  BY PlanRow DEF Follows
<1>2. rows \subseteq seen /\ IsFiniteSet(rows) /\ r \notin rows
  BY DEF Follows
<1>3. FromPlan(s, r)
  BY <1>1 DEF FromPlan
<1>4. InOrder(left \ {e}, rows \cup {r})
  <2>1. \A o \in left \ {e} : NotAfter(r, o)
    <3> SUFFICES ASSUME NEW o \in left \ {e} PROVE NotAfter(r, o)
      OBVIOUS
    <3>1. o.key \in Nat /\ o.path \in Nat
      BY <1>1, PlanRow
    <3> QED BY <1>1, <3>1 DEF Before, NotAfter
  <2>2. \A a \in rows : NotAfter(a, r)
    BY DEF Follows, InOrder, NotAfter
  <2>3. \A a \in rows : a.n < r.n /\ ~ (r.n < a.n) /\ a.n # r.n
    OBVIOUS
  <2>4. ~ (r.n < r.n)
    OBVIOUS
  <2> QED BY <2>1, <2>2, <2>3, <2>4 DEF Follows, InOrder
<1>5. FirstKey(s, rows \cup {r})
  <2> SUFFICES ASSUME ~Idempotent(s, e.path), NEW i \in DOMAIN SortKeys(s, e.path)
               PROVE  e.key <= SortKeys(s, e.path)[i]
    BY DEF FirstKey, Follows
  <2> DEFINE o == [key |-> SortKeys(s, e.path)[i], path |-> e.path, nth |-> i]
  <2>1. o \in PlanView(s) /\ o.path = e.path /\ o.key = SortKeys(s, e.path)[i]
    BY <1>1, RowInPlan
  <2>2. o.key \in Nat
    BY <1>1, KeysType
  <2> HIDE DEF o
  <2>3. CASE o = e
    BY <1>1, <2>1, <2>3
  <2>4. CASE o \in left \ {e}
    BY <1>1, <2>1, <2>2, <2>4 DEF Before
  <2>5. CASE o \notin left
    BY <2>1, <2>5 DEF Follows, Covered, Covers
  <2> QED BY <2>3, <2>4, <2>5
<1>6. Covered(s, left \ {e}, rows \cup {r}, seen \cup {r})
  <2>1. ~Idempotent(s, e.path) => Covers(s, rows \cup {r}, e.path, r)
    BY DEF Covers
  <2>2. \A p : \A a \in seen : Covers(s, rows, p, a) => Covers(s, rows \cup {r}, p, a)
    BY DEF Covers
  <2>3. \A f \in PlanView(s) \ left : ~Idempotent(s, f.path) =>
          \E a \in seen : Covers(s, rows, f.path, a)
    BY DEF Follows, Covered
  <2> QED BY <2>1, <2>2, <2>3 DEF Covered
<1>7. Repeated(s, left \ {e}, rows \cup {r})
  BY <1>2, RepeatsGrow
<1>8. IsFiniteSet(rows \cup {r})
  BY <1>2, FS_AddElement
<1> QED BY <1>1, <1>2, <1>3, <1>4, <1>5, <1>6, <1>7, <1>8 DEF Follows

----------------------------------------------------------------------------
(* The steps                                                               *)

LEMMA NumberedStep ==
  ASSUME Shape, TrackingInv, Numbered, [Next]_vars
  PROVE  Numbered'
<1>1. ASSUME UNCHANGED <<seq, runs, run, db, tx, ended>>,
             \A o \in Deployers : pc'[o] # "idle" => pc[o] # "idle"
      PROVE  Numbered'
  BY <1>1 DEF Numbered
<1>2. CASE UNCHANGED vars
  BY <1>1, <1>2 DEF vars, local
<1>3. ASSUME NEW new, Edit(new) PROVE Numbered'
  BY <1>1, <1>3 DEF Edit, local
<1>4. ASSUME NEW d \in Deployers, Start(d) PROVE Numbered'
  <2>1. /\ runs' = runs + 1 /\ run' = [run EXCEPT ![d] = runs + 1]
        /\ ended' = [ended EXCEPT ![d] = "none"] /\ pc' = [pc EXCEPT ![d] = "scan"]
        /\ UNCHANGED <<seq, db, tx>> /\ pc[d] = "idle"
    BY <1>4 DEF Start
  <2>2. \A o \in Deployers : /\ run'[o] = IF o = d THEN runs + 1 ELSE run[o]
                             /\ ended'[o] = IF o = d THEN "none" ELSE ended[o]
                             /\ pc'[o] = IF o = d THEN "scan" ELSE pc[o]
    BY <2>1 DEF Numbered, Shape
  <2>3. tx[d].log = {}
    BY <2>1 DEF TrackingInv, Empty
  <2>4. runs' \in Nat /\ run' \in [Deployers -> 0..runs'] /\ ended' = [o \in Deployers |-> ended'[o]]
    BY <2>1 DEF Numbered
  <2>5. \A o \in Deployers : run[o] \in 0..runs /\ run[o] # runs + 1
    BY DEF Numbered
  <2>6. \A o, p \in Deployers : run'[o] = run'[p] /\ run'[o] # 0 => o = p
    BY <2>2, <2>5 DEF Numbered
  <2>7. \A o \in Deployers : pc'[o] # "idle" => run'[o] # 0 /\ ended'[o] = "none"
    BY <2>2 DEF Numbered
  <2>8. \A r \in db.log : r.run # runs + 1 /\ r.run \in 1..runs'
    BY <2>1 DEF Numbered
  <2>9. \A o \in Deployers : \A r \in tx[o].log : r.n \in Nat /\ r.n < seq /\ r.run = run'[o]
    BY <2>2, <2>3 DEF Numbered
  <2>10. \A o \in Deployers : \A r \in db.log : r.run = run'[o] => ended'[o] = "committed"
    BY <2>2, <2>8 DEF Numbered
  <2> QED BY <2>1, <2>4, <2>6, <2>7, <2>8, <2>9, <2>10 DEF Numbered
<1>5. ASSUME NEW d \in Deployers, NEW p \in Paths, ScanFile(d, p) PROVE Numbered'
  BY <1>1, <1>5 DEF ScanFile, Finish, Shape
<1>6. ASSUME NEW d \in Deployers, ValidateScan(d) \/ TryLock(d) PROVE Numbered'
  BY <1>1, <1>6 DEF ValidateScan, TryLock, Finish, Shape
<1>7. ASSUME NEW d \in Deployers, Begin(d) PROVE Numbered'
  <2>1. tx' = tx
    BY <1>7 DEF Begin, TrackingInv, Shape
  <2> QED BY <1>1, <1>7, <2>1 DEF Begin, Shape
<1>8. ASSUME NEW d \in Deployers, NEW e \in pending[d], Skip(d, e) PROVE Numbered'
  BY <1>1, <1>8 DEF Skip
<1>9. ASSUME NEW d \in Deployers, NEW e \in pending[d], Execute(d, e) PROVE Numbered'
  <2> DEFINE r == Row(d, snap[d], e)
  <2>1. /\ seq' = seq + 1 /\ UNCHANGED <<runs, run, db, ended, pc>>
        /\ tx' = [tx EXCEPT ![d] = Added(@, r)]
    BY <1>9 DEF Execute
  <2>2. r.n = seq /\ r.run = run[d]
    BY DEF Row
  <2> HIDE DEF r
  <2>3. \A o \in Deployers : tx'[o].log = IF o = d THEN tx[d].log \cup {r} ELSE tx[o].log
    BY <2>1 DEF Shape, Added
  <2>4. \A n \in Nat : n < seq => n < seq'
    BY <2>1 DEF Numbered
  <2>5. \A o \in Deployers : \A a \in tx'[o].log : a.n \in Nat /\ a.n < seq' /\ a.run = run[o]
    BY <2>1, <2>2, <2>3, <2>4 DEF Numbered
  <2> QED BY <2>1, <2>4, <2>5 DEF Numbered
<1>10. ASSUME NEW d \in Deployers, NEW how, NEW o, EndTx(d, how, o), UNCHANGED <<db, seq>>,
              pc[d] = "exec"
       PROVE  Numbered'
  <2>1. \A p \in Deployers : /\ tx'[p] = (IF p = d THEN Empty ELSE tx[p])
                             /\ ended'[p] = IF p = d THEN how ELSE ended[p]
                             /\ pc'[p] = IF p = d THEN "idle" ELSE pc[p]
    BY <1>10 DEF EndTx, Shape, Numbered
  <2>2. ended' = [p \in Deployers |-> ended'[p]] /\ UNCHANGED <<runs, run>>
    BY <1>10 DEF EndTx, Numbered
  <2>3. \A p \in Deployers : \A r \in tx'[p].log : r.n \in Nat /\ r.n < seq /\ r.run = run[p]
    BY <2>1 DEF Numbered, Empty
  <2>4. \A p \in Deployers : \A r \in db.log : r.run = run[p] => p # d
    BY <1>10 DEF Numbered
  <2> QED BY <1>10, <2>1, <2>2, <2>3, <2>4 DEF Numbered
<1>11. ASSUME NEW d \in Deployers, NEW e \in pending[d], ScriptFails(d, e) PROVE Numbered'
  BY <1>10, <1>11 DEF ScriptFails
<1>12. ASSUME NEW d \in Deployers, Abort(d) PROVE Numbered'
  BY <1>10, <1>12 DEF Abort
<1>13. ASSUME NEW d \in Deployers, Commit(d) PROVE Numbered'
  <2>1. pc[d] = "exec" /\ db'.log = db.log \cup tx[d].log /\ seq' = seq
        /\ UNCHANGED <<runs, run>> /\ ended' = [p \in Deployers |-> ended'[p]]
    BY <1>13 DEF Commit, Merge, EndTx, Numbered
  <2>2. \A p \in Deployers : /\ tx'[p] = (IF p = d THEN Empty ELSE tx[p])
                             /\ ended'[p] = IF p = d THEN "committed" ELSE ended[p]
                             /\ pc'[p] = IF p = d THEN "idle" ELSE pc[p]
    BY <1>13 DEF Commit, EndTx, Shape, Numbered
  <2>3. \A p \in Deployers : \A r \in tx'[p].log : r.n \in Nat /\ r.n < seq /\ r.run = run[p]
    BY <2>2 DEF Numbered, Empty
  <2>4. run[d] \in 1..runs
    BY <2>1 DEF Numbered
  <2>5. \A r \in db'.log : r.n \in Nat /\ r.n < seq /\ r.run \in 1..runs
    BY <2>1, <2>4 DEF Numbered
  <2>6. \A p \in Deployers : \A r \in db'.log : r.run = run[p] => ended'[p] = "committed"
    BY <2>1, <2>2, <2>4 DEF Numbered
  <2> QED BY <2>1, <2>2, <2>3, <2>5, <2>6 DEF Numbered
<1>14. ASSUME NEW d \in Deployers, GiveUp(d) PROVE Numbered'
  BY <1>1, <1>14 DEF GiveUp, Shape
<1> QED
  BY <1>2, <1>3, <1>4, <1>5, <1>6, <1>7, <1>8, <1>9, <1>11, <1>12, <1>13, <1>14
     DEF Next, Write, Move, Scaffold, Quiescent

LEMMA FilesStep ==
  ASSUME Files, [Next]_vars
  PROVE  Files'
<1>1. ASSUME UNCHANGED <<project, snap>>,
             pending' = pending \/ \E d \in Deployers : \E left : pending' = [pending EXCEPT ![d] = left]
      PROVE  Files'
  BY <1>1 DEF Files
<1>2. CASE UNCHANGED vars
  BY <1>1, <1>2 DEF vars, local
<1>3. ASSUME NEW new, Edit(new), new = [p \in Paths |-> new[p]],
             \A p \in Paths : new[p] = Absent \/ FileOK(new[p])
      PROVE  Files'
  BY <1>3 DEF Edit, local, Files
<1>4. ASSUME NEW p \in Paths, NEW f \in Drafts, Write(p, f) PROVE Files'
  <2>1. f = Absent \/ FileOK(f)
    BY FilesAssumption
  <2> DEFINE new == [project EXCEPT ![p] = f]
  <2>2. new = [q \in Paths |-> new[q]] /\ \A q \in Paths : new[q] = IF q = p THEN f ELSE project[q]
    BY DEF Files
  <2>3. Edit(new)
    BY <1>4 DEF Write
  <2>4. \A q \in Paths : new[q] = Absent \/ FileOK(new[q])
    BY <2>1, <2>2 DEF Files
  <2> HIDE DEF new
  <2> QED BY <1>3, <2>2, <2>3, <2>4
<1>5. ASSUME NEW p \in Paths, NEW q \in Paths, Move(p, q) PROVE Files'
  <2> DEFINE new == [project EXCEPT ![q] = project[p], ![p] = Absent]
  <2>1. /\ new = [o \in Paths |-> new[o]]
        /\ \A o \in Paths : new[o] = IF o = p THEN Absent ELSE IF o = q THEN project[p] ELSE project[o]
    BY DEF Files
  <2>2. Edit(new)
    BY <1>5 DEF Move
  <2>3. \A o \in Paths : new[o] = Absent \/ FileOK(new[o])
    BY <2>1 DEF Files
  <2> HIDE DEF new
  <2> QED BY <1>3, <2>1, <2>2, <2>3
<1>6. ASSUME NEW p \in Paths, NEW idempotent \in BOOLEAN, Scaffold(p, idempotent) PROVE Files'
  <2> DEFINE m == Meta(ScaffoldId(p), idempotent, <<GeneratedKey[p]>>)
             new == [project EXCEPT ![p].meta = m]
  <2>1. FileOK(project[p])
    BY <1>6 DEF Scaffold, Files
  <2>2. [project[p] EXCEPT !.meta = m] = File(m, project[p].content)
    <3> HIDE DEF m
    <3> QED BY <2>1 DEF FileOK, File
  <2>3. GeneratedKey[p] \in Nat
    BY GeneratedKeysAreRanks
  <2>4. FileOK(File(m, project[p].content))
    <3>1. <<GeneratedKey[p]>> \in Seq(Nat)
      BY <2>3
    <3>2. m.keys = <<GeneratedKey[p]>> /\ m.idempotent = idempotent
      BY DEF Meta
    <3> HIDE DEF m
    <3> QED BY <3>1, <3>2 DEF FileOK, File
  <2>5. new = [o \in Paths |-> new[o]]
        /\ \A o \in Paths : new[o] = IF o = p THEN [project[p] EXCEPT !.meta = m] ELSE project[o]
    <3> HIDE DEF m
    <3> QED BY DEF Files
  <2>6. Edit(new)
    BY <1>6 DEF Scaffold
  <2> HIDE DEF m, new
  <2>7. \A o \in Paths : new[o] = Absent \/ FileOK(new[o])
    BY <2>2, <2>4, <2>5 DEF Files
  <2> QED BY <1>3, <2>5, <2>6, <2>7
<1>7. ASSUME NEW d \in Deployers, Start(d) PROVE Files'
  <2>1. SnapOK(Nothing)
    BY DEF SnapOK, Nothing
  <2> QED BY <1>7, <2>1 DEF Start, Files
<1>8. ASSUME NEW d \in Deployers, NEW p \in Paths, ScanFile(d, p) PROVE Files'
  <2>1. CASE snap' = snap
    BY <1>1, <1>8, <2>1 DEF ScanFile
  <2>2. CASE project[p] # Absent /\ snap' = [snap EXCEPT ![d] = With(@, p, Scanned(p))]
    <3>1. FileOK(project[p])
      BY <2>2 DEF Files
    <3>2. [project[p] EXCEPT !.meta = NoMeta] = File(NoMeta, project[p].content)
      BY <3>1 DEF FileOK, File
    <3>3. FileOK(File(NoMeta, project[p].content))
      BY DEF FileOK, File, NoMeta
    <3>4. FileOK(Scanned(p))
      BY <3>1, <3>2, <3>3 DEF Scanned
    <3> DEFINE f == Scanned(p)
    <3> HIDE DEF f
    <3>5. SnapOK(With(snap[d], p, f))
      BY <3>4 DEF SnapOK, With, Files, f
    <3>6. snap' = [snap EXCEPT ![d] = With(snap[d], p, f)]
      BY <2>2 DEF f, Files
    <3>7. UNCHANGED <<project, pending>>
      BY <1>8 DEF ScanFile
    <3> QED BY <3>5, <3>6, <3>7 DEF Files
  <2> QED BY <1>8, <2>1, <2>2 DEF ScanFile
<1>9. ASSUME NEW d \in Deployers, ValidateScan(d) \/ TryLock(d) \/ Begin(d) PROVE Files'
  BY <1>1, <1>9 DEF ValidateScan, TryLock, Begin, Finish
<1>10. ASSUME NEW d \in Deployers, NEW e \in pending[d], Skip(d, e) \/ Execute(d, e) PROVE Files'
  BY <1>1, <1>10 DEF Skip, Execute
<1>11. ASSUME NEW d \in Deployers, NEW how, NEW o, EndTx(d, how, o) PROVE Files'
  BY <1>1, <1>11 DEF EndTx
<1>12. ASSUME NEW d \in Deployers, GiveUp(d) PROVE Files'
  BY <1>1, <1>12 DEF GiveUp
<1> QED
  BY <1>2, <1>4, <1>5, <1>6, <1>7, <1>8, <1>9, <1>10, <1>11, <1>12
     DEF Next, ScriptFails, Abort, Commit, Quiescent

(* A step of another deployer, which may commit rows of its own.           *)
LEMMA OthersFollow ==
  ASSUME NEW o \in Deployers, PlanFor(o),
         UNCHANGED <<pc[o], snap[o], pending[o], run[o], tx[o], ended[o]>>,
         NEW more, db'.log = db.log \cup more, \A r \in more : r.run # run[o]
  PROVE  PlanFor(o)'
<1>1. Rows(o)' = Rows(o)
  BY DEF Rows
<1>2. ASSUME Follows(snap[o], pending[o], Rows(o), db.log \cup tx[o].log)
      PROVE  Follows(snap[o], pending[o], Rows(o), db'.log \cup tx[o].log)
  BY <1>2, SeenGrows
<1>3. ASSUME Follows(snap[o], pending[o], Rows(o), db'.log \cup tx[o].log)
      PROVE  Follows(snap[o], pending[o], Rows(o), db.log \cup tx[o].log)'
  BY <1>1, <1>3
<1> QED BY <1>2, <1>3 DEF PlanFor

(* A step of d's that leaves the database alone leaves the others alone.   *)
LEMMA OwnStep ==
  ASSUME PlanInv, Shape, Files, Numbered, NEW d \in Deployers, UNCHANGED db,
         NEW l, pc' = [pc EXCEPT ![d] = l] \/ pc' = pc,
         NEW s, snap' = [snap EXCEPT ![d] = s] \/ snap' = snap,
         NEW left, pending' = [pending EXCEPT ![d] = left] \/ pending' = pending,
         NEW n, run' = [run EXCEPT ![d] = n] \/ run' = run,
         NEW t, tx' = [tx EXCEPT ![d] = t] \/ tx' = tx,
         NEW how, ended' = [ended EXCEPT ![d] = how] \/ ended' = ended,
         PlanFor(d)'
  PROVE  PlanInv'
<1> SUFFICES ASSUME NEW o \in Deployers, o # d PROVE PlanFor(o)'
  BY DEF PlanInv
<1>1. UNCHANGED <<pc[o], snap[o], pending[o], run[o], tx[o], ended[o]>>
  BY DEF Shape, Files, Numbered
<1> DEFINE none == {r \in db.log : FALSE}
<1>2. db'.log = db.log \cup none /\ \A r \in none : r.run # run[o]
  OBVIOUS
<1> HIDE DEF none
<1> QED BY <1>1, <1>2, OthersFollow DEF PlanInv

LEMMA PlanStep ==
  ASSUME Shape, TrackingInv, Files, Numbered, PlanInv, [Next]_vars
  PROVE  PlanInv'
<1>1. CASE UNCHANGED <<pc, run, snap, pending, tx, ended, db>>
  <2>1. \A d \in Deployers : Rows(d)' = Rows(d)
    BY <1>1 DEF Rows
  <2> QED BY <1>1, <2>1 DEF PlanInv, PlanFor
<1>2. ASSUME NEW new, Edit(new) PROVE PlanInv'
  BY <1>1, <1>2 DEF Edit, local
<1>3. ASSUME NEW d \in Deployers, Start(d) PROVE PlanInv'
  <2>1. pc'[d] = "scan" /\ ended'[d] = "none"
    BY <1>3 DEF Start, Shape, Numbered
  <2> QED BY <1>3, <2>1, OwnStep DEF Start, PlanFor
<1>4. ASSUME NEW d \in Deployers, NEW p \in Paths, ScanFile(d, p) PROVE PlanInv'
  <2>1. pc'[d] \in {"idle", "scan"} /\ ended'[d] # "committed"
    BY <1>4 DEF ScanFile, Finish, Shape, Numbered
  <2> QED BY <1>4, <2>1, OwnStep DEF ScanFile, Finish, PlanFor
<1>5. ASSUME NEW d \in Deployers, ValidateScan(d) PROVE PlanInv'
  <2>1. ended'[d] # "committed" /\ snap' = snap
    BY <1>5 DEF ValidateScan, Numbered
  <2>2. pc'[d] = "idle" \/ (pc'[d] = "lock" /\ ~DuplicateIDs(snap[d]))
    BY <1>5 DEF ValidateScan, Finish, Shape
  <2> QED BY <1>5, <2>1, <2>2, OwnStep DEF ValidateScan, Finish, PlanFor
<1>6. ASSUME NEW d \in Deployers, TryLock(d) PROVE PlanInv'
  <2>1. ended'[d] # "committed" /\ UNCHANGED <<snap, tx, run, db, ended>> /\ pc[d] = "lock"
    BY <1>6 DEF TryLock, Numbered
  <2>2. CASE \E o \in Deployers : Locked(o)
    <3>1. pc'[d] = "idle"
      BY <1>6, <2>2 DEF TryLock, Finish, Shape
    <3> QED BY <1>6, <2>1, <2>2, <3>1, OwnStep DEF TryLock, Finish, PlanFor
  <2>3. CASE ~ \E o \in Deployers : Locked(o)
    <3>1. pc'[d] = "begin" /\ pending'[d] = PlanView(snap[d])
      BY <1>6, <2>3 DEF TryLock, Shape, Files
    <3>2. Rows(d)' = {}
      BY <2>1 DEF Rows, Numbered, TrackingInv, Empty
    <3>3. Follows(snap[d], PlanView(snap[d]), {}, db'.log \cup tx'[d].log)
      BY <2>1, StartFollows DEF PlanInv, PlanFor, Files
    <3>4. Follows(snap[d], pending[d], Rows(d), db.log \cup tx[d].log)'
      BY <2>1, <3>1, <3>2, <3>3
    <3> QED BY <1>6, <2>1, <2>3, <3>1, <3>4, OwnStep DEF TryLock, PlanFor
  <2> QED BY <2>2, <2>3
<1>7. ASSUME NEW d \in Deployers, Begin(d) PROVE PlanInv'
  <2>1. tx' = tx /\ pc[d] = "begin" /\ pc'[d] = "exec"
        /\ UNCHANGED <<run, snap, pending, ended, db>>
    BY <1>7 DEF Begin, TrackingInv, Shape
  <2>2. Rows(d)' = Rows(d)
    BY <2>1 DEF Rows
  <2>3. PlanFor(d)'
    BY <2>1, <2>2 DEF PlanInv, PlanFor
  <2> QED BY <1>7, <2>1, <2>3, OwnStep DEF Begin
<1>8. ASSUME NEW d \in Deployers, NEW e \in pending[d], Skip(d, e) PROVE PlanInv'
  <2>1. /\ UNCHANGED <<pc, run, snap, tx, ended, db>> /\ pc[d] = "exec" /\ ended[d] # "committed"
        /\ pending'[d] = pending[d] \ {e}
    BY <1>8 DEF Skip, Files, Numbered
  <2>2. PICK r \in db.log \cup tx[d].log : r.obj = ObjectId(snap[d], e.path) /\ ~r.idempotent
    BY <1>8 DEF Skip, Skips, AlreadyRan
  <2>3. ~Idempotent(snap[d], e.path)
    BY <1>8 DEF Skip, Skips
  <2>4. Follows(snap[d], pending[d], Rows(d), db.log \cup tx[d].log) /\ SnapOK(snap[d])
    BY <2>1 DEF PlanInv, PlanFor, Files
  <2>5. Follows(snap[d], pending[d] \ {e}, Rows(d), db.log \cup tx[d].log)
    BY <2>2, <2>3, <2>4, SkipFollows
  <2>6. Rows(d)' = Rows(d)
    BY <2>1 DEF Rows
  <2>7. Follows(snap[d], pending[d], Rows(d), db.log \cup tx[d].log)'
    BY <2>1, <2>5, <2>6
  <2>8. PlanFor(d)'
    BY <2>1, <2>7 DEF PlanFor
  <2> QED BY <1>8, <2>1, <2>8, OwnStep DEF Skip
<1>9. ASSUME NEW d \in Deployers, NEW e \in pending[d], Execute(d, e) PROVE PlanInv'
  <2> DEFINE r == Row(d, snap[d], e)
             seen == db.log \cup tx[d].log
  <2>1. /\ UNCHANGED <<pc, run, snap, ended, db>> /\ pc[d] = "exec" /\ ended[d] # "committed"
        /\ pending'[d] = pending[d] \ {e} /\ tx' = [tx EXCEPT ![d] = Added(@, r)]
        /\ \A o \in pending[d] \ {e} : Before(e, o)
    BY <1>9 DEF Execute, IsNext, Files, Numbered
  <2>2. ~ (~Idempotent(snap[d], e.path)
           /\ \E a \in seen : a.obj = ObjectId(snap[d], e.path) /\ ~a.idempotent)
    BY <1>9 DEF Execute, Skips, AlreadyRan
  <2>3. /\ r.n = seq /\ r.path = e.path /\ r.key = e.key /\ r.obj = ObjectId(snap[d], e.path)
        /\ r.content = snap[d][e.path].content /\ r.idempotent = Idempotent(snap[d], e.path)
        /\ r.run = run[d]
    BY DEF Row
  <2>4. Follows(snap[d], pending[d], Rows(d), seen) /\ SnapOK(snap[d])
    BY <2>1 DEF PlanInv, PlanFor, Files
  <2> HIDE DEF r
  <2>5. r.n \in Nat /\ r \notin seen /\ \A a \in Rows(d) : a.n \in Nat /\ a.n < r.n
    BY <2>3 DEF Numbered, Rows
  <2>6. tx'[d].log = tx[d].log \cup {r}
    BY <2>1 DEF Shape, Added
  <2>7. Rows(d)' = Rows(d) \cup {r} /\ db'.log \cup tx'[d].log = seen \cup {r}
    BY <2>1, <2>3, <2>6 DEF Rows
  <2> HIDE DEF seen
  <2>8. Follows(snap[d], pending[d] \ {e}, Rows(d) \cup {r}, seen \cup {r})
    BY <2>1, <2>2, <2>3, <2>4, <2>5, RunFollows
  <2>9. Follows(snap[d], pending[d], Rows(d), db.log \cup tx[d].log)'
    BY <2>1, <2>7, <2>8
  <2>10. PlanFor(d)'
    BY <2>1, <2>9 DEF PlanFor
  <2> QED BY <1>9, <2>1, <2>10, OwnStep DEF Execute
<1>10. ASSUME NEW d \in Deployers, NEW o, EndTx(d, "rolled back", o), UNCHANGED db
       PROVE  PlanInv'
  <2>1. pc'[d] = "idle" /\ ended'[d] = "rolled back"
    BY <1>10 DEF EndTx, Shape, Numbered
  <2> QED BY <1>10, <2>1, OwnStep DEF EndTx, PlanFor
<1>11. ASSUME NEW d \in Deployers, NEW e \in pending[d], ScriptFails(d, e) PROVE PlanInv'
  BY <1>10, <1>11 DEF ScriptFails
<1>12. ASSUME NEW d \in Deployers, Abort(d) PROVE PlanInv'
  BY <1>10, <1>12 DEF Abort
<1>13. ASSUME NEW d \in Deployers, Commit(d) PROVE PlanInv'
  <2>1. /\ pc[d] = "exec" /\ pending[d] = {} /\ UNCHANGED <<run, snap>>
        /\ db'.log = db.log \cup tx[d].log
        /\ pc' = [pc EXCEPT ![d] = "idle"] /\ tx' = [tx EXCEPT ![d] = Empty]
        /\ pending' = [pending EXCEPT ![d] = {}] /\ ended' = [ended EXCEPT ![d] = "committed"]
    BY <1>13 DEF Commit, EndTx, Merge
  <2>2. \A r \in tx[d].log : r.run = run[d]
    BY DEF Numbered
  <2>3. tx'[d].log = {} /\ pending'[d] = {} /\ pc'[d] = "idle"
    BY <2>1 DEF Shape, Files, Empty
  <2>4. Rows(d)' = Rows(d) /\ db'.log \cup tx'[d].log = db.log \cup tx[d].log
    BY <2>1, <2>3 DEF Rows
  <2>5. Follows(snap[d], pending[d], Rows(d), db.log \cup tx[d].log)
    BY <2>1 DEF PlanInv, PlanFor
  <2>6. Follows(snap[d], pending[d], Rows(d), db.log \cup tx[d].log)'
    BY <2>1, <2>3, <2>4, <2>5
  <2>7. run[d] # 0
    BY <2>1 DEF Numbered
  <2>8. PlanFor(d)'
    BY <2>1, <2>3, <2>6, <2>7 DEF PlanFor
  <2>9. ASSUME NEW o \in Deployers, o # d PROVE PlanFor(o)'
    <3>1. run[o] # run[d]
      BY <2>7, <2>9 DEF Numbered
    <3>2. UNCHANGED <<pc[o], snap[o], pending[o], run[o], tx[o], ended[o]>>
      BY <2>1, <2>9 DEF Shape, Files, Numbered
    <3> QED BY <2>1, <2>2, <3>1, <3>2, OthersFollow DEF PlanInv
  <2> QED BY <2>8, <2>9 DEF PlanInv
<1>14. ASSUME NEW d \in Deployers, GiveUp(d) PROVE PlanInv'
  <2>1. CASE pc[d] = "exec"
    BY <1>1, <1>14, <2>1 DEF GiveUp
  <2>2. CASE pc[d] # "exec"
    <3>1. pc'[d] = "idle" /\ ended'[d] # "committed"
      BY <1>14, <2>2 DEF GiveUp, Shape, Numbered
    <3> QED BY <1>14, <2>2, <3>1, OwnStep DEF GiveUp, PlanFor
  <2> QED BY <2>1, <2>2
<1>15. CASE UNCHANGED vars
  BY <1>1, <1>15 DEF vars, local
<1> QED
  BY <1>2, <1>3, <1>4, <1>5, <1>6, <1>7, <1>8, <1>9, <1>11, <1>12, <1>13, <1>14, <1>15
     DEF Next, Write, Move, Scaffold, Quiescent

LEMMA PlanInvHolds == Spec => [](TrackingInv /\ Numbered /\ Files /\ PlanInv)
<1>1. ASSUME Init PROVE Numbered /\ Files /\ PlanInv
  <2>1. SnapOK(Nothing)
    BY DEF SnapOK, Nothing
  <2>2. Files
    BY <1>1, <2>1, FilesAssumption DEF Init, Files
  <2>3. Numbered
    BY <1>1 DEF Init, Numbered, Empty
  <2>4. PlanInv
    BY <1>1 DEF Init, PlanInv, PlanFor
  <2> QED BY <2>2, <2>3, <2>4
<1> QED
  BY <1>1, NumberedStep, FilesStep, PlanStep, ShapeHolds, TrackingInvHolds, PTL DEF Spec

----------------------------------------------------------------------------
(* What a committed deployment has run                                     *)

(* A committed deployment has an empty plan, and its rows are those in the *)
(* database with its number.                                               *)
LEMMA Committed ==
  ASSUME TrackingInv, Shape, Numbered, Files, PlanInv,
         NEW d \in Deployers, ended[d] = "committed"
  PROVE  /\ SnapOK(snap[d])
         /\ Rows(d) = {r \in db.effects : r.run = run[d]}
         /\ Follows(snap[d], {}, Rows(d), db.effects)
<1>1. tx[d].log = {} /\ db.log = db.effects
  BY DEF Numbered, TrackingInv, Empty, Agrees
<1> QED BY <1>1 DEF PlanInv, PlanFor, Rows, Files

(* Nothing is skipped for another file's sake: a one-time file of a        *)
(* committed deployment has run, in it or before, under its identity.      *)
LEMMA OneTimeHolds ==
  ASSUME TrackingInv, Shape, Numbered, Files, PlanInv
  PROVE  OneTimeRuns
<1> SUFFICES ASSUME NEW d \in Deployers, ended[d] = "committed",
                    NEW p \in DOMAIN snap[d] \cap SqlPaths, ~Idempotent(snap[d], p)
             PROVE  \E r \in db.effects : /\ r.obj = ObjectId(snap[d], p) /\ ~r.idempotent
                                          /\ r.run # run[d] \/ r.path = p
  BY DEF OneTimeRuns
<1>1. 1 \in DOMAIN SortKeys(snap[d], p)
  BY Committed, KeysType
<1> DEFINE e == [key |-> SortKeys(snap[d], p)[1], path |-> p, nth |-> 1]
<1>2. e \in PlanView(snap[d]) /\ e.path = p
  BY <1>1, RowInPlan
<1> HIDE DEF e
<1>3. PICK r \in db.effects : Covers(snap[d], Rows(d), p, r)
  BY <1>2, Committed DEF Follows, Covered
<1>4. r \in Rows(d) <=> r.run = run[d]
  BY Committed
<1> QED BY <1>3, <1>4 DEF Covers

(* Each key of an idempotent file has been run as often as the file has it,*)
(* and all that was run is in the order of the plan.                       *)
LEMMA IdempotentHolds ==
  ASSUME TrackingInv, Shape, Numbered, Files, PlanInv
  PROVE  IdempotentRuns
<1> SUFFICES ASSUME NEW d \in Deployers, ended[d] = "committed"
             PROVE  LET mine == {r \in db.effects : r.run = run[d]}
                        s == snap[d]
                    IN  /\ \A p \in DOMAIN s \cap SqlPaths : Idempotent(s, p) =>
                             \A k \in {SortKeys(s, p)[i] : i \in DOMAIN SortKeys(s, p)} :
                               Cardinality({r \in mine : r.path = p /\ r.key = k
                                                         /\ r.content = s[p].content})
                                 = Cardinality({i \in DOMAIN SortKeys(s, p) : SortKeys(s, p)[i] = k})
                        /\ \A a, b \in mine : a.n < b.n => NotAfter(a, b)
  BY DEF IdempotentRuns, NotAfter
<1> DEFINE mine == {r \in db.effects : r.run = run[d]}
           s == snap[d]
<1>1. mine = Rows(d) /\ Follows(s, {}, Rows(d), db.effects)
  BY Committed
<1>2. \A a, b \in mine : a.n < b.n => NotAfter(a, b)
  BY <1>1 DEF Follows, InOrder
<1>3. ASSUME NEW p \in DOMAIN s \cap SqlPaths, Idempotent(s, p),
             NEW i \in DOMAIN SortKeys(s, p)
      PROVE  Cardinality({r \in mine : r.path = p /\ r.key = SortKeys(s, p)[i]
                                       /\ r.content = s[p].content})
               = Cardinality({j \in DOMAIN SortKeys(s, p) : SortKeys(s, p)[j] = SortKeys(s, p)[i]})
  <2> DEFINE k == SortKeys(s, p)[i]
  <2>1. Cardinality(RanAt(Rows(d), p, k)) = Cardinality(DoneAt(s, {}, p, k))
    BY <1>1, <1>3 DEF Follows, Repeated
  <2>2. \A r \in Rows(d) : r.path = p => r.content = s[p].content
    BY <1>1 DEF Follows, FromPlan
  <2> HIDE DEF k
  <2>3. {r \in mine : r.path = p /\ r.key = k /\ r.content = s[p].content} = RanAt(Rows(d), p, k)
    BY <1>1, <2>2 DEF RanAt
  <2>4. {j \in DOMAIN SortKeys(s, p) : SortKeys(s, p)[j] = k} = DoneAt(s, {}, p, k)
    BY DEF DoneAt
  <2>5. Cardinality({r \in mine : r.path = p /\ r.key = k /\ r.content = s[p].content})
          = Cardinality({j \in DOMAIN SortKeys(s, p) : SortKeys(s, p)[j] = k})
    BY <2>1, <2>3, <2>4
  <2> QED BY <2>5 DEF k
<1> QED BY <1>2, <1>3

(* A committed deployment did what its scan said: every one-time file ran, *)
(* now or before, and every idempotent one once for each of its keys, in   *)
(* the order of the plan.                                                  *)
THEOREM RanAsPlanned == Spec => []RunsAsPlanned
BY OneTimeHolds, IdempotentHolds, PlanInvHolds, ShapeHolds, PTL DEF RunsAsPlanned

(* MinSortKey is the least of a file's keys.                               *)
LEMMA LeastKey ==
  ASSUME NEW s, SnapOK(s), NEW p \in DOMAIN s
  PROVE  /\ MinSortKey(s, p) \in Nat
         /\ \E i \in DOMAIN SortKeys(s, p) : SortKeys(s, p)[i] = MinSortKey(s, p)
         /\ \A i \in DOMAIN SortKeys(s, p) : MinSortKey(s, p) <= SortKeys(s, p)[i]
<1> DEFINE K == {SortKeys(s, p)[i] : i \in DOMAIN SortKeys(s, p)}
<1>1. 1 \in DOMAIN SortKeys(s, p) /\ K \subseteq Nat
  BY KeysType
<1>2. K # {}
  BY <1>1
<1> HIDE DEF K
<1>3. PICK k \in K : \A j \in K : ~ (<<j, k>> \in OpToRel(<, Nat))
  BY <1>1, <1>2, NatLessThanWellFounded, WFMin
<1>4. \A j \in K : ~ (j < k)
  BY <1>1, <1>3 DEF OpToRel
<1>5. k \in K /\ \A j \in K : k <= j
  BY <1>1, <1>4
<1>6. \E m \in K : \A i \in DOMAIN SortKeys(s, p) : m <= SortKeys(s, p)[i]
  BY <1>5 DEF K
<1>7. MinSortKey(s, p) \in K /\ \A i \in DOMAIN SortKeys(s, p) : MinSortKey(s, p) <= SortKeys(s, p)[i]
  BY <1>6 DEF MinSortKey, K
<1> QED BY <1>1, <1>7 DEF K

(* A file a committed deployment ran at all was run at its least key.      *)
LEMMA RanAtLeastKey ==
  ASSUME NEW s, SnapOK(s), NEW rows, NEW seen, Follows(s, {}, rows, seen),
         NEW r \in rows
  PROVE  \E a \in rows : a.path = r.path /\ a.key = MinSortKey(s, r.path)
<1> DEFINE p == r.path
<1>1. p \in DOMAIN s \cap SqlPaths /\ r.idempotent = Idempotent(s, p)
      /\ \E i \in DOMAIN SortKeys(s, p) : r.key = SortKeys(s, p)[i]
  BY DEF Follows, FromPlan
<1>2. PICK i \in DOMAIN SortKeys(s, p) : SortKeys(s, p)[i] = MinSortKey(s, p)
  BY <1>1, LeastKey
<1>3. CASE Idempotent(s, p)
  <2> DEFINE k == SortKeys(s, p)[i]
  <2>1. Cardinality(RanAt(rows, p, k)) = Cardinality(DoneAt(s, {}, p, k))
    BY <1>1, <1>3 DEF Follows, Repeated
  <2>2. i \in DoneAt(s, {}, p, k)
    BY DEF DoneAt
  <2>3. IsFiniteSet(DoneAt(s, {}, p, k)) /\ IsFiniteSet(RanAt(rows, p, k))
    <3>1. IsFiniteSet(DOMAIN SortKeys(s, p)) /\ IsFiniteSet(rows)
      BY <1>1, KeysType DEF Follows
    <3>2. DoneAt(s, {}, p, k) \subseteq DOMAIN SortKeys(s, p) /\ RanAt(rows, p, k) \subseteq rows
      BY DEF DoneAt, RanAt
    <3> HIDE DEF k, p
    <3> QED BY <3>1, <3>2, FS_Subset
  <2> HIDE DEF k, p
  <2>4. RanAt(rows, p, k) # {}
    BY <2>1, <2>2, <2>3, FS_EmptySet
  <2> QED BY <1>2, <2>4 DEF RanAt, k, p
<1>4. CASE ~Idempotent(s, p)
  <2>1. \A j \in DOMAIN SortKeys(s, p) : r.key <= SortKeys(s, p)[j]
    BY <1>1, <1>4 DEF Follows, FirstKey
  <2>2. r.key \in Nat /\ MinSortKey(s, p) \in Nat /\ MinSortKey(s, p) <= r.key
    BY <1>1, KeysType, LeastKey
  <2>3. r.key = MinSortKey(s, p)
    BY <1>2, <2>1, <2>2
  <2> QED BY <2>3
<1> QED BY <1>3, <1>4

(* The preview, which knows one key and one path of each file, puts two    *)
(* files a deployment ran in the order in which they first ran.            *)
THEOREM PreviewHolds == Spec => []PreviewIsAccurate
<1>1. ASSUME TrackingInv, Shape, Numbered, Files, PlanInv PROVE PreviewIsAccurate
  <2> SUFFICES ASSUME NEW d \in Deployers, ended[d] = "committed",
                      NEW p \in DOMAIN snap[d] \cap SqlPaths,
                      NEW q \in DOMAIN snap[d] \cap SqlPaths,
                      p # q, PlanProjectBefore(snap[d], p, q),
                      NEW b \in Rows(d), b.path = q, NEW c \in Rows(d), c.path = p
               PROVE  \E a \in Rows(d) : a.path = p /\ a.n < b.n
    BY <1>1, Committed DEF PreviewIsAccurate
  <2> DEFINE s == snap[d]
  <2>1. SnapOK(s) /\ Follows(s, {}, Rows(d), db.effects)
    BY <1>1, Committed
  <2>2. PICK a \in Rows(d) : a.path = p /\ a.key = MinSortKey(s, p)
    BY <2>1, RanAtLeastKey
  <2>3. a.n \in Nat /\ b.n \in Nat
    BY <1>1 DEF Rows, Numbered
  <2>4. a.n # b.n
    BY <2>1, <2>2 DEF Follows, InOrder
  <2>5. p \in Nat /\ q \in Nat
    BY <2>1, KeysType
  <2>6. MinSortKey(s, p) \in Nat /\ MinSortKey(s, q) \in Nat
        /\ b.key \in Nat /\ MinSortKey(s, q) <= b.key
    <3>1. \E i \in DOMAIN SortKeys(s, q) : b.key = SortKeys(s, q)[i]
      BY <2>1 DEF Follows, FromPlan
    <3> QED BY <2>1, <3>1, LeastKey, KeysType
  <2>7. ~ NotAfter(b, a)
    BY <2>2, <2>5, <2>6 DEF NotAfter, PlanProjectBefore
  <2>8. ~ (b.n < a.n)
    BY <2>1, <2>7 DEF Follows, InOrder
  <2> QED BY <2>2, <2>3, <2>4, <2>8
<1> QED BY <1>1, PlanInvHolds, ShapeHolds, PTL

----------------------------------------------------------------------------
(* Types                                                                   *)

Counts == edits \in 0..MaxEdits /\ runs \in 0..MaxRuns

Typed(rows) ==
  \A r \in rows : r.key \in Nat /\ r.path \in SqlPaths /\ r.idempotent \in BOOLEAN

Places ==
  /\ outcome = [d \in Deployers |-> outcome[d]]
  /\ \A d \in Deployers :
       /\ Typed(tx[d].log)
       /\ pending[d] = {} \/ pc[d] \in {"begin", "exec"}
       /\ d \in gone => pc[d] = "exec" /\ outcome[d] = "Interrupted"

LEMMA CountStep == Counts /\ [Next]_vars => Counts'
<1> SUFFICES ASSUME Counts, [Next]_vars PROVE Counts'
  OBVIOUS
<1>1. CASE UNCHANGED <<edits, runs>>
  BY <1>1 DEF Counts
<1>2. ASSUME NEW new, Edit(new) PROVE Counts'
  BY <1>2, BoundsAssumption DEF Edit, Counts
<1>3. ASSUME NEW d \in Deployers, Start(d) PROVE Counts'
  BY <1>3, BoundsAssumption DEF Start, Counts
<1> QED
  BY <1>1, <1>2, <1>3 DEF Next, Write, Move, Scaffold, ScanFile, ValidateScan, TryLock,
     Begin, Skip, Execute, ScriptFails, Abort, Commit, EndTx, GiveUp, Quiescent, vars, local

LEMMA PlacesStep ==
  ASSUME Shape, TrackingInv, Numbered, Files, PlanInv, Places, Typed(db.log), [Next]_vars
  PROVE  Places' /\ Typed(db.log)'
<1>1. ASSUME NEW d \in Deployers, UNCHANGED db,
             NEW l, pc' = [pc EXCEPT ![d] = l],
             NEW left, pending' = [pending EXCEPT ![d] = left],
             NEW t, tx' = [tx EXCEPT ![d] = t],
             NEW o, outcome' = [outcome EXCEPT ![d] = o],
             \A p \in Deployers \ {d} : p \in gone' => p \in gone,
             Typed(t.log), left = {} \/ l \in {"begin", "exec"},
             d \in gone' => l = "exec" /\ o = "Interrupted"
      PROVE  Places' /\ Typed(db.log)'
  <2>1. \A p \in Deployers : /\ pc'[p] = (IF p = d THEN l ELSE pc[p])
                             /\ pending'[p] = (IF p = d THEN left ELSE pending[p])
                             /\ tx'[p] = (IF p = d THEN t ELSE tx[p])
                             /\ outcome'[p] = (IF p = d THEN o ELSE outcome[p])
    BY <1>1 DEF Shape, Files, Places
  <2>2. outcome' = [p \in Deployers |-> outcome'[p]]
    BY <1>1 DEF Places
  <2>3. \A p \in Deployers : Typed(tx'[p].log)
    BY <1>1, <2>1 DEF Places
  <2> QED BY <1>1, <2>1, <2>2, <2>3 DEF Places, Typed
<1>2. CASE UNCHANGED <<pc, pending, tx, outcome, gone, db>>
  BY <1>2 DEF Places, Typed
<1>3. ASSUME NEW d \in Deployers
      PROVE  /\ pc = [pc EXCEPT ![d] = pc[d]] /\ pending = [pending EXCEPT ![d] = pending[d]]
             /\ tx = [tx EXCEPT ![d] = tx[d]] /\ outcome = [outcome EXCEPT ![d] = outcome[d]]
             /\ Typed(tx[d].log)
  BY DEF Shape, Files, Places
<1>4. ASSUME NEW d \in Deployers, pc[d] # "exec", UNCHANGED <<tx, gone, db>>,
              NEW l, pc' = [pc EXCEPT ![d] = l],
              NEW left, pending' = [pending EXCEPT ![d] = left] \/ pending' = pending,
              pending' = pending \/ l = "begin", pending[d] = {} \/ l = "exec",
              NEW o, outcome' = [outcome EXCEPT ![d] = o] \/ outcome' = outcome
       PROVE  Places' /\ Typed(db.log)'
  <2>1. d \notin gone
    BY <1>4 DEF Places
  <2>2. \A p \in Deployers : /\ pc'[p] = (IF p = d THEN l ELSE pc[p])
                             /\ p # d => pending'[p] = pending[p] /\ outcome'[p] = outcome[p]
    BY <1>4 DEF Shape, Files, Places
  <2>3. pending'[d] = {} \/ l \in {"begin", "exec"}
    BY <1>4
  <2>4. outcome' = [p \in Deployers |-> outcome'[p]]
    BY <1>4 DEF Places
  <2> QED BY <1>4, <2>1, <2>2, <2>3, <2>4 DEF Places, Typed
<1>5. ASSUME NEW new, Edit(new) PROVE Places' /\ Typed(db.log)'
  BY <1>2, <1>5 DEF Edit, local
<1>6. ASSUME NEW d \in Deployers, Start(d) PROVE Places' /\ Typed(db.log)'
  <2>1. pending[d] = {} /\ d \notin gone
    BY <1>6 DEF Start, Places
  <2> QED BY <1>1, <1>3, <1>6, <2>1 DEF Start
<1>7. ASSUME NEW d \in Deployers, NEW p \in Paths, ScanFile(d, p) PROVE Places' /\ Typed(db.log)'
  <2>1. pending[d] = {} /\ d \notin gone
    BY <1>7 DEF ScanFile, Places
  <2>2. CASE UNCHANGED <<pc, outcome>>
    BY <1>2, <1>7, <2>2 DEF ScanFile
  <2>3. CASE Finish(d, "Rejected")
    BY <1>7, <1>4, <2>1, <2>3 DEF ScanFile, Finish
  <2> QED BY <1>7, <2>2, <2>3 DEF ScanFile
<1>8. ASSUME NEW d \in Deployers, ValidateScan(d) PROVE Places' /\ Typed(db.log)'
  <2>1. pending[d] = {} /\ d \notin gone
    BY <1>8 DEF ValidateScan, Places
  <2> QED BY <1>8, <1>4, <2>1 DEF ValidateScan, Finish
<1>9. ASSUME NEW d \in Deployers, TryLock(d) PROVE Places' /\ Typed(db.log)'
  <2>1. pending[d] = {} /\ d \notin gone
    BY <1>9 DEF TryLock, Places
  <2> QED BY <1>9, <1>4, <2>1 DEF TryLock, Finish
<1>10. ASSUME NEW d \in Deployers, Begin(d) PROVE Places' /\ Typed(db.log)'
  <2>1. tx' = tx
    BY <1>10 DEF Begin, TrackingInv, Shape
  <2> QED BY <1>10, <1>4, <2>1 DEF Begin
<1>11. ASSUME NEW d \in Deployers, NEW e \in pending[d], Skip(d, e) PROVE Places' /\ Typed(db.log)'
  <2>1. d \in gone => outcome[d] = "Interrupted"
    BY DEF Places
  <2> QED BY <1>1, <1>3, <1>11, <2>1 DEF Skip
<1>12. ASSUME NEW d \in Deployers, NEW e \in pending[d], Execute(d, e) PROVE Places' /\ Typed(db.log)'
  <2> DEFINE r == Row(d, snap[d], e)
  <2>1. d \in gone => outcome[d] = "Interrupted"
    BY DEF Places
  <2>2. e \in PlanView(snap[d]) /\ SnapOK(snap[d])
    BY <1>12 DEF Execute, PlanInv, PlanFor, Follows, Files
  <2>3. e.key \in Nat /\ e.path \in SqlPaths
    BY <2>2, PlanRow
  <2>4. r.key \in Nat /\ r.path \in SqlPaths /\ r.idempotent \in BOOLEAN
    BY <2>3 DEF Row, Idempotent
  <2> HIDE DEF r
  <2>5. Typed(Added(tx[d], r).log)
    BY <1>3, <2>4 DEF Typed, Added
  <2>6. tx' = [tx EXCEPT ![d] = Added(tx[d], r)] /\ UNCHANGED <<pc, outcome, gone, db>>
        /\ pending' = [pending EXCEPT ![d] = pending[d] \ {e}] /\ pc[d] = "exec"
    BY <1>12 DEF Execute, r, Shape, Files
  <2> QED BY <1>1, <1>3, <2>1, <2>5, <2>6
<1>13. ASSUME NEW d \in Deployers, NEW how, NEW o, EndTx(d, how, o), UNCHANGED db
       PROVE  Places' /\ Typed(db.log)'
  <2>1. Typed(Empty.log) /\ d \notin gone'
    BY <1>13 DEF EndTx, Typed, Empty
  <2> QED BY <1>1, <1>3, <1>13, <2>1 DEF EndTx
<1>14. ASSUME NEW d \in Deployers, NEW e \in pending[d], ScriptFails(d, e)
       PROVE  Places' /\ Typed(db.log)'
  BY <1>13, <1>14 DEF ScriptFails
<1>15. ASSUME NEW d \in Deployers, Abort(d) PROVE Places' /\ Typed(db.log)'
  BY <1>13, <1>15 DEF Abort
<1>16. ASSUME NEW d \in Deployers, Commit(d) PROVE Places' /\ Typed(db.log)'
  <2>1. db'.log = db.log \cup tx[d].log
    BY <1>16 DEF Commit, Merge
  <2>2. Typed(db'.log)
    BY <1>3, <2>1 DEF Typed
  <2>3. /\ gone' = gone \ {d} /\ pc' = [pc EXCEPT ![d] = "idle"]
        /\ outcome' = outcome \/ outcome' = [outcome EXCEPT ![d] = "Success"]
        /\ tx' = [tx EXCEPT ![d] = Empty] /\ pending' = [pending EXCEPT ![d] = {}]
    BY <1>16 DEF Commit, EndTx
  <2>4. \A p \in Deployers : /\ pc'[p] = (IF p = d THEN "idle" ELSE pc[p])
                             /\ pending'[p] = (IF p = d THEN {} ELSE pending[p])
                             /\ tx'[p] = (IF p = d THEN Empty ELSE tx[p])
                             /\ p # d => outcome'[p] = outcome[p]
    BY <2>3 DEF Shape, Files, Places
  <2>5. outcome' = [p \in Deployers |-> outcome'[p]]
    BY <2>3 DEF Places
  <2>6. \A p \in Deployers : Typed(tx'[p].log)
    BY <2>4 DEF Places, Typed, Empty
  <2> QED BY <2>2, <2>3, <2>4, <2>5, <2>6 DEF Places
<1>17. ASSUME NEW d \in Deployers, GiveUp(d) PROVE Places' /\ Typed(db.log)'
  <2>1. CASE pc[d] = "exec"
    BY <1>1, <1>3, <1>17, <2>1 DEF GiveUp
  <2>2. CASE pc[d] # "exec"
    <3>1. d \notin gone
      BY <1>17 DEF GiveUp
    <3> QED BY <1>1, <1>3, <1>17, <2>2, <3>1 DEF GiveUp
  <2> QED BY <2>1, <2>2
<1>18. CASE UNCHANGED vars
  BY <1>2, <1>18 DEF vars, local
<1> QED
  BY <1>5, <1>6, <1>7, <1>8, <1>9, <1>10, <1>11, <1>12, <1>14, <1>15, <1>16, <1>17,
     <1>18,
     <1>2 DEF Next, Write, Move, Scaffold, Quiescent

(* The types of the state, among them that the log's numbers are distinct  *)
(* from those to come and that only an open transaction has written.       *)
THEOREM TypeCorrect == Spec => []TypeOK
<1>1. Init => Counts /\ Places /\ Typed(db.log)
  BY BoundsAssumption DEF Init, Counts, Places, Typed, Empty
<1>2. ASSUME Shape, TrackingInv, Numbered, Files, Counts, Places, Typed(db.log)
      PROVE  TypeOK
  <2>1. \A r \in db.log : RowOK(r) /\ r.n < seq
    BY <1>2 DEF Numbered, Typed, RowOK
  <2>2. \A d \in Deployers : \A r \in tx[d].log : RowOK(r) /\ r.n < seq
    <3> SUFFICES ASSUME NEW d \in Deployers, NEW r \in tx[d].log PROVE RowOK(r) /\ r.n < seq
      OBVIOUS
    <3>1. pc[d] = "exec"
      BY <1>2 DEF TrackingInv, Empty
    <3>2. run[d] \in 1..runs
      BY <1>2, <3>1 DEF Numbered
    <3> QED BY <1>2, <3>2 DEF Numbered, Places, Typed, RowOK
  <2>3. StoreOK(db) /\ \A d \in Deployers : StoreOK(tx[d])
    BY <1>2, <2>1, <2>2 DEF StoreOK, TrackingInv, Agrees
  <2>4. DOMAIN snap = Deployers /\ DOMAIN tx = Deployers
        /\ \A d \in Deployers : DOMAIN snap[d] \subseteq Paths
    BY <1>2 DEF Files, SnapOK, Shape
  <2> QED BY <1>2, <2>3, <2>4 DEF TypeOK, Shape, Numbered, Counts, Places, TrackingInv, Locked
<1> QED
  BY <1>1, <1>2, CountStep, PlacesStep, PlanInvHolds, ShapeHolds, PTL DEF Spec

=============================================================================
