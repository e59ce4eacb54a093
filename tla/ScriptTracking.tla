--------------------------- MODULE ScriptTracking ---------------------------
(***************************************************************************)
(* What a deployment executes, over many deployments of a project that is  *)
(* being edited: the scan and its metadata, the duplicate-id check, the    *)
(* session tables, pgmi_plan_view, and pg_temp.deploy() of the advanced    *)
(* template with its tracking tables.                                      *)
(*                                                                         *)
(* Paths and sort keys are compared byte by byte in one order (COLLATE     *)
(* "C", and Go's string order), because a file without keys sorts by its   *)
(* path: both are numbers here, their rank in that order.  Files the       *)
(* scanner leaves out (dot directories, tool caches, the root deploy.sql)  *)
(* and test files are no members of Paths: no plan contains them.          *)
(***************************************************************************)
EXTENDS Naturals, Sequences, FiniteSets

CONSTANTS
  Deployers,       \* pgmi processes, each deploying any number of times
  Paths,           \* ranks of the project paths
  SqlPaths,        \* those with an extension of SQLExtensions
  Drafts,          \* files an author may write
  Projects,        \* projects to begin with: functions from Paths to Drafts or Absent
  GeneratedKey,    \* rank of "generated/<base name>" for each path
  MaxRuns,         \* deployments in a behaviour
  MaxEdits         \* edits of the project in a behaviour

ASSUME PathsAreRanks == Paths \subseteq Nat /\ SqlPaths \subseteq Paths
ASSUME GeneratedKeysAreRanks == GeneratedKey \in [Paths -> Nat]

(* Metadata of a file: none, a block that does not parse or validate (and  *)
(* any other reason for which the scanner refuses a file), or the          *)
(* ScriptMetadata it extracts.                                             *)
NoMeta    == [kind |-> "none"]
Malformed == [kind |-> "malformed"]
Meta(id, idempotent, keys) ==
  [kind |-> "meta", id |-> id, idempotent |-> idempotent, keys |-> keys]

Absent == [kind |-> "absent"]
File(meta, content) == [kind |-> "file", meta |-> meta, content |-> content]

(* Script identities.  GenerateFallbackID hashes the path it is given; the *)
(* scaffold command gives it the path with a second "./" in front.         *)
ExplicitId(i) == [of |-> "author", n |-> i]
GenericId(p)  == [of |-> "./path", n |-> p]
ScaffoldId(p) == [of |-> "././path", n |-> p]

(* A file with metadata has its sort keys in a sequence; what an author    *)
(* may write, and starts with, are such files.                             *)
FileOK(f) ==
  /\ f = File(f.meta, f.content)
  /\ f.meta.kind = "meta" => f.meta.idempotent \in BOOLEAN /\ f.meta.keys \in Seq(Nat)

ASSUME FilesAssumption ==
  /\ \A f \in Drafts : f = Absent \/ FileOK(f)
  /\ \A t \in Projects : /\ t = [p \in Paths |-> t[p]]
                          /\ \A p \in Paths : t[p] = Absent \/ FileOK(t[p])
ASSUME BoundsAssumption == MaxRuns \in Nat /\ MaxEdits \in Nat

VARIABLES
  project,    \* the files on disk
  edits,      \* edits so far
  runs,       \* deployments started so far
  pc,         \* where each deployer, or the backend it left behind, is
  run,        \* number of its latest deployment
  todo,       \* paths its scan has not reached
  snap,       \* files scanned: pgmi_source and pgmi_source_metadata
  pending,    \* plan rows its deploy() has not reached
  tx,         \* what its open transaction has written
  gone,       \* deployers whose client left while the server works on
  outcome,    \* what the command reported
  ended,      \* how the transaction of the latest deployment ended
  db,         \* committed: log, effects, scripts, contents
  seq         \* the log's identity sequence, which no rollback rewinds

local == <<pc, run, todo, snap, pending, tx, gone, outcome, ended>>
vars  == <<project, edits, runs, local, db, seq>>

Empty == [log |-> {}, effects |-> {}, scripts |-> {}, contents |-> {}]
Nothing == [p \in {} |-> Absent]

Init ==
  /\ project \in Projects
  /\ edits = 0
  /\ runs = 0
  /\ pc = [d \in Deployers |-> "idle"]
  /\ run = [d \in Deployers |-> 0]
  /\ todo = [d \in Deployers |-> {}]
  /\ snap = [d \in Deployers |-> Nothing]
  /\ pending = [d \in Deployers |-> {}]
  /\ tx = [d \in Deployers |-> Empty]
  /\ gone = {}
  /\ outcome = [d \in Deployers |-> "none"]
  /\ ended = [d \in Deployers |-> "none"]
  /\ db = Empty
  /\ seq = 1

----------------------------------------------------------------------------
(* The author, and `pgmi metadata scaffold --write`                        *)

Edit(new) ==
  /\ edits < MaxEdits
  /\ edits' = edits + 1
  /\ project' = new
  /\ UNCHANGED <<runs, local, db, seq>>

Write(p, f) == project[p] # f /\ Edit([project EXCEPT ![p] = f])

Move(p, q) ==
  /\ project[p] # Absent /\ project[q] = Absent
  /\ Edit([project EXCEPT ![q] = project[p], ![p] = Absent])

(* Each file is rewritten through a rename, so a command that stops half   *)
(* way has scaffolded some files and left the others as they were.         *)
Scaffold(p, idempotent) ==
  /\ p \in SqlPaths /\ project[p] # Absent /\ project[p].meta = NoMeta
  /\ Edit([project EXCEPT ![p].meta =
             Meta(ScaffoldId(p), idempotent, <<GeneratedKey[p]>>)])

----------------------------------------------------------------------------
(* Before the server: ScanProject                                          *)

Finish(d, o) ==
  /\ pc' = [pc EXCEPT ![d] = "idle"]
  /\ outcome' = [outcome EXCEPT ![d] = o]

Start(d) ==
  /\ pc[d] = "idle" /\ runs < MaxRuns
  /\ runs' = runs + 1
  /\ pc' = [pc EXCEPT ![d] = "scan"]
  /\ run' = [run EXCEPT ![d] = runs + 1]
  /\ todo' = [todo EXCEPT ![d] = Paths]
  /\ snap' = [snap EXCEPT ![d] = Nothing]
  /\ outcome' = [outcome EXCEPT ![d] = "none"]
  /\ ended' = [ended EXCEPT ![d] = "none"]
  /\ UNCHANGED <<project, edits, pending, tx, gone, db, seq>>

(* processFile: metadata is looked for in SQL files only, and a block that *)
(* is there but wrong ends the scan.                                       *)
Scanned(p) == IF p \in SqlPaths THEN project[p] ELSE [project[p] EXCEPT !.meta = NoMeta]

With(s, p, f) == [q \in DOMAIN s \cup {p} |-> IF q = p THEN f ELSE s[q]]

(* ScanDirectory walks in path order and reads one file at a time; the     *)
(* project may change between two reads.                                   *)
ScanFile(d, p) ==
  /\ pc[d] = "scan" /\ p \in todo[d]
  /\ \A q \in todo[d] : p <= q
  /\ todo' = [todo EXCEPT ![d] = @ \ {p}]
  /\ IF project[p] # Absent /\ Scanned(p).meta = Malformed
     THEN Finish(d, "Rejected") /\ UNCHANGED snap
     ELSE /\ snap' = IF project[p] = Absent THEN snap
                     ELSE [snap EXCEPT ![d] = With(@, p, Scanned(p))]
          /\ UNCHANGED <<pc, outcome>>
  /\ UNCHANGED <<project, edits, runs, run, pending, tx, gone, ended, db, seq>>

HasMeta(s, p) == s[p].meta.kind = "meta"

DuplicateIDs_None(s) == FALSE
DuplicateIDs(s) ==
  \E p, q \in DOMAIN s : /\ p # q /\ HasMeta(s, p) /\ HasMeta(s, q)
                         /\ s[p].meta.id = s[q].meta.id

ValidateScan(d) ==
  /\ pc[d] = "scan" /\ todo[d] = {}
  /\ IF DuplicateIDs(snap[d]) THEN Finish(d, "Rejected")
     ELSE pc' = [pc EXCEPT ![d] = "lock"] /\ UNCHANGED outcome
  /\ UNCHANGED <<project, edits, runs, run, todo, snap, pending, tx, gone, ended, db, seq>>

----------------------------------------------------------------------------
(* pgmi_plan_view and the preview `pgmi metadata plan` prints              *)

(* NULLIF(sort_keys, '{}') or the path.                                    *)
SortKeys(s, p) ==
  IF HasMeta(s, p) /\ s[p].meta.keys # <<>> THEN s[p].meta.keys ELSE <<p>>

Idempotent(s, p) == HasMeta(s, p) => s[p].meta.idempotent

ObjectId(s, p) == IF HasMeta(s, p) THEN s[p].meta.id ELSE GenericId(p)

(* One row per element of sort_keys: a repeated key is a repeated row.     *)
PlanView(s) ==
  UNION {{[key |-> SortKeys(s, p)[i], path |-> p, nth |-> i] :
           i \in DOMAIN SortKeys(s, p)} : p \in DOMAIN s \cap SqlPaths}

Before(a, b) ==
  \/ a.key < b.key
  \/ a.key = b.key /\ a.path < b.path
  \/ a.key = b.key /\ a.path = b.path /\ a.nth < b.nth

MinSortKey_First(s, p) == SortKeys(s, p)[1]
MinSortKey(s, p) ==
  CHOOSE k \in {SortKeys(s, p)[i] : i \in DOMAIN SortKeys(s, p)} :
    \A i \in DOMAIN SortKeys(s, p) : k <= SortKeys(s, p)[i]

(* planProject lists every SQL file once, by smallest key and path.        *)
PlanProjectBefore(s, p, q) ==
  \/ MinSortKey(s, p) < MinSortKey(s, q)
  \/ MinSortKey(s, p) = MinSortKey(s, q) /\ p < q

----------------------------------------------------------------------------
(* The session                                                             *)

(* A backend holds the session lock from TryLock to its end, whether or    *)
(* not its client is still there.                                          *)
Locked(o) == pc[o] \in {"begin", "exec"}

(* PrepareSession: pg_try_advisory_lock, then the session tables.          *)
TryLock(d) ==
  /\ pc[d] = "lock"
  /\ IF \E o \in Deployers : Locked(o)
     THEN Finish(d, "ConcurrentDeploy") /\ UNCHANGED pending
     ELSE /\ pc' = [pc EXCEPT ![d] = "begin"]
          /\ pending' = [pending EXCEPT ![d] = PlanView(snap[d])]
          /\ UNCHANGED outcome
  /\ UNCHANGED <<project, edits, runs, run, todo, snap, tx, gone, ended, db, seq>>

(* BEGIN and pg_advisory_xact_lock, held to the end of the transaction.    *)
Begin(d) ==
  /\ pc[d] = "begin"
  /\ \A o \in Deployers : pc[o] # "exec"
  /\ pc' = [pc EXCEPT ![d] = "exec"]
  /\ tx' = [tx EXCEPT ![d] = Empty]
  /\ UNCHANGED <<project, edits, runs, run, todo, snap, pending, gone, outcome, ended, db, seq>>

(* The loop's query reads what is committed and what this transaction has  *)
(* inserted.                                                               *)
AlreadyRan_Path(d, s, p) == \E r \in db.log \cup tx[d].log : r.path = p /\ ~r.idempotent
AlreadyRan(d, s, p) ==
  \E r \in db.log \cup tx[d].log : r.obj = ObjectId(s, p) /\ ~r.idempotent

Skips(d, s, p) == ~Idempotent(s, p) /\ AlreadyRan(d, s, p)

Row(d, s, e) ==
  [n |-> seq, obj |-> ObjectId(s, e.path), content |-> s[e.path].content,
   path |-> e.path, idempotent |-> Idempotent(s, e.path), key |-> e.key, run |-> run[d]]

IsNext(d, e) == e \in pending[d] /\ \A o \in pending[d] \ {e} : Before(e, o)

Skip(d, e) ==
  /\ pc[d] = "exec" /\ IsNext(d, e)
  /\ Skips(d, snap[d], e.path)
  /\ pending' = [pending EXCEPT ![d] = @ \ {e}]
  /\ UNCHANGED <<project, edits, runs, pc, run, todo, snap, tx, gone, outcome, ended, db, seq>>

Added(t, r) ==
  [log |-> t.log \cup {r}, effects |-> t.effects \cup {r},
   scripts |-> t.scripts \cup {r.obj}, contents |-> t.contents \cup {r.content}]

Execute(d, e) ==
  /\ pc[d] = "exec" /\ IsNext(d, e)
  /\ ~Skips(d, snap[d], e.path)
  /\ tx' = [tx EXCEPT ![d] = Added(@, Row(d, snap[d], e))]
  /\ seq' = seq + 1
  /\ pending' = [pending EXCEPT ![d] = @ \ {e}]
  /\ UNCHANGED <<project, edits, runs, pc, run, todo, snap, gone, outcome, ended, db>>

(* The end of a transaction is the end of the script: what is left of it   *)
(* reports and does nothing.  A client that left has reported already.     *)
EndTx(d, how, o) ==
  /\ pc' = [pc EXCEPT ![d] = "idle"]
  /\ outcome' = IF d \in gone THEN outcome ELSE [outcome EXCEPT ![d] = o]
  /\ gone' = gone \ {d}
  /\ tx' = [tx EXCEPT ![d] = Empty]
  /\ pending' = [pending EXCEPT ![d] = {}]
  /\ ended' = [ended EXCEPT ![d] = how]
  /\ UNCHANGED <<project, edits, runs, run, todo, snap>>

(* A script that raises: the handler only rewrites the message.  The row   *)
(* of the log comes after it; the registry rows before it go with the rest *)
(* of the transaction.                                                     *)
ScriptFails_Swallowed(d, e) ==
  /\ pc[d] = "exec" /\ IsNext(d, e)
  /\ ~Skips(d, snap[d], e.path)
  /\ tx' = [tx EXCEPT ![d] = [Added(@, Row(d, snap[d], e)) EXCEPT !.effects = tx[d].effects]]
  /\ seq' = seq + 1
  /\ pending' = [pending EXCEPT ![d] = @ \ {e}]
  /\ UNCHANGED <<project, edits, runs, pc, run, todo, snap, gone, outcome, ended, db>>
ScriptFails(d, e) ==
  /\ pc[d] = "exec" /\ IsNext(d, e)
  /\ ~Skips(d, snap[d], e.path)
  /\ EndTx(d, "rolled back", "ExecutionFailed")
  /\ UNCHANGED <<db, seq>>

(* After the loop: entity standards, privileges, tests.  One of them       *)
(* fails, or the backend is terminated at any point before COMMIT.         *)
Abort(d) ==
  /\ pc[d] = "exec"
  /\ EndTx(d, "rolled back", "ExecutionFailed")
  /\ UNCHANGED <<db, seq>>

Merge(s, t) ==
  [log |-> s.log \cup t.log, effects |-> s.effects \cup t.effects,
   scripts |-> s.scripts \cup t.scripts, contents |-> s.contents \cup t.contents]

Commit(d) ==
  /\ pc[d] = "exec" /\ pending[d] = {}
  /\ db' = Merge(db, tx[d])
  /\ EndTx(d, "committed", "Success")
  /\ UNCHANGED seq

(* A signal or the timeout.  Before the script is sent the session just    *)
(* ends; afterwards the whole message is with the server, which may carry  *)
(* it through to COMMIT while the operator already starts the next run.    *)
GiveUp(d) ==
  /\ pc[d] \in {"lock", "begin", "exec"} /\ d \notin gone
  /\ outcome' = [outcome EXCEPT ![d] = "Interrupted"]
  /\ IF pc[d] = "exec"
     THEN gone' = gone \cup {d} /\ UNCHANGED <<pc, pending>>
     ELSE /\ pc' = [pc EXCEPT ![d] = "idle"]
          /\ pending' = [pending EXCEPT ![d] = {}]
          /\ UNCHANGED gone
  /\ UNCHANGED <<project, edits, runs, run, todo, snap, tx, ended, db, seq>>

Quiescent ==
  /\ runs = MaxRuns /\ \A d \in Deployers : pc[d] = "idle"
  /\ UNCHANGED vars

Next ==
  \/ \E p \in Paths, f \in Drafts : Write(p, f)
  \/ \E p, q \in Paths : Move(p, q)
  \/ \E p \in Paths, idempotent \in BOOLEAN : Scaffold(p, idempotent)
  \/ \E d \in Deployers :
       \/ Start(d)
       \/ \E p \in Paths : ScanFile(d, p)
       \/ ValidateScan(d)
       \/ TryLock(d)
       \/ Begin(d)
       \/ \E e \in pending[d] : Skip(d, e)
       \/ \E e \in pending[d] : Execute(d, e)
       \/ \E e \in pending[d] : ScriptFails(d, e)
       \/ Abort(d)
       \/ Commit(d)
       \/ GiveUp(d)
  \/ Quiescent

Spec == Init /\ [][Next]_vars

----------------------------------------------------------------------------
(* Properties                                                              *)

RowOK(r) ==
  /\ r.n \in Nat /\ r.key \in Nat /\ r.path \in SqlPaths
  /\ r.idempotent \in BOOLEAN /\ r.run \in 1..runs

StoreOK(t) == \A r \in t.log \cup t.effects : RowOK(r) /\ r.n < seq

(* Types, with: only a deployer inside its transaction has written or has  *)
(* left its client, and only one past the lock has a plan.                 *)
TypeOK ==
  /\ edits \in 0..MaxEdits /\ runs \in 0..MaxRuns /\ seq \in Nat \ {0}
  /\ pc \in [Deployers -> {"idle", "scan", "lock", "begin", "exec"}]
  /\ run \in [Deployers -> 0..runs]
  /\ DOMAIN snap = Deployers /\ DOMAIN tx = Deployers
  /\ \A d \in Deployers :
       /\ DOMAIN snap[d] \subseteq Paths
       /\ tx[d] = Empty \/ pc[d] = "exec"
       /\ pending[d] = {} \/ Locked(d)
       /\ d \in gone => pc[d] = "exec" /\ outcome[d] = "Interrupted"
       /\ StoreOK(tx[d])
  /\ StoreOK(db)

(* No two rows are one-time executions of one identity.                    *)
Once(rows) ==
  \A a, b \in rows : a.obj = b.obj /\ ~a.idempotent /\ ~b.idempotent => a = b

(* A script identity runs under the one-time contract at most once over    *)
(* all deployments: whatever is renamed, re-keyed or edited in between,    *)
(* however often a failed or interrupted deployment is repeated, and when  *)
(* the file has several sort keys (deploy(), the EXISTS on the log).       *)
RunsOnce == Once(db.effects)

(* Nothing is skipped for another file's sake: once a deployment has       *)
(* committed, each of its one-time files ran in it, or in another one as a *)
(* one-time script.  A file that had only run as idempotent and was        *)
(* flipped runs (deploy()), and two files never share the one run of an id *)
(* (validateNoDuplicateScriptIDs).                                         *)
OneTimeRuns ==
  \A d \in Deployers : ended[d] = "committed" =>
    \A p \in DOMAIN snap[d] \cap SqlPaths : ~Idempotent(snap[d], p) =>
      \E r \in db.effects :
        /\ r.obj = ObjectId(snap[d], p) /\ ~r.idempotent
        /\ r.run # run[d] \/ r.path = p

(* A committed deployment has run each idempotent file, as scanned, once   *)
(* for each of its sort keys, and all it ran is in the order of the keys   *)
(* and then of the paths (pgmi_plan_view, METADATA.md on multi-phase       *)
(* execution).                                                             *)
IdempotentRuns ==
  \A d \in Deployers : ended[d] = "committed" =>
    LET mine == {r \in db.effects : r.run = run[d]} IN
      /\ \A p \in DOMAIN snap[d] \cap SqlPaths : Idempotent(snap[d], p) =>
           \A k \in {SortKeys(snap[d], p)[i] : i \in DOMAIN SortKeys(snap[d], p)} :
             Cardinality({r \in mine : r.path = p /\ r.key = k
                                       /\ r.content = snap[d][p].content})
               = Cardinality({i \in DOMAIN SortKeys(snap[d], p) : SortKeys(snap[d], p)[i] = k})
      /\ \A a, b \in mine : a.n < b.n =>
           a.key < b.key \/ (a.key = b.key /\ a.path <= b.path)

(* A committed deployment did what its scan said, for both kinds of file.  *)
RunsAsPlanned == OneTimeRuns /\ IdempotentRuns

(* `pgmi metadata plan` shows files "ordered the way pgmi_plan_view would  *)
(* order them": of two files a deployment ran, the one the preview puts    *)
(* first is the one whose first execution came first.                      *)
PreviewIsAccurate ==
  \A d \in Deployers : ended[d] = "committed" =>
    \A p, q \in DOMAIN snap[d] \cap SqlPaths :
      p # q /\ PlanProjectBefore(snap[d], p, q) =>
        \A b \in db.effects :
          b.run = run[d] /\ b.path = q /\ (\E a \in db.effects : a.run = run[d] /\ a.path = p)
            => \E a \in db.effects : a.run = run[d] /\ a.path = p /\ a.n < b.n

(* What one store says of itself.                                          *)
Agrees(t) ==
  /\ t.log = t.effects
  /\ t.scripts = {r.obj : r \in t.effects}
  /\ t.contents = {r.content : r \in t.effects}

(* The tracking tables tell the truth: a logged execution took effect, one *)
(* that took effect is logged, and scripts and contents are registered for *)
(* those and for nothing else, although each is a statement of its own and *)
(* any of them, or the script between them, may fail.                      *)
TrackingAgrees == Agrees(db)

(* Why RunsOnce holds: one session at a time is past the lock, so what an  *)
(* open transaction has seen in the log is all there is, and it keeps      *)
(* `once' for the committed rows and its own together.                     *)
TrackingInv ==
  /\ \A d, o \in Deployers :
       pc[d] \in {"begin", "exec"} /\ pc[o] \in {"begin", "exec"} => d = o
  /\ \A d \in Deployers : pc[d] # "exec" => tx[d] = Empty
  /\ Agrees(db) /\ Once(db.log)
  /\ \A d \in Deployers : Agrees(tx[d]) /\ Once(db.log \cup tx[d].log)

=============================================================================
