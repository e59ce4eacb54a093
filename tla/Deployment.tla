----------------------------- MODULE Deployment -----------------------------
(***************************************************************************)
(* Several `pgmi deploy` processes ("runs") against one target database of *)
(* one PostgreSQL cluster: DeploymentService.Deploy, the overwrite and     *)
(* ensure workflows, SessionManager.PrepareSession with its advisory lock, *)
(* the execution of deploy.sql, and every cleanup path down to             *)
(* ReleaseDeployLock and the server's late discovery of a disconnect.      *)
(*                                                                         *)
(* A database recreated under the same name is another incarnation: it has *)
(* another oid, and advisory locks and backends belong to the old one.     *)
(***************************************************************************)
EXTENDS Naturals, Sequences, FiniteSets

CONSTANTS
  Runs,            \* the deploy processes; an operator's retry is another run
  Overwriters,     \* those started with --overwrite
  Units,           \* execution units deploy.sql splits into
  Faults           \* which of "interrupt" and "crash" may happen

ASSUME OverwritersAreRuns == Overwriters \subseteq Runs
ASSUME UnitsPositive == Units \in Nat \ {0}

\* What an operator may have set on a database: "locale" rides on CREATE
\* DATABASE (encoding, locale, owner, connection limit), "options" needs the
\* ALTER DATABASE and COMMENT statements that follow it.
Attrs == {"locale", "options"}

PreSession == {"probe", "exists", "create", "alter", "approve", "settings",
               "terminate", "drop", "connect"}
InSession  == {"version", "lock", "load", "expand", "exec"}
PC         == {"start"} \cup PreSession \cup InSession \cup {"unlock", "release", "done"}

Outcomes == {"none", "Success", "InvalidConfig", "ApprovalDenied",
             "ConcurrentDeploy", "ExecutionFailed", "Failed", "Crashed"}

VARIABLES
  pc,         \* where each run is
  outcome,    \* the sentinel its error chain carries
  saved,      \* handleOverwrite's `settings` variable
  db,         \* incarnation of the target database, 0 when it does not exist
  born,       \* incarnations created so far
  settings,   \* attributes the current incarnation carries
  configured, \* attributes the operator had given the database
  supported,  \* the server meets MinimumServerVersionNum
  probe,      \* backend the existence probe left behind: its incarnation
  sess,       \* backend of the session connection: its incarnation
  conn,       \* the client's end of the session connection
  doomed,     \* session backends signalled by pg_terminate_backend
  locked,     \* runs whose session backend holds the deploy advisory lock
  tx,         \* TxStatus of the session: idle, in transaction, failed
  unit,       \* units of deploy.sql this run has seen succeed
  trace       \* every unit the server applied, as [run, inc]

cluster == <<db, born, settings, configured, supported>>
backend == <<probe, sess, doomed, locked>>
client  == <<conn, tx, unit>>
vars    == <<pc, outcome, saved, cluster, backend, client, trace>>

NoSettings == [present |-> FALSE, attrs |-> {}]

Init ==
  /\ pc = [r \in Runs |-> "start"]
  /\ outcome = [r \in Runs |-> "none"]
  /\ saved = [r \in Runs |-> NoSettings]
  /\ db \in {0, 1}
  /\ born = db
  /\ settings = IF db = 0 THEN {} ELSE Attrs
  /\ configured = settings
  /\ supported \in BOOLEAN
  /\ probe = [r \in Runs |-> 0]
  /\ sess = [r \in Runs |-> 0]
  /\ conn = [r \in Runs |-> "none"]
  /\ doomed = {}
  /\ locked = {}
  /\ tx = [r \in Runs |-> "I"]
  /\ unit = [r \in Runs |-> 0]
  /\ trace = <<>>

Goto(r, l) == pc' = [pc EXCEPT ![r] = l]

Finish(r, o) == Goto(r, "done") /\ outcome' = [outcome EXCEPT ![r] = o]

Continue(r, l) == Goto(r, l) /\ UNCHANGED outcome

----------------------------------------------------------------------------
(* Deploy: everything that needs no server                                 *)

(* validateAndParseConfig, ScanProject, contract.Load and, for an          *)
(* overwrite, validateOverwriteTarget: all before the first connection.    *)
Validate(r) ==
  /\ pc[r] = "start"
  /\ \/ Continue(r, IF r \in Overwriters THEN "exists" ELSE "probe")
     \/ Finish(r, "InvalidConfig")
  /\ UNCHANGED <<saved, cluster, backend, client, trace>>

----------------------------------------------------------------------------
(* ensureDatabaseExists, createIfMissing, handleOverwrite                  *)

(* The probe dials the target and hangs up at once.  Its backend stays     *)
(* until the server has processed the disconnect (ReapProbe).              *)
Probe(r) ==
  /\ pc[r] = "probe"
  /\ IF db # 0
     THEN Continue(r, "connect") /\ probe' = [probe EXCEPT ![r] = db]
     ELSE Continue(r, "exists") /\ UNCHANGED probe
  /\ UNCHANGED <<saved, cluster, sess, doomed, locked, client, trace>>

Exists(r) ==
  /\ pc[r] = "exists"
  /\ Continue(r, IF db = 0 THEN "create"
                 ELSE IF r \in Overwriters THEN "approve" ELSE "connect")
  /\ UNCHANGED <<saved, cluster, backend, client, trace>>

Approve(r) ==
  /\ pc[r] = "approve"
  /\ Continue(r, "settings") \/ Finish(r, "ApprovalDenied")
  /\ UNCHANGED <<saved, cluster, backend, client, trace>>

(* manager.Settings: no row means nothing to preserve.                     *)
Settings(r) ==
  /\ pc[r] = "settings"
  /\ saved' = [saved EXCEPT ![r] = IF db = 0 THEN NoSettings
                                   ELSE [present |-> TRUE, attrs |-> settings]]
  /\ Continue(r, "terminate")
  /\ UNCHANGED <<cluster, backend, client, trace>>

(* pg_terminate_backend only signals; the backend dies later (Reap).       *)
TerminateConnections(r) ==
  /\ pc[r] = "terminate"
  /\ doomed' = doomed \cup {s \in Runs : db # 0 /\ sess[s] = db}
  /\ Continue(r, "drop")
  /\ UNCHANGED <<saved, cluster, probe, sess, locked, client, trace>>

Occupied == \E s \in Runs : sess[s] = db \/ probe[s] = db

(* DROP DATABASE fails when the database is gone, or when a backend is     *)
(* still connected once the server has waited long enough for it to leave. *)
Drop(r) ==
  /\ pc[r] = "drop"
  /\ IF db # 0 /\ ~Occupied
     THEN Continue(r, "create") /\ db' = 0 /\ settings' = {}
     ELSE Finish(r, "Failed") /\ UNCHANGED <<db, settings>>
  /\ UNCHANGED <<saved, born, configured, supported, backend, client, trace>>

Create_FromDefaults(r) ==
  /\ pc[r] = "create"
  /\ IF db = 0
     THEN /\ db' = born + 1
          /\ born' = born + 1
          /\ settings' = {}
          /\ Continue(r, "connect")
     ELSE Finish(r, "ConcurrentDeploy") /\ UNCHANGED <<db, born, settings>>
  /\ UNCHANGED <<saved, configured, supported, backend, client, trace>>

(* manager.Create up to CREATE DATABASE; classifyCreateFailure turns a     *)
(* duplicate into ErrConcurrentDeploy.                                     *)
Create(r) ==
  /\ pc[r] = "create"
  /\ IF db = 0
     THEN /\ db' = born + 1
          /\ born' = born + 1
          /\ settings' = saved[r].attrs \cap {"locale"}
          /\ Continue(r, IF saved[r].present THEN "alter" ELSE "connect")
     ELSE Finish(r, "ConcurrentDeploy") /\ UNCHANGED <<db, born, settings>>
  /\ UNCHANGED <<saved, configured, supported, backend, client, trace>>

(* The ALTER DATABASE and COMMENT statements address the database by name. *)
RestoreOptions(r) ==
  /\ pc[r] = "alter"
  /\ IF db # 0 \/ "options" \notin saved[r].attrs
     THEN /\ Continue(r, "connect")
          /\ settings' = settings \cup (saved[r].attrs \cap {"options"})
     ELSE Finish(r, "Failed") /\ UNCHANGED settings
  /\ UNCHANGED <<saved, db, born, configured, supported, backend, client, trace>>

(* Any other way out before a session exists: a refused or lost            *)
(* maintenance connection, a permission error, a cancelled context, the    *)
(* death of the process.  Nothing of the target is held yet.               *)
GiveUp(r) ==
  /\ pc[r] \in PreSession
  /\ Finish(r, "Failed")
  /\ UNCHANGED <<saved, cluster, backend, client, trace>>

----------------------------------------------------------------------------
(* PrepareSession                                                          *)

(* connectToDatabase and Acquire; handleOverwrite has returned.            *)
Connect(r) ==
  /\ pc[r] = "connect"
  /\ IF db # 0
     THEN /\ Continue(r, "version")
          /\ sess' = [sess EXCEPT ![r] = db]
          /\ conn' = [conn EXCEPT ![r] = "open"]
     ELSE Finish(r, "Failed") /\ UNCHANGED <<sess, conn>>
  /\ saved' = [saved EXCEPT ![r] = NoSettings]
  /\ UNCHANGED <<cluster, probe, doomed, locked, tx, unit, trace>>

(* A statement can be answered: the client has not dropped the connection  *)
(* and the backend is neither dead nor about to die.                       *)
Usable(r) == conn[r] = "open" /\ sess[r] # 0 /\ r \notin doomed

(* Where a failure leads: the lock is given back only by a run that knows  *)
(* it holds it.                                                            *)
CleanupFrom(l) == IF l \in {"version", "lock"} THEN "release" ELSE "unlock"

FailTo(r, o) ==
  /\ Goto(r, CleanupFrom(pc[r]))
  /\ outcome' = [outcome EXCEPT ![r] = o]

CheckServerVersion(r) ==
  /\ pc[r] = "version"
  /\ Usable(r)
  /\ IF supported THEN Continue(r, "lock") ELSE FailTo(r, "InvalidConfig")
  /\ UNCHANGED <<saved, cluster, backend, client, trace>>

(* pg_try_advisory_lock answers at once; the lock's tag holds the oid of   *)
(* the database, so only a holder on the same incarnation refuses it.      *)
LockFree(r) == \A s \in locked : sess[s] # sess[r]

TryLock_IgnoresRefusal(r) ==
  /\ pc[r] = "lock"
  /\ Usable(r)
  /\ Continue(r, "load")
  /\ locked' = IF LockFree(r) THEN locked \cup {r} ELSE locked
  /\ UNCHANGED <<saved, cluster, probe, sess, doomed, client, trace>>

TryLock(r) ==
  /\ pc[r] = "lock"
  /\ Usable(r)
  /\ IF LockFree(r)
     THEN Continue(r, "load") /\ locked' = locked \cup {r}
     ELSE FailTo(r, "ConcurrentDeploy") /\ UNCHANGED locked
  /\ UNCHANGED <<saved, cluster, probe, sess, doomed, client, trace>>

PrepareSessionTables_Unlocks(r) ==
  /\ pc[r] = "load"
  /\ Usable(r)
  /\ Continue(r, "expand")
  /\ locked' = locked \ {r}
  /\ UNCHANGED <<saved, cluster, probe, sess, doomed, client, trace>>

(* prepareSessionTables: pg_temp schema, files, parameters, API contract.  *)
PrepareSessionTables(r) ==
  /\ pc[r] = "load"
  /\ Usable(r)
  /\ Continue(r, "expand")
  /\ UNCHANGED <<saved, cluster, backend, client, trace>>

(* executeDeploySQL up to SplitExecutionUnits.                             *)
ExpandMacros(r) ==
  /\ pc[r] = "expand"
  /\ Usable(r)
  /\ Continue(r, "exec")
  /\ UNCHANGED <<saved, cluster, backend, client, trace>>

(* The same statements failing with an error the connection survives: a    *)
(* SQL error, a rejected parameter, an unreadable file, a context already  *)
(* done when the call is made.                                             *)
PreparationFails(r) ==
  /\ pc[r] \in InSession \ {"exec"}
  /\ Usable(r)
  /\ FailTo(r, "Failed")
  /\ UNCHANGED <<saved, cluster, backend, client, trace>>

----------------------------------------------------------------------------
(* executeDeploySQL                                                        *)

Applied(r) == Append(trace, [run |-> r, inc |-> sess[r]])

ExecUnit_OneLess(r) ==
  /\ pc[r] = "exec"
  /\ Usable(r)
  /\ trace' = Applied(r)
  /\ unit' = [unit EXCEPT ![r] = @ + 1]
  /\ \E t \in {"I", "T"} : tx' = [tx EXCEPT ![r] = t]
  /\ IF unit[r] + 2 >= Units
     THEN Goto(r, "unlock") /\ outcome' = [outcome EXCEPT ![r] = "Success"]
     ELSE Continue(r, "exec")
  /\ UNCHANGED <<saved, cluster, backend, conn>>

(* One unit succeeds; it may leave an explicit transaction open.           *)
ExecUnit(r) ==
  /\ pc[r] = "exec"
  /\ Usable(r)
  /\ trace' = Applied(r)
  /\ unit' = [unit EXCEPT ![r] = @ + 1]
  /\ \E t \in {"I", "T"} : tx' = [tx EXCEPT ![r] = t]
  /\ IF unit[r] + 1 = Units
     THEN Goto(r, "unlock") /\ outcome' = [outcome EXCEPT ![r] = "Success"]
     ELSE Continue(r, "exec")
  /\ UNCHANGED <<saved, cluster, backend, conn>>

(* One unit fails: a transaction it found open, or opened itself, is left  *)
(* aborted.                                                                *)
UnitFails(r) ==
  /\ pc[r] = "exec"
  /\ Usable(r)
  /\ \E t \in {"I", "E"} :
       /\ tx[r] = "T" => t = "E"
       /\ tx' = [tx EXCEPT ![r] = t]
  /\ FailTo(r, "ExecutionFailed")
  /\ UNCHANGED <<saved, cluster, backend, conn, unit, trace>>

----------------------------------------------------------------------------
(* Losing the connection                                                   *)

(* The client's end is gone, and with it what it knew of a transaction.    *)
Disconnect(r) ==
  /\ conn' = [conn EXCEPT ![r] = "closed"]
  /\ tx' = [tx EXCEPT ![r] = "I"]

(* The backend was terminated by another run; the client learns of it when *)
(* its next statement fails.                                               *)
BackendLost(r) ==
  /\ pc[r] \in InSession
  /\ conn[r] = "open" /\ sess[r] = 0
  /\ Disconnect(r)
  /\ FailTo(r, IF pc[r] = "exec" THEN "ExecutionFailed" ELSE "Failed")
  /\ UNCHANGED <<saved, cluster, backend, unit, trace>>

(* The statement in flight when the client goes away may still run.        *)
InFlight(r) ==
  \/ UNCHANGED <<locked, trace>>
  \/ pc[r] = "lock" /\ LockFree(r) /\ locked' = locked \cup {r} /\ UNCHANGED trace
  \/ pc[r] = "exec" /\ trace' = Applied(r) /\ UNCHANGED locked

(* SIGINT or --timeout while the server is executing a statement: pgx      *)
(* closes the connection instead of waiting for the answer.  In "unlock"   *)
(* it is the five-second context of the release that expires.              *)
Interrupt(r) ==
  /\ "interrupt" \in Faults
  /\ pc[r] \in InSession \cup {"unlock"}
  /\ Usable(r)
  /\ Disconnect(r)
  /\ InFlight(r)
  /\ IF pc[r] = "unlock" THEN Continue(r, "release")
     ELSE FailTo(r, IF pc[r] = "exec" THEN "ExecutionFailed" ELSE "Failed")
  /\ UNCHANGED <<saved, cluster, probe, sess, doomed, unit>>

(* The process dies: no deferred cleanup runs.                             *)
Crash(r) ==
  /\ "crash" \in Faults
  /\ pc[r] \in InSession \cup {"unlock", "release"}
  /\ Disconnect(r)
  /\ IF Usable(r) THEN InFlight(r) ELSE UNCHANGED <<locked, trace>>
  /\ Finish(r, "Crashed")
  /\ UNCHANGED <<saved, cluster, probe, sess, doomed, unit>>

----------------------------------------------------------------------------
(* Session.Close and PrepareSession's deferred cleanup                     *)

AfterRollback_Missing(t) == t

(* The ROLLBACK ReleaseDeployLock issues when TxStatus is not idle.        *)
AfterRollback(t) == "I"

ReleaseDeployLock_WaitsForIdle(r) ==
  /\ pc[r] = "unlock"
  /\ tx[r] = "I"
  /\ Usable(r)
  /\ locked' = locked \ {r}
  /\ Continue(r, "release")
  /\ UNCHANGED <<saved, cluster, probe, sess, doomed, client, trace>>

(* pg_advisory_unlock_all runs unless the transaction is still failed; on  *)
(* a dead connection both statements are no-ops whose errors are dropped.  *)
ReleaseDeployLock(r) ==
  /\ pc[r] = "unlock"
  /\ conn[r] = "open" => Usable(r) \/ sess[r] = 0
  /\ IF Usable(r)
     THEN /\ tx' = [tx EXCEPT ![r] = AfterRollback(@)]
          /\ locked' = IF tx'[r] = "E" THEN locked ELSE locked \ {r}
     ELSE UNCHANGED <<tx, locked>>
  /\ Continue(r, "release")
  /\ UNCHANGED <<saved, cluster, probe, sess, doomed, conn, unit, trace>>

(* conn.Release, pool.Close, connector cleanup: only starts a disconnect.  *)
Release(r) ==
  /\ pc[r] = "release"
  /\ Disconnect(r)
  /\ Continue(r, "done")
  /\ UNCHANGED <<saved, cluster, backend, unit, trace>>

----------------------------------------------------------------------------
(* The server                                                              *)

(* A backend exits: it was signalled, or it has noticed its client is gone. *)
(* Its session-level advisory locks go with it.                            *)
Reap(r) ==
  /\ sess[r] # 0
  /\ conn[r] = "closed" \/ r \in doomed
  /\ sess' = [sess EXCEPT ![r] = 0]
  /\ locked' = locked \ {r}
  /\ doomed' = doomed \ {r}
  /\ UNCHANGED <<pc, outcome, saved, cluster, probe, client, trace>>

ReapProbe(r) ==
  /\ probe[r] # 0
  /\ probe' = [probe EXCEPT ![r] = 0]
  /\ UNCHANGED <<pc, outcome, saved, cluster, sess, doomed, locked, client, trace>>

(* Every run has exited and the server has cleaned up after all of them.   *)
Finished ==
  /\ \A r \in Runs : pc[r] = "done" /\ sess[r] = 0 /\ probe[r] = 0
  /\ UNCHANGED vars

----------------------------------------------------------------------------
Step(r) ==
  \/ Probe(r) \/ Exists(r) \/ Approve(r) \/ Settings(r)
  \/ TerminateConnections(r) \/ Drop(r) \/ Create(r) \/ RestoreOptions(r)
  \/ Connect(r) \/ CheckServerVersion(r) \/ TryLock(r)
  \/ PrepareSessionTables(r) \/ ExpandMacros(r)
  \/ ExecUnit(r) \/ UnitFails(r) \/ BackendLost(r)
  \/ ReleaseDeployLock(r) \/ Release(r)

Fault(r) == GiveUp(r) \/ PreparationFails(r) \/ Interrupt(r) \/ Crash(r)

Server(r) == Reap(r) \/ ReapProbe(r)

Next ==
  \/ \E r \in Runs : Validate(r) \/ Step(r) \/ Fault(r) \/ Server(r)
  \/ Finished

Spec == Init /\ [][Next]_vars

(* A started run keeps running (statements of deploy.sql and approvals are *)
(* bounded by --timeout unless it is 0, which sets no limit), and the      *)
(* server reaps what it must reap.  Nothing forces a run to start, to fail *)
(* or to be interrupted.                                                   *)
Fairness ==
  \A r \in Runs : WF_vars(Step(r)) /\ WF_vars(Reap(r)) /\ WF_vars(ReapProbe(r))

FairSpec == Spec /\ Fairness

----------------------------------------------------------------------------
(* Properties                                                              *)

LoopBound ==
  \A r \in Runs : unit[r] = Units => pc[r] \in {"unlock", "release", "done"}

(* Every variable has its type, and the unit loop stops at the last unit:  *)
(* no run is still executing, or preparing to, once it has applied them    *)
(* all.                                                                    *)
TypeOK ==
  /\ pc \in [Runs -> PC]
  /\ outcome \in [Runs -> Outcomes]
  /\ saved \in [Runs -> [present : BOOLEAN, attrs : SUBSET Attrs]]
  /\ db \in Nat /\ born \in Nat
  /\ settings \in SUBSET Attrs /\ configured \in SUBSET Attrs
  /\ supported \in BOOLEAN
  /\ probe \in [Runs -> Nat]
  /\ sess \in [Runs -> Nat]
  /\ conn \in [Runs -> {"none", "open", "closed"}]
  /\ doomed \in SUBSET Runs
  /\ locked \in SUBSET Runs
  /\ tx \in [Runs -> {"I", "T", "E"}]
  /\ unit \in [Runs -> 0..Units]
  /\ LoopBound
  /\ trace \in Seq([run : Runs, inc : Nat])

(* No run's unit lands between two units of another run on the same        *)
(* incarnation of the database, whatever was interrupted, killed,          *)
(* overwritten or retried: the deploy lock covers a script until the       *)
(* server, not the client, is done with it.                                *)
SerialScripts ==
  \A i, j, k \in DOMAIN trace :
    /\ i < j /\ j < k
    /\ trace[i] = trace[k]
    /\ trace[j].inc = trace[i].inc
    => trace[j].run = trace[i].run

UnitsOf(r) == {k \in DOMAIN trace : trace[k].run = r}

(* A run that reports success had each of its units applied exactly once   *)
(* and all of them to one incarnation: a connection lost half way, or a    *)
(* database recreated under it, is never taken for success.                *)
SuccessIsComplete ==
  \A r \in Runs : outcome[r] = "Success" =>
    /\ Cardinality(UnitsOf(r)) = Units
    /\ \A k, l \in UnitsOf(r) : trace[k].inc = trace[l].inc

(* Why the lock serialises scripts.  A lock is held by a live backend, two *)
(* holders are on different incarnations, a run past TryLock whose backend *)
(* lives holds the lock, and a run that has not got that far holds nothing *)
(* and has written nothing.                                                *)
LockedHasBackend == \A r \in locked : sess[r] # 0
LockExclusion    == \A r, s \in locked : sess[r] = sess[s] => r = s
WorkHoldsLock    ==
  \A r \in Runs : pc[r] \in {"load", "expand", "exec"} /\ sess[r] # 0 => r \in locked
BeforeLock       == {"start"} \cup PreSession \cup {"version", "lock"}
EarlyHoldsNothing ==
  \A r \in Runs : pc[r] \in BeforeLock =>
    /\ r \notin locked
    /\ \A k \in DOMAIN trace : trace[k].run # r
LockInv == LockedHasBackend /\ LockExclusion /\ WorkHoldsLock /\ EarlyHoldsNothing

(* A run that is about to close a healthy connection has given its deploy  *)
(* lock up, on every path out of session preparation and of the script:    *)
(* only a connection that is lost leaves the lock to the server.           *)
LockDiesWithRun ==
  \A r \in Runs : pc[r] = "release" /\ conn[r] = "open" /\ r \notin doomed => r \notin locked

(* A run that has started exits, whatever the other runs, the server and   *)
(* the network do to it, and a deploy lock that was taken is given up: by  *)
(* its holder's unlock, or by the server noticing that the holder's client *)
(* is gone.                                                                *)
NothingLingers ==
  \A r \in Runs : /\ pc[r] # "start" ~> pc[r] = "done"
                  /\ r \in locked ~> r \notin locked

(* The lock as an abstract admission: a run is inside an incarnation while *)
(* its backend holds the advisory lock there.                              *)
at == [r \in Runs |-> IF r \in locked THEN sess[r] ELSE 0]
Abstract == INSTANCE ExclusiveDeploy WITH Runs <- Runs, at <- at, trace <- trace

(* Every behaviour of the deploy processes is one the lock's abstract      *)
(* specification allows.                                                   *)
ExclusiveDeploySpec == Abstract!Spec
=============================================================================
