-------------------------- MODULE DeploymentProofs --------------------------
(* Proofs about Deployment, for any set of runs, any number of units and   *)
(* any faults: type correctness, exclusion by the deploy lock, and the     *)
(* implementation of ExclusiveDeploy, and what overlapping overwrites keep. *)
EXTENDS OverwriteHistory, FiniteSetTheorems, SequenceTheorems, TLAPS

(* Applying a unit extends the trace by a well-typed entry.                *)
LEMMA AppliedType ==
  ASSUME TypeOK, NEW r \in Runs
  PROVE  Applied(r) \in Seq([run : Runs, inc : Nat])
BY DEF TypeOK, Applied

(* Its entries are the old ones and one of the run itself.                 *)
LEMMA AppliedEntries ==
  ASSUME TypeOK, NEW r \in Runs, trace' = Applied(r)
  PROVE  \A k \in DOMAIN trace' :
           trace'[k].run = r \/ (k \in DOMAIN trace /\ trace'[k] = trace[k])
<1> DEFINE e == [run |-> r, inc |-> sess[r]]
<1>1. trace \in Seq([run : Runs, inc : Nat]) /\ e \in [run : Runs, inc : Nat]
  BY DEF TypeOK
<1>2. trace' = Append(trace, e)
  BY DEF Applied
<1>3. e.run = r
  OBVIOUS
<1> HIDE DEF e
<1>4. /\ DOMAIN trace = 1..Len(trace) /\ Len(trace) \in Nat
      /\ DOMAIN trace' = 1..(Len(trace) + 1)
      /\ trace'[Len(trace) + 1] = e
      /\ \A k \in 1..Len(trace) : trace'[k] = trace[k]
  BY <1>1, <1>2
<1> QED
  BY <1>3, <1>4

(* Every action of Deployment keeps every variable in its type.            *)
LEMMA TypeStep == TypeOK /\ [Next]_vars => TypeOK'
<1> SUFFICES ASSUME TypeOK, [Next]_vars PROVE TypeOK'
  OBVIOUS
<1> USE DEF TypeOK, PC, PreSession, InSession, Outcomes, Attrs, cluster,
            backend, client, Goto, Finish, Continue, FailTo, CleanupFrom,
            LoopBound
<1>1. CASE UNCHANGED vars
  BY <1>1 DEF vars
<1>2. ASSUME NEW r \in Runs, Validate(r) PROVE TypeOK'
  BY <1>2 DEF Validate
<1>3. ASSUME NEW r \in Runs, Probe(r) PROVE TypeOK'
  <2>1. CASE db # 0
    <3>1. probe' \in [Runs -> Nat]
      BY <1>3, <2>1 DEF Probe
    <3>2. pc' \in [Runs -> PC] /\ outcome' \in [Runs -> Outcomes]
      BY <1>3, <2>1 DEF Probe
    <3>3. UNCHANGED <<saved, cluster, sess, doomed, locked, client, trace>>
      BY <1>3 DEF Probe
    <3>4. LoopBound'
      BY <1>3, <2>1 DEF Probe
    <3> QED
      BY <3>1, <3>2, <3>3, <3>4
  <2>2. CASE ~(db # 0)
    BY <1>3, <2>2 DEF Probe
  <2> QED
    BY <2>1, <2>2
<1>4. ASSUME NEW r \in Runs, Exists(r) PROVE TypeOK'
  BY <1>4 DEF Exists
<1>5. ASSUME NEW r \in Runs, Approve(r) PROVE TypeOK'
  BY <1>5 DEF Approve
<1>6. ASSUME NEW r \in Runs, Settings(r) PROVE TypeOK'
  BY <1>6 DEF Settings, NoSettings
<1>7. ASSUME NEW r \in Runs, TerminateConnections(r) PROVE TypeOK'
  BY <1>7 DEF TerminateConnections
<1>8. ASSUME NEW r \in Runs, Drop(r) PROVE TypeOK'
  <2>1. CASE db # 0 /\ ~Occupied
    <3>1. pc' \in [Runs -> PC] /\ outcome' \in [Runs -> Outcomes]
      BY <1>8, <2>1 DEF Drop
    <3>2. db' \in Nat /\ settings' \in SUBSET Attrs
      BY <1>8, <2>1 DEF Drop
    <3>3. LoopBound'
      BY <1>8, <2>1 DEF Drop
    <3> QED
      BY <1>8, <2>1, <3>1, <3>2, <3>3 DEF Drop
  <2>2. CASE ~(db # 0 /\ ~Occupied)
    BY <1>8, <2>2 DEF Drop
  <2> QED
    BY <2>1, <2>2
<1>9. ASSUME NEW r \in Runs, Create(r) PROVE TypeOK'
  <2>1. CASE db = 0
    <3>1. pc' \in [Runs -> PC] /\ outcome' \in [Runs -> Outcomes]
      BY <1>9, <2>1 DEF Create
    <3>2. db' \in Nat /\ born' \in Nat
      BY <1>9, <2>1 DEF Create
    <3>3. settings' \in SUBSET Attrs
      BY <1>9, <2>1 DEF Create
    <3>4. LoopBound'
      BY <1>9, <2>1 DEF Create
    <3> QED
      BY <1>9, <2>1, <3>1, <3>2, <3>3, <3>4 DEF Create
  <2>2. CASE ~(db = 0)
    BY <1>9, <2>2 DEF Create
  <2> QED
    BY <2>1, <2>2
<1>10. ASSUME NEW r \in Runs, RestoreOptions(r) PROVE TypeOK'
  <2>1. pc' \in [Runs -> PC] /\ outcome' \in [Runs -> Outcomes]
    BY <1>10 DEF RestoreOptions
  <2>2. settings' \in SUBSET Attrs
    BY <1>10 DEF RestoreOptions
  <2>3. LoopBound'
    BY <1>10 DEF RestoreOptions
  <2>4. UNCHANGED <<saved, db, born, configured, supported, backend, client, trace>>
    BY <1>10 DEF RestoreOptions
  <2> QED
    BY <2>1, <2>2, <2>3, <2>4
<1>11. ASSUME NEW r \in Runs, GiveUp(r) PROVE TypeOK'
  BY <1>11 DEF GiveUp
<1>12. ASSUME NEW r \in Runs, Connect(r) PROVE TypeOK'
  <2>1. saved' \in [Runs -> [present : BOOLEAN, attrs : SUBSET Attrs]]
    <3>1. NoSettings \in [present : BOOLEAN, attrs : SUBSET Attrs]
      BY DEF NoSettings
    <3> QED
      BY <1>12, <3>1 DEF Connect
  <2>2. pc' \in [Runs -> PC] /\ outcome' \in [Runs -> Outcomes]
    BY <1>12 DEF Connect
  <2>3. sess' \in [Runs -> Nat]
    BY <1>12 DEF Connect
  <2>4. conn' \in [Runs -> {"none", "open", "closed"}]
    BY <1>12 DEF Connect
  <2>5. LoopBound'
    BY <1>12 DEF Connect
  <2> QED
    BY <1>12, <2>1, <2>2, <2>3, <2>4, <2>5 DEF Connect
<1>13. ASSUME NEW r \in Runs, CheckServerVersion(r) PROVE TypeOK'
  BY <1>13 DEF CheckServerVersion
<1>14. ASSUME NEW r \in Runs, TryLock(r) PROVE TypeOK'
  <2>1. pc' \in [Runs -> PC] /\ outcome' \in [Runs -> Outcomes]
    BY <1>14 DEF TryLock
  <2>2. locked' \in SUBSET Runs
    BY <1>14 DEF TryLock
  <2>3. LoopBound'
    BY <1>14 DEF TryLock
  <2>4. UNCHANGED <<saved, cluster, probe, sess, doomed, client, trace>>
    BY <1>14 DEF TryLock
  <2> QED
    BY <2>1, <2>2, <2>3, <2>4
<1>15. ASSUME NEW r \in Runs, PrepareSessionTables(r) PROVE TypeOK'
  BY <1>15 DEF PrepareSessionTables
<1>16. ASSUME NEW r \in Runs, ExpandMacros(r) PROVE TypeOK'
  BY <1>16 DEF ExpandMacros
<1>17. ASSUME NEW r \in Runs, PreparationFails(r) PROVE TypeOK'
  BY <1>17 DEF PreparationFails
<1>18. ASSUME NEW r \in Runs, ExecUnit(r) PROVE TypeOK'
  <2>1. trace' \in Seq([run : Runs, inc : Nat])
    BY <1>18, AppliedType DEF ExecUnit
  <2>2. tx' \in [Runs -> {"I", "T", "E"}]
    BY <1>18 DEF ExecUnit
  <2>3. pc' \in [Runs -> PC] /\ outcome' \in [Runs -> Outcomes]
    <3>1. \/ Goto(r, "unlock") /\ outcome' = [outcome EXCEPT ![r] = "Success"]
          \/ Continue(r, "exec")
      BY <1>18 DEF ExecUnit
    <3> QED
      BY <3>1
  <2>4. unit[r] \in 0..(Units - 1) /\ unit' = [unit EXCEPT ![r] = unit[r] + 1]
    <3>1. unit[r] \in 0..Units /\ unit[r] # Units
      BY <1>18 DEF ExecUnit
    <3> QED
      BY <1>18, <3>1, UnitsPositive DEF ExecUnit
  <2>5. unit' \in [Runs -> 0..Units]
    BY <2>4, UnitsPositive
  <2>6. LoopBound'
    BY <1>18, <2>4, UnitsPositive DEF ExecUnit
  <2> QED
    BY <1>18, <2>1, <2>2, <2>3, <2>5, <2>6 DEF ExecUnit
<1>19. ASSUME NEW r \in Runs, UnitFails(r) PROVE TypeOK'
  BY <1>19 DEF UnitFails
<1>20. ASSUME NEW r \in Runs, BackendLost(r) PROVE TypeOK'
  BY <1>20 DEF Disconnect, BackendLost
<1>21. ASSUME NEW r \in Runs, Interrupt(r) PROVE TypeOK'
  <2>1. trace' \in Seq([run : Runs, inc : Nat]) /\ locked' \in SUBSET Runs
    BY <1>21, AppliedType DEF Disconnect, Interrupt, InFlight
  <2>2. pc' \in [Runs -> PC] /\ outcome' \in [Runs -> Outcomes]
    BY <1>21 DEF Disconnect, Interrupt
  <2>3. LoopBound'
    BY <1>21 DEF Disconnect, Interrupt
  <2> QED
    BY <1>21, <2>1, <2>2, <2>3 DEF Disconnect, Interrupt
<1>22. ASSUME NEW r \in Runs, Crash(r) PROVE TypeOK'
  <2>1. trace' \in Seq([run : Runs, inc : Nat]) /\ locked' \in SUBSET Runs
    BY <1>22, AppliedType DEF Disconnect, Crash, InFlight
  <2>2. pc' \in [Runs -> PC] /\ outcome' \in [Runs -> Outcomes]
    BY <1>22 DEF Disconnect, Crash
  <2> QED
    BY <1>22, <2>1, <2>2 DEF Disconnect, Crash
<1>23. ASSUME NEW r \in Runs, ReleaseDeployLock(r) PROVE TypeOK'
  <2>1. CASE Usable(r)
    <3>1. pc' \in [Runs -> PC] /\ outcome' \in [Runs -> Outcomes]
      BY <1>23, <2>1 DEF ReleaseDeployLock, AfterRollback
    <3>2. locked' \in SUBSET Runs
      BY <1>23, <2>1 DEF ReleaseDeployLock, AfterRollback
    <3>3. tx' \in [Runs -> {"I", "T", "E"}]
      BY <1>23, <2>1 DEF ReleaseDeployLock, AfterRollback
    <3> QED
      BY <1>23, <2>1, <3>1, <3>2, <3>3 DEF ReleaseDeployLock, AfterRollback
  <2>2. CASE ~(Usable(r))
    BY <1>23, <2>2 DEF ReleaseDeployLock, AfterRollback
  <2> QED
    BY <2>1, <2>2
<1>24. ASSUME NEW r \in Runs, Release(r) PROVE TypeOK'
  BY <1>24 DEF Disconnect, Release
<1>25. ASSUME NEW r \in Runs, Reap(r) PROVE TypeOK'
  BY <1>25 DEF Reap
<1>26. ASSUME NEW r \in Runs, ReapProbe(r) PROVE TypeOK'
  BY <1>26 DEF ReapProbe
<1> QED
  BY <1>1, <1>2, <1>3, <1>4, <1>5, <1>6, <1>7, <1>8, <1>9, <1>10, <1>11,
     <1>12, <1>13, <1>14, <1>15, <1>16, <1>17, <1>18, <1>19, <1>20, <1>21,
     <1>22, <1>23, <1>24, <1>25, <1>26
     DEF Next, Step, Fault, Server, Finished

(* Type correctness of the deploy model: every variable stays in its type  *)
(* through all the workflows, faults and server steps.                     *)
THEOREM TypeCorrect == Spec => []TypeOK
<1>1. Init => TypeOK
  BY UnitsPositive DEF Init, TypeOK, LoopBound, PC, Outcomes, NoSettings, Attrs
<1> QED
  BY <1>1, TypeStep, PTL DEF Spec

----------------------------------------------------------------------------
(* Steps that leave the backends, the lock and the trace alone, and do not *)
(* move a run past TryLock, keep LockInv.                                  *)
LEMMA QuietStep ==
  ASSUME TypeOK, LockInv, NEW r \in Runs, NEW l \in PC,
         Goto(r, l), UNCHANGED <<sess, locked, trace>>,
         l \in {"load", "expand", "exec"} => pc[r] \in {"load", "expand", "exec"},
         l \in BeforeLock => pc[r] \in BeforeLock
  PROVE  LockInv'
BY DEF TypeOK, LockInv, LockedHasBackend, LockExclusion, WorkHoldsLock,
       EarlyHoldsNothing, Goto

(* The statement in flight when a client goes away keeps LockInv, given    *)
(* where its run goes next.                                                *)
LEMMA InFlightStep ==
  ASSUME TypeOK, LockInv, NEW r \in Runs, NEW l \in PC,
         Goto(r, l), Usable(r), InFlight(r), UNCHANGED sess,
         l \notin BeforeLock, l \notin {"load", "expand", "exec"}
  PROVE  LockInv'
<1>1. trace' = Applied(r) =>
        \A k \in DOMAIN trace' :
          trace'[k].run = r \/ (k \in DOMAIN trace /\ trace'[k] = trace[k])
  BY AppliedEntries
<1> USE DEF TypeOK, LockInv, LockedHasBackend, LockExclusion, WorkHoldsLock,
            EarlyHoldsNothing, Goto, Usable
<1>2. CASE UNCHANGED <<locked, trace>>
  BY <1>2
<1>3. CASE LockFree(r) /\ locked' = locked \cup {r} /\ UNCHANGED trace
  BY <1>3 DEF LockFree
<1>4. CASE trace' = Applied(r) /\ UNCHANGED locked
  BY <1>1, <1>4
<1> QED
  BY <1>2, <1>3, <1>4 DEF InFlight

(* Every action of Deployment keeps the lock invariant.                    *)
LEMMA LockStep == TypeOK /\ LockInv /\ [Next]_vars => LockInv'
<1> SUFFICES ASSUME TypeOK, LockInv, [Next]_vars PROVE LockInv'
  OBVIOUS
<1> USE DEF PC, PreSession, InSession, BeforeLock, cluster, backend, client,
            Finish, Continue, FailTo, CleanupFrom
<1>1. CASE UNCHANGED vars
  BY <1>1 DEF vars, LockInv, LockedHasBackend, LockExclusion, WorkHoldsLock,
              EarlyHoldsNothing
<1>2. ASSUME NEW r \in Runs, Validate(r) PROVE LockInv'
  BY <1>2, QuietStep DEF Validate
<1>3. ASSUME NEW r \in Runs, Probe(r) PROVE LockInv'
  BY <1>3, QuietStep DEF Probe
<1>4. ASSUME NEW r \in Runs, Exists(r) PROVE LockInv'
  BY <1>4, QuietStep DEF Exists
<1>5. ASSUME NEW r \in Runs, Approve(r) PROVE LockInv'
  BY <1>5, QuietStep DEF Approve
<1>6. ASSUME NEW r \in Runs, Settings(r) PROVE LockInv'
  BY <1>6, QuietStep DEF Settings
<1>7. ASSUME NEW r \in Runs, TerminateConnections(r) PROVE LockInv'
  BY <1>7, QuietStep DEF TerminateConnections
<1>8. ASSUME NEW r \in Runs, Drop(r) PROVE LockInv'
  BY <1>8, QuietStep DEF Drop
<1>9. ASSUME NEW r \in Runs, Create(r) PROVE LockInv'
  BY <1>9, QuietStep DEF Create
<1>10. ASSUME NEW r \in Runs, RestoreOptions(r) PROVE LockInv'
  BY <1>10, QuietStep DEF RestoreOptions
<1>11. ASSUME NEW r \in Runs, GiveUp(r) PROVE LockInv'
  BY <1>11, QuietStep DEF GiveUp
<1>12. ASSUME NEW r \in Runs, Connect(r) PROVE LockInv'
  <2>1. CASE db # 0
    <3>1. /\ pc' = [pc EXCEPT ![r] = "version"]
          /\ sess' = [sess EXCEPT ![r] = db]
          /\ UNCHANGED <<locked, trace>>
      BY <1>12, <2>1 DEF Connect, Goto
    <3>2. r \notin locked /\ \A k \in DOMAIN trace : trace[k].run # r
      BY <1>12 DEF Connect, LockInv, EarlyHoldsNothing
    <3>3. LockedHasBackend' /\ LockExclusion'
      BY <3>1, <3>2 DEF TypeOK, LockInv, LockedHasBackend, LockExclusion
    <3>4. WorkHoldsLock' /\ EarlyHoldsNothing'
      BY <3>1, <3>2 DEF TypeOK, LockInv, WorkHoldsLock, EarlyHoldsNothing
    <3> QED
      BY <3>3, <3>4 DEF LockInv
  <2>2. CASE db = 0
    BY <1>12, <2>2, QuietStep DEF Connect
  <2> QED
    BY <2>1, <2>2
<1>13. ASSUME NEW r \in Runs, CheckServerVersion(r) PROVE LockInv'
  BY <1>13, QuietStep DEF CheckServerVersion
<1>14. ASSUME NEW r \in Runs, TryLock(r) PROVE LockInv'
  <2>1. CASE LockFree(r)
    <3>1. /\ pc' = [pc EXCEPT ![r] = "load"]
          /\ locked' = locked \cup {r}
          /\ sess[r] # 0
          /\ UNCHANGED <<sess, trace>>
      BY <1>14, <2>1 DEF TryLock, Usable, Goto
    <3>2. LockedHasBackend' /\ LockExclusion'
      BY <2>1, <3>1 DEF LockFree, LockInv, LockedHasBackend, LockExclusion
    <3>3. WorkHoldsLock' /\ EarlyHoldsNothing'
      BY <3>1 DEF TypeOK, LockInv, WorkHoldsLock, EarlyHoldsNothing
    <3> QED
      BY <3>2, <3>3 DEF LockInv
  <2>2. CASE ~LockFree(r)
    BY <1>14, <2>2, QuietStep DEF TryLock
  <2> QED
    BY <2>1, <2>2
<1>15. ASSUME NEW r \in Runs, PrepareSessionTables(r) PROVE LockInv'
  BY <1>15, QuietStep DEF PrepareSessionTables
<1>16. ASSUME NEW r \in Runs, ExpandMacros(r) PROVE LockInv'
  BY <1>16, QuietStep DEF ExpandMacros
<1>17. ASSUME NEW r \in Runs, PreparationFails(r) PROVE LockInv'
  BY <1>17, QuietStep DEF PreparationFails
<1>18. ASSUME NEW r \in Runs, ExecUnit(r) PROVE LockInv'
  <2>1. PICK l \in {"exec", "unlock"} : pc' = [pc EXCEPT ![r] = l]
    BY <1>18 DEF ExecUnit, Goto
  <2>2. trace' = Applied(r) /\ UNCHANGED <<sess, locked>> /\ pc[r] = "exec"
    BY <1>18 DEF ExecUnit
  <2>3. \A k \in DOMAIN trace' :
          trace'[k].run = r \/ (k \in DOMAIN trace /\ trace'[k] = trace[k])
    BY <2>2, AppliedEntries
  <2>4. EarlyHoldsNothing'
    BY <2>1, <2>2, <2>3 DEF TypeOK, LockInv, EarlyHoldsNothing
  <2> QED
    BY <2>1, <2>2, <2>4 DEF TypeOK, LockInv, LockedHasBackend, LockExclusion,
         WorkHoldsLock
<1>19. ASSUME NEW r \in Runs, UnitFails(r) PROVE LockInv'
  BY <1>19, QuietStep DEF UnitFails
<1>20. ASSUME NEW r \in Runs, BackendLost(r) PROVE LockInv'
  BY <1>20, QuietStep DEF Disconnect, BackendLost
<1>21. ASSUME NEW r \in Runs, Interrupt(r) PROVE LockInv'
  BY <1>21, InFlightStep DEF Disconnect, Interrupt
<1>22. ASSUME NEW r \in Runs, Crash(r) PROVE LockInv'
  <2>1. CASE Usable(r)
    BY <1>22, <2>1, InFlightStep DEF Disconnect, Crash
  <2>2. CASE ~Usable(r)
    BY <1>22, <2>2, QuietStep DEF Disconnect, Crash
  <2> QED
    BY <2>1, <2>2
<1>23. ASSUME NEW r \in Runs, ReleaseDeployLock(r) PROVE LockInv'
  BY <1>23 DEF ReleaseDeployLock, Goto, TypeOK, LockInv, LockedHasBackend,
       LockExclusion, WorkHoldsLock, EarlyHoldsNothing
<1>24. ASSUME NEW r \in Runs, Release(r) PROVE LockInv'
  BY <1>24, QuietStep DEF Disconnect, Release
<1>25. ASSUME NEW r \in Runs, Reap(r) PROVE LockInv'
  BY <1>25 DEF Reap, TypeOK, LockInv, LockedHasBackend, LockExclusion,
       WorkHoldsLock, EarlyHoldsNothing
<1>26. ASSUME NEW r \in Runs, ReapProbe(r) PROVE LockInv'
  BY <1>26 DEF ReapProbe, LockInv, LockedHasBackend, LockExclusion,
       WorkHoldsLock, EarlyHoldsNothing
<1> QED
  BY <1>1, <1>2, <1>3, <1>4, <1>5, <1>6, <1>7, <1>8, <1>9, <1>10, <1>11,
     <1>12, <1>13, <1>14, <1>15, <1>16, <1>17, <1>18, <1>19, <1>20, <1>21,
     <1>22, <1>23, <1>24, <1>25, <1>26
     DEF Next, Step, Fault, Server, Finished

(* The deploy lock excludes: no two backends of one incarnation hold it,   *)
(* and whoever executes deploy.sql on a live backend holds it, through     *)
(* interrupts, crashes, terminations and overwrites.                       *)
THEOREM LockInvariant == Spec => []LockInv
<1>1. Init => LockInv
  BY DEF Init, LockInv, LockedHasBackend, LockExclusion, WorkHoldsLock,
         EarlyHoldsNothing
<1> QED
  BY <1>1, TypeCorrect, LockStep, PTL DEF Spec

----------------------------------------------------------------------------
(* The implementation of the abstract lock                                 *)

(* What leaves backends, lock and trace alone is a stutter of the abstract *)
(* specification.                                                          *)
LEMMA QuietStutters ==
  ASSUME UNCHANGED <<sess, locked, trace>>
  PROVE  UNCHANGED Abstract!vars
BY DEF Abstract!vars, at

(* Taking the lock on a live backend, when it is free, is an abstract      *)
(* entry.                                                                  *)
LEMMA TakingEnters ==
  ASSUME TypeOK, LockInv, NEW r \in Runs, pc[r] = "lock", Usable(r), LockFree(r),
         locked' = locked \cup {r}, UNCHANGED <<sess, trace>>
  PROVE  Abstract!Enter(r)
<1>1. r \notin locked /\ sess[r] # 0 /\ \A k \in DOMAIN trace : trace[k].run # r
  BY DEF LockInv, EarlyHoldsNothing, BeforeLock, Usable
<1>2. at' = [at EXCEPT ![r] = sess[r]] /\ at[r] = 0 /\ at'[r] = sess[r]
  BY <1>1 DEF at, TypeOK
<1>3. \A s \in Runs \ {r} : at[s] # sess[r]
  BY <1>1 DEF at, LockFree
<1>4. sess[r] \in Nat \ {0}
  BY <1>1 DEF TypeOK
<1> QED
  BY <1>1, <1>2, <1>3, <1>4 DEF Abstract!Enter, Abstract!HasWritten

(* Applying a unit on a live backend is an abstract write.                 *)
LEMMA ApplyingWrites ==
  ASSUME TypeOK, LockInv, NEW r \in Runs, pc[r] = "exec", Usable(r),
         trace' = Applied(r), UNCHANGED <<sess, locked>>
  PROVE  Abstract!Write(r)
<1>1. r \in locked /\ sess[r] # 0
  BY DEF LockInv, WorkHoldsLock, Usable
<1>2. at[r] = sess[r] /\ at' = at
  BY <1>1 DEF at
<1> QED
  BY <1>1, <1>2 DEF Abstract!Write, Applied

(* Giving the lock up is an abstract exit, and a no-op for a run that does *)
(* not hold it; its backend may go at the same moment.                     *)
LEMMA GivingUpLeaves ==
  ASSUME TypeOK, LockInv, NEW r \in Runs, locked' = locked \ {r}, UNCHANGED trace,
         \A s \in Runs \ {r} : sess'[s] = sess[s]
  PROVE  Abstract!Leave(r) \/ UNCHANGED Abstract!vars
<1>1. at' = [at EXCEPT ![r] = 0]
  BY DEF at, TypeOK
<1>2. CASE r \in locked
  <2>1. at[r] # 0
    BY <1>2 DEF at, LockInv, LockedHasBackend
  <2> QED
    BY <1>1, <2>1 DEF Abstract!Leave
<1>3. CASE r \notin locked
  <2>1. at' = at
    BY <1>1, <1>3 DEF at
  <2> QED
    BY <2>1 DEF Abstract!vars
<1> QED
  BY <1>2, <1>3

(* A statement in flight is an abstract entry, an abstract write, or       *)
(* nothing.                                                                *)
LEMMA InFlightRefines ==
  ASSUME TypeOK, LockInv, NEW r \in Runs, Usable(r), InFlight(r), UNCHANGED sess
  PROVE  Abstract!Next \/ UNCHANGED Abstract!vars
<1>1. CASE UNCHANGED <<locked, trace>>
  BY <1>1, QuietStutters
<1>2. CASE pc[r] = "lock" /\ LockFree(r) /\ locked' = locked \cup {r} /\ UNCHANGED trace
  BY <1>2, TakingEnters DEF Abstract!Next
<1>3. CASE pc[r] = "exec" /\ trace' = Applied(r) /\ UNCHANGED locked
  BY <1>3, ApplyingWrites DEF Abstract!Next
<1> QED
  BY <1>1, <1>2, <1>3 DEF InFlight

(* Every step of Deployment is a step or a stutter of ExclusiveDeploy.     *)
LEMMA RefinementStep ==
  TypeOK /\ LockInv /\ [Next]_vars => [Abstract!Next]_(Abstract!vars)
<1> SUFFICES ASSUME TypeOK, LockInv, [Next]_vars
             PROVE  Abstract!Next \/ UNCHANGED Abstract!vars
  OBVIOUS
<1> USE DEF cluster, backend, client
<1>1. ASSUME NEW r \in Runs,
             \/ Validate(r) \/ Probe(r) \/ Exists(r) \/ Approve(r) \/ Settings(r)
             \/ TerminateConnections(r) \/ Drop(r) \/ Create(r)
             \/ RestoreOptions(r) \/ GiveUp(r) \/ CheckServerVersion(r)
             \/ PrepareSessionTables(r) \/ ExpandMacros(r)
             \/ PreparationFails(r) \/ UnitFails(r) \/ BackendLost(r)
             \/ Release(r) \/ ReapProbe(r)
      PROVE  UNCHANGED Abstract!vars
  <2>1. UNCHANGED <<sess, locked, trace>>
    BY <1>1 DEF Validate, Probe, Exists, Approve, Settings,
       TerminateConnections, Drop, Create, RestoreOptions, GiveUp,
       CheckServerVersion, PrepareSessionTables, ExpandMacros,
       PreparationFails, UnitFails, BackendLost, Release, ReapProbe
  <2> QED
    BY <2>1, QuietStutters
<1>2. ASSUME NEW r \in Runs, Connect(r) PROVE UNCHANGED Abstract!vars
  <2>1. r \notin locked
    BY <1>2 DEF Connect, LockInv, EarlyHoldsNothing, BeforeLock, PreSession
  <2>2. UNCHANGED <<locked, trace>> /\ \A s \in Runs \ {r} : sess'[s] = sess[s]
    BY <1>2 DEF Connect, TypeOK
  <2>3. at' = at
    BY <2>1, <2>2 DEF at
  <2> QED
    BY <2>2, <2>3 DEF Abstract!vars
<1>3. ASSUME NEW r \in Runs, TryLock(r) PROVE Abstract!Next \/ UNCHANGED Abstract!vars
  <2>1. CASE LockFree(r)
    BY <1>3, <2>1, TakingEnters DEF TryLock, Abstract!Next
  <2>2. CASE ~LockFree(r)
    BY <1>3, <2>2, QuietStutters DEF TryLock
  <2> QED
    BY <2>1, <2>2
<1>4. ASSUME NEW r \in Runs, ExecUnit(r) PROVE Abstract!Next
  BY <1>4, ApplyingWrites DEF ExecUnit, Abstract!Next
<1>5. ASSUME NEW r \in Runs, Interrupt(r) PROVE Abstract!Next \/ UNCHANGED Abstract!vars
  BY <1>5, InFlightRefines DEF Disconnect, Interrupt
<1>6. ASSUME NEW r \in Runs, Crash(r) PROVE Abstract!Next \/ UNCHANGED Abstract!vars
  <2>1. CASE Usable(r)
    BY <1>6, <2>1, InFlightRefines DEF Disconnect, Crash
  <2>2. CASE ~Usable(r)
    BY <1>6, <2>2, QuietStutters DEF Disconnect, Crash
  <2> QED
    BY <2>1, <2>2
<1>7. ASSUME NEW r \in Runs, ReleaseDeployLock(r)
      PROVE  Abstract!Next \/ UNCHANGED Abstract!vars
  <2>1. UNCHANGED <<sess, trace>> /\ (locked' = locked \/ locked' = locked \ {r})
    BY <1>7 DEF ReleaseDeployLock
  <2> QED
    BY <2>1, QuietStutters, GivingUpLeaves DEF Abstract!Next
<1>8. ASSUME NEW r \in Runs, Reap(r) PROVE Abstract!Next \/ UNCHANGED Abstract!vars
  <2>1. locked' = locked \ {r} /\ UNCHANGED trace
        /\ \A s \in Runs \ {r} : sess'[s] = sess[s]
    BY <1>8 DEF Reap, TypeOK
  <2> QED
    BY <2>1, GivingUpLeaves DEF Abstract!Next
<1>9. CASE UNCHANGED vars
  BY <1>9, QuietStutters DEF vars
<1> QED
  BY <1>1, <1>2, <1>3, <1>4, <1>5, <1>6, <1>7, <1>8, <1>9
     DEF Next, Step, Fault, Server, Finished

(* Every entry of the trace names a run.                                   *)
LEMMA AbstractEntryType ==
  ASSUME Abstract!TypeOK
  PROVE  \A k \in DOMAIN trace : trace[k].run \in Runs
<1> DEFINE E == [run : Runs, inc : Nat \ {0}]
<1>1. trace \in Seq(E)
  BY DEF Abstract!TypeOK
<1>2. \A k \in DOMAIN trace : trace[k] \in E
  <2> HIDE DEF E
  <2> QED
    BY <1>1, LenProperties
<1> QED
  BY <1>2

(* Writing extends the trace by one entry of the run that writes.          *)
LEMMA AbstractWriteEntries ==
  ASSUME Abstract!TypeOK, NEW r \in Runs, Abstract!Write(r)
  PROVE  /\ Len(trace) \in Nat
         /\ DOMAIN trace' = 1..(Len(trace) + 1) /\ DOMAIN trace = 1..Len(trace)
         /\ trace'[Len(trace) + 1] = [run |-> r, inc |-> at[r]]
         /\ \A k \in DOMAIN trace : trace'[k] = trace[k]
BY DEF Abstract!TypeOK, Abstract!Write

(* Each step of the abstract lock keeps its inductive invariant.           *)
LEMMA AbstractStep == Abstract!IInv /\ [Abstract!Next]_(Abstract!vars) => Abstract!IInv'
<1> SUFFICES ASSUME Abstract!IInv, [Abstract!Next]_(Abstract!vars) PROVE Abstract!IInv'
  OBVIOUS
<1> USE DEF Abstract!IInv
<1>1. CASE UNCHANGED Abstract!vars
  BY <1>1 DEF Abstract!vars, Abstract!TypeOK, Abstract!Exclusive, Abstract!InsideWritesHere, Abstract!NoneSince,
              Abstract!SerialScripts, Abstract!OneIncarnation
<1>2. ASSUME NEW r \in Runs, Abstract!Enter(r) PROVE Abstract!IInv'
  <2>1. \A k \in DOMAIN trace : trace[k].run \in Runs /\ trace[k].run # r
    BY <1>2, AbstractEntryType DEF Abstract!Enter, Abstract!HasWritten
  <2>2. Abstract!TypeOK' /\ Abstract!Exclusive'
    BY <1>2 DEF Abstract!Enter, Abstract!TypeOK, Abstract!Exclusive
  <2>3. Abstract!InsideWritesHere' /\ Abstract!NoneSince'
    BY <1>2, <2>1 DEF Abstract!Enter, Abstract!TypeOK, Abstract!InsideWritesHere, Abstract!NoneSince
  <2>4. Abstract!SerialScripts' /\ Abstract!OneIncarnation'
    BY <1>2 DEF Abstract!Enter, Abstract!SerialScripts, Abstract!OneIncarnation
  <2> QED
    BY <2>2, <2>3, <2>4
<1>3. ASSUME NEW r \in Runs, Abstract!Write(r) PROVE Abstract!IInv'
  <2>1. at[r] # 0 /\ at' = at
    BY <1>3 DEF Abstract!Write
  <2> DEFINE n == Len(trace) + 1
  <2>2. /\ DOMAIN trace' = DOMAIN trace \cup {n}
        /\ DOMAIN trace \subseteq Nat /\ n \in Nat
        /\ \A k \in DOMAIN trace : k < n
        /\ trace'[n].run = r /\ trace'[n].inc = at[r]
        /\ \A k \in DOMAIN trace : trace'[k] = trace[k] /\ trace[k].run \in Runs
    <3>1. /\ Len(trace) \in Nat
          /\ DOMAIN trace' = 1..n /\ DOMAIN trace = 1..Len(trace)
          /\ \A k \in DOMAIN trace : trace'[k] = trace[k]
      BY <1>3, AbstractWriteEntries
    <3>2. trace'[n] = [run |-> r, inc |-> at[r]]
      BY <1>3, AbstractWriteEntries
    <3>3. trace'[n].run = r /\ trace'[n].inc = at[r]
      <4> HIDE DEF n
      <4> QED
        BY <3>2
    <3>4. \A k \in DOMAIN trace : trace[k].run \in Runs
      BY AbstractEntryType
    <3> QED
      BY <3>1, <3>3, <3>4
  <2> HIDE DEF n
  <2>3. Abstract!TypeOK' /\ Abstract!Exclusive'
    BY <1>3 DEF Abstract!Write, Abstract!TypeOK, Abstract!Exclusive
  <2>4. Abstract!InsideWritesHere'
    BY <2>1, <2>2 DEF Abstract!InsideWritesHere
  <2>5. Abstract!NoneSince'
    BY <2>1, <2>2 DEF Abstract!NoneSince, Abstract!InsideWritesHere, Abstract!Exclusive
  <2>6. Abstract!OneIncarnation'
    BY <2>1, <2>2 DEF Abstract!OneIncarnation, Abstract!InsideWritesHere
  <2>7. Abstract!SerialScripts'
    BY <2>1, <2>2 DEF Abstract!SerialScripts, Abstract!NoneSince
  <2> QED
    BY <2>3, <2>4, <2>5, <2>6, <2>7
<1>4. ASSUME NEW r \in Runs, Abstract!Leave(r) PROVE Abstract!IInv'
  <2>1. \A k \in DOMAIN trace : trace[k].run \in Runs
    BY AbstractEntryType
  <2> QED
    BY <1>4, <2>1 DEF Abstract!Leave, Abstract!TypeOK, Abstract!Exclusive, Abstract!InsideWritesHere, Abstract!NoneSince,
                      Abstract!SerialScripts, Abstract!OneIncarnation
<1> QED
  BY <1>1, <1>2, <1>3, <1>4 DEF Abstract!Next

(* The abstract lock serialises scripts: whoever enters alone and writes   *)
(* only while inside never has its units split by another run's.           *)
THEOREM SerialHolds == Abstract!Spec => [](Abstract!SerialScripts /\ Abstract!OneIncarnation)
<1>1. Abstract!Init => Abstract!IInv
  BY DEF Abstract!Init, Abstract!IInv, Abstract!TypeOK, Abstract!Exclusive, Abstract!InsideWritesHere, Abstract!NoneSince,
         Abstract!SerialScripts, Abstract!OneIncarnation
<1>2. Abstract!IInv => Abstract!SerialScripts /\ Abstract!OneIncarnation
  BY DEF Abstract!IInv
<1> QED
  BY <1>1, <1>2, AbstractStep, PTL DEF Abstract!Spec

(* The deploy processes implement the abstract lock: initial states map to *)
(* initial states and every step to a step or a stutter.                   *)
THEOREM Refinement == Spec => ExclusiveDeploySpec
<1>1. Init => Abstract!Init
  BY DEF Init, Abstract!Init, at
<1> QED
  BY <1>1, TypeCorrect, LockInvariant, RefinementStep, PTL
     DEF Spec, ExclusiveDeploySpec, Abstract!Spec

(* Scripts are serial on every incarnation of the database: the abstract   *)
(* theorem, carried over by the refinement.                                *)
THEOREM ScriptsAreSerial == Spec => []SerialScripts
<1>1. Abstract!SerialScripts => SerialScripts
  BY DEF Abstract!SerialScripts, SerialScripts
<1>2. Abstract!Spec => [](Abstract!SerialScripts /\ Abstract!OneIncarnation)
  BY SerialHolds
<1> QED
  BY <1>1, <1>2, Refinement, PTL DEF ExclusiveDeploySpec

----------------------------------------------------------------------------
(* The way out                                                             *)

(* Every action of Deployment keeps the property that a healthy connection *)
(* is closed without the lock.                                             *)
LEMMA WayOutStep ==
  TypeOK /\ LockInv /\ LockDiesWithRun /\ [Next]_vars => LockDiesWithRun'
<1> SUFFICES ASSUME TypeOK, LockInv, LockDiesWithRun, [Next]_vars
             PROVE  LockDiesWithRun'
  OBVIOUS
<1> USE DEF cluster, backend, client, Goto, Finish, Continue, LockDiesWithRun
<1>1. CASE UNCHANGED vars
  BY <1>1 DEF vars
<1>2. ASSUME NEW r \in Runs,
             \/ Validate(r) \/ Probe(r) \/ Exists(r) \/ Approve(r) \/ Settings(r)
             \/ TerminateConnections(r) \/ Drop(r) \/ Create(r)
             \/ RestoreOptions(r) \/ GiveUp(r) \/ Connect(r)
             \/ PrepareSessionTables(r) \/ ExpandMacros(r) \/ ExecUnit(r)
      PROVE  LockDiesWithRun'
  <2>1. /\ locked' = locked /\ doomed \subseteq doomed'
        /\ \A s \in Runs \ {r} : pc'[s] = pc[s] /\ conn'[s] = conn[s]
    BY <1>2 DEF TypeOK, Validate, Probe, Exists, Approve, Settings,
       TerminateConnections, Drop, Create, RestoreOptions, GiveUp, Connect,
       PrepareSessionTables, ExpandMacros, ExecUnit
  <2>2. pc'[r] # "release"
    BY <1>2 DEF TypeOK, Validate, Probe, Exists, Approve, Settings,
       TerminateConnections, Drop, Create, RestoreOptions, GiveUp, Connect,
       PrepareSessionTables, ExpandMacros, ExecUnit
  <2> QED
    BY <2>1, <2>2
<1>3. ASSUME NEW r \in Runs,
             \/ CheckServerVersion(r) \/ PreparationFails(r) \/ UnitFails(r)
      PROVE  LockDiesWithRun'
  <2>1. /\ UNCHANGED <<locked, doomed, conn>>
        /\ \A s \in Runs \ {r} : pc'[s] = pc[s]
    BY <1>3 DEF TypeOK, CheckServerVersion, PreparationFails, UnitFails, FailTo
  <2>2. pc'[r] = "release" => pc[r] \in BeforeLock
    BY <1>3 DEF TypeOK, CheckServerVersion, PreparationFails, UnitFails, FailTo,
       CleanupFrom, BeforeLock
  <2> QED
    BY <2>1, <2>2 DEF LockInv, EarlyHoldsNothing
<1>4. ASSUME NEW r \in Runs, TryLock(r) PROVE LockDiesWithRun'
  <2>1. /\ UNCHANGED <<doomed, conn>> /\ locked' \subseteq locked \cup {r}
        /\ \A s \in Runs \ {r} : pc'[s] = pc[s]
    BY <1>4 DEF TryLock, TypeOK, FailTo
  <2>2. r \notin locked
    BY <1>4 DEF TryLock, LockInv, EarlyHoldsNothing, BeforeLock
  <2>3. pc'[r] = "load" \/ locked' = locked
    BY <1>4 DEF TryLock, TypeOK
  <2> QED
    BY <2>1, <2>2, <2>3
<1>5. ASSUME NEW r \in Runs, BackendLost(r) \/ Release(r) PROVE LockDiesWithRun'
  BY <1>5 DEF BackendLost, Release, Disconnect, TypeOK, FailTo
<1>6. ASSUME NEW r \in Runs, Interrupt(r) \/ Crash(r) PROVE LockDiesWithRun'
  <2>1. /\ conn'[r] = "closed" /\ UNCHANGED doomed
        /\ \A s \in Runs \ {r} : pc'[s] = pc[s] /\ conn'[s] = conn[s]
    BY <1>6 DEF Interrupt, Crash, Disconnect, TypeOK, FailTo
  <2>2. locked' \subseteq locked \cup {r}
    BY <1>6 DEF Interrupt, Crash, InFlight
  <2> QED
    BY <2>1, <2>2
<1>7. ASSUME NEW r \in Runs, ReleaseDeployLock(r) PROVE LockDiesWithRun'
  <2>1. CASE Usable(r)
    <3>1. tx'[r] = "I"
      BY <1>7, <2>1 DEF ReleaseDeployLock, AfterRollback, TypeOK
    <3> QED
      BY <1>7, <2>1, <3>1 DEF ReleaseDeployLock, TypeOK
  <2>2. CASE ~Usable(r)
    BY <1>7, <2>2 DEF ReleaseDeployLock, TypeOK, LockInv, LockedHasBackend
  <2> QED
    BY <2>1, <2>2
<1>8. ASSUME NEW r \in Runs, Reap(r) \/ ReapProbe(r) PROVE LockDiesWithRun'
  BY <1>8 DEF Reap, ReapProbe, TypeOK
<1> QED
  BY <1>1, <1>2, <1>3, <1>4, <1>5, <1>6, <1>7, <1>8
     DEF Next, Step, Fault, Server, Finished

(* No path out of session preparation or of the script closes a healthy    *)
(* connection that still holds the deploy lock.                            *)
THEOREM LockReleasedOnWayOut == Spec => []LockDiesWithRun
<1>1. Init => LockDiesWithRun
  BY DEF Init, LockDiesWithRun
<1> QED
  BY <1>1, TypeCorrect, LockInvariant, WayOutStep, PTL DEF Spec

----------------------------------------------------------------------------
(* What success means                                                      *)

(* The loop counter tells the truth while the loop runs: a run that has    *)
(* not reached its script has written nothing, a run inside it has written *)
(* as many units as it counted, and only a run that has left it for good   *)
(* carries an outcome, Success after all its units.                        *)
Working == BeforeLock \cup {"load", "expand", "exec"}

Progress ==
  \A r \in Runs :
    /\ pc[r] \in Working => outcome[r] = "none"
    /\ pc[r] \in Working \ {"exec"} => unit[r] = 0
    /\ pc[r] \in Working => Cardinality(UnitsOf(r)) = unit[r]
    /\ outcome[r] = "Success" => Cardinality(UnitsOf(r)) = Units

(* The units of a run are finitely many; applying one adds one to its own  *)
(* and leaves those of the others alone.                                   *)
LEMMA Counting ==
  ASSUME TypeOK, NEW r \in Runs, trace' = Applied(r)
  PROVE  /\ Cardinality(UnitsOf(r)') = Cardinality(UnitsOf(r)) + 1
         /\ \A s \in Runs \ {r} : UnitsOf(s)' = UnitsOf(s)
<1> DEFINE e == [run |-> r, inc |-> sess[r]]
           n == Len(trace)
<1>1. trace \in Seq([run : Runs, inc : Nat]) /\ e \in [run : Runs, inc : Nat]
  BY DEF TypeOK
<1>2. trace' = Append(trace, e) /\ e.run = r
  BY DEF Applied
<1> HIDE DEF e
<1>3. /\ DOMAIN trace = 1..n /\ n \in Nat
      /\ DOMAIN trace' = 1..(n + 1) /\ trace'[n + 1] = e
      /\ \A k \in 1..n : trace'[k] = trace[k]
  BY <1>1, <1>2
<1> HIDE DEF n
<1>4. UnitsOf(r)' = UnitsOf(r) \cup {n + 1}
  BY <1>2, <1>3 DEF UnitsOf
<1>5. n + 1 \notin UnitsOf(r) /\ UnitsOf(r) \subseteq 1..n
  BY <1>3 DEF UnitsOf
<1>6. IsFiniteSet(UnitsOf(r))
  <2>1. IsFiniteSet(1..n)
    BY <1>3, FS_Interval
  <2> QED
    BY <1>5, <2>1, FS_Subset
<1>7. \A s \in Runs \ {r} : UnitsOf(s)' = UnitsOf(s)
  BY <1>2, <1>3 DEF UnitsOf
<1> QED
  BY <1>4, <1>5, <1>6, <1>7, FS_AddElement

(* Steps that write nothing and count nothing keep Progress, given that a  *)
(* run enters the script only from before it and reports no success.       *)
LEMMA NoWriteStep ==
  ASSUME TypeOK, Progress, NEW r \in Runs, NEW l \in PC, NEW o \in Outcomes,
         Goto(r, l), outcome' = [outcome EXCEPT ![r] = o],
         UNCHANGED <<unit, trace>>,
         l \in Working => pc[r] \in Working /\ o = outcome[r],
         l \in Working \ {"exec"} => pc[r] \in Working \ {"exec"},
         o = "Success" => outcome[r] = "Success"
  PROVE  Progress'
<1>1. /\ pc'[r] = l /\ outcome'[r] = o
      /\ \A s \in Runs \ {r} : pc'[s] = pc[s] /\ outcome'[s] = outcome[s]
  BY DEF TypeOK, Goto
<1>2. \A s \in Runs : UnitsOf(s)' = UnitsOf(s) /\ unit'[s] = unit[s]
  BY DEF UnitsOf
<1> QED
  BY <1>1, <1>2 DEF Progress

(* Every action of Deployment keeps Progress.                              *)
LEMMA ProgressStep == TypeOK /\ Progress /\ [Next]_vars => Progress'
<1> SUFFICES ASSUME TypeOK, Progress, [Next]_vars PROVE Progress'
  OBVIOUS
<1>1. \A r \in Runs : /\ pc[r] \in PC /\ outcome[r] \in Outcomes
                      /\ outcome = [outcome EXCEPT ![r] = outcome[r]]
                      /\ pc[r] \in Working => outcome[r] = "none"
  BY DEF TypeOK, Progress
<1> USE DEF PC, PreSession, InSession, BeforeLock, Working, Outcomes, cluster,
            backend, client, Finish, Continue, FailTo, CleanupFrom
<1>2. CASE UNCHANGED vars
  BY <1>2 DEF vars, Progress, UnitsOf
<1>3. ASSUME NEW r \in Runs, Validate(r) PROVE Progress'
  BY <1>1, <1>3, NoWriteStep DEF Validate
<1>4. ASSUME NEW r \in Runs, Probe(r) PROVE Progress'
  BY <1>1, <1>4, NoWriteStep DEF Probe
<1>5. ASSUME NEW r \in Runs, Exists(r) PROVE Progress'
  BY <1>1, <1>5, NoWriteStep DEF Exists
<1>6. ASSUME NEW r \in Runs, Approve(r) PROVE Progress'
  BY <1>1, <1>6, NoWriteStep DEF Approve
<1>7. ASSUME NEW r \in Runs, Settings(r) PROVE Progress'
  BY <1>1, <1>7, NoWriteStep DEF Settings
<1>8. ASSUME NEW r \in Runs, TerminateConnections(r) PROVE Progress'
  BY <1>1, <1>8, NoWriteStep DEF TerminateConnections
<1>9. ASSUME NEW r \in Runs, Drop(r) PROVE Progress'
  BY <1>1, <1>9, NoWriteStep DEF Drop
<1>10. ASSUME NEW r \in Runs, Create(r) PROVE Progress'
  BY <1>1, <1>10, NoWriteStep DEF Create
<1>11. ASSUME NEW r \in Runs, RestoreOptions(r) PROVE Progress'
  BY <1>1, <1>11, NoWriteStep DEF RestoreOptions
<1>12. ASSUME NEW r \in Runs, GiveUp(r) PROVE Progress'
  BY <1>1, <1>12, NoWriteStep DEF GiveUp
<1>13. ASSUME NEW r \in Runs, Connect(r) PROVE Progress'
  BY <1>1, <1>13, NoWriteStep DEF Connect
<1>14. ASSUME NEW r \in Runs, CheckServerVersion(r) PROVE Progress'
  BY <1>1, <1>14, NoWriteStep DEF CheckServerVersion
<1>15. ASSUME NEW r \in Runs, TryLock(r) PROVE Progress'
  BY <1>1, <1>15, NoWriteStep DEF TryLock
<1>16. ASSUME NEW r \in Runs, PrepareSessionTables(r) PROVE Progress'
  BY <1>1, <1>16, NoWriteStep DEF PrepareSessionTables
<1>17. ASSUME NEW r \in Runs, ExpandMacros(r) PROVE Progress'
  BY <1>1, <1>17, NoWriteStep DEF ExpandMacros
<1>18. ASSUME NEW r \in Runs, PreparationFails(r) PROVE Progress'
  BY <1>1, <1>18, NoWriteStep DEF PreparationFails
<1>19. ASSUME NEW r \in Runs, ExecUnit(r) PROVE Progress'
  <2>1. /\ Cardinality(UnitsOf(r)') = Cardinality(UnitsOf(r)) + 1
        /\ \A s \in Runs \ {r} : UnitsOf(s)' = UnitsOf(s)
    BY <1>19, Counting DEF ExecUnit
  <2>2. /\ pc[r] = "exec" /\ Cardinality(UnitsOf(r)) = unit[r]
        /\ unit'[r] = unit[r] + 1
    BY <1>19 DEF ExecUnit, TypeOK, Progress
  <2>3. \/ pc'[r] = "exec" /\ outcome'[r] = "none"
        \/ pc'[r] = "unlock" /\ unit[r] + 1 = Units
    BY <1>1, <1>19 DEF ExecUnit, TypeOK, Goto
  <2>4. \A s \in Runs \ {r} :
          pc'[s] = pc[s] /\ outcome'[s] = outcome[s] /\ unit'[s] = unit[s]
    BY <1>19 DEF ExecUnit, TypeOK, Goto
  <2> QED
    BY <1>1, <2>1, <2>2, <2>3, <2>4 DEF Progress
<1>20. ASSUME NEW r \in Runs, UnitFails(r) PROVE Progress'
  BY <1>1, <1>20, NoWriteStep DEF UnitFails
<1>21. ASSUME NEW r \in Runs, BackendLost(r) PROVE Progress'
  BY <1>1, <1>21, NoWriteStep DEF BackendLost
<1>22. ASSUME NEW r \in Runs, Interrupt(r) \/ Crash(r) PROVE Progress'
  <2>1. CASE UNCHANGED trace
    BY <1>1, <1>22, <2>1, NoWriteStep DEF Interrupt, Crash
  <2>2. CASE pc[r] = "exec" /\ trace' = Applied(r)
    <3>1. \A s \in Runs \ {r} : UnitsOf(s)' = UnitsOf(s)
      BY <2>2, Counting
    <3>2. pc'[r] \in {"unlock", "done"} /\ outcome'[r] \in {"ExecutionFailed", "Crashed"}
      BY <1>22, <2>2 DEF Interrupt, Crash, TypeOK, Goto
    <3>3. \A s \in Runs \ {r} :
            pc'[s] = pc[s] /\ outcome'[s] = outcome[s] /\ unit'[s] = unit[s]
      BY <1>22 DEF Interrupt, Crash, TypeOK, Goto
    <3> QED
      BY <3>1, <3>2, <3>3 DEF Progress
  <2> QED
    BY <1>22, <2>1, <2>2 DEF Interrupt, Crash, InFlight
<1>23. ASSUME NEW r \in Runs, ReleaseDeployLock(r) PROVE Progress'
  BY <1>1, <1>23, NoWriteStep DEF ReleaseDeployLock
<1>24. ASSUME NEW r \in Runs, Release(r) PROVE Progress'
  BY <1>1, <1>24, NoWriteStep DEF Release
<1>25. ASSUME NEW r \in Runs, Reap(r) \/ ReapProbe(r) PROVE Progress'
  BY <1>25 DEF Reap, ReapProbe, Progress, UnitsOf
<1> QED
  BY <1>2, <1>3, <1>4, <1>5, <1>6, <1>7, <1>8, <1>9, <1>10, <1>11, <1>12, <1>13,
     <1>14, <1>15, <1>16, <1>17, <1>18, <1>19, <1>20, <1>21, <1>22, <1>23, <1>24,
     <1>25
     DEF Next, Step, Fault, Server, Finished

(* Progress holds in every reachable state.                                *)
LEMMA ProgressHolds == Spec => []Progress
<1>1. Init => Progress
  BY FS_EmptySet DEF Init, Progress, UnitsOf
<1> QED
  BY <1>1, TypeCorrect, ProgressStep, PTL DEF Spec

(* A run that reports success applied each of its units exactly once, all  *)
(* to one incarnation: the count comes from Progress, the incarnation from *)
(* the abstract lock.                                                      *)
THEOREM SuccessComplete == Spec => []SuccessIsComplete
<1>1. Progress /\ Abstract!OneIncarnation => SuccessIsComplete
  BY DEF Progress, SuccessIsComplete, Abstract!OneIncarnation, UnitsOf
<1>2. Abstract!Spec => [](Abstract!SerialScripts /\ Abstract!OneIncarnation)
  BY SerialHolds
<1> QED
  BY <1>1, <1>2, ProgressHolds, Refinement, PTL DEF ExclusiveDeploySpec
----------------------------------------------------------------------------
(* What an overwrite keeps                                                 *)

(* A run has failed for good: no later step turns it into a success.       *)
HasFailed(r) == outcome[r] \notin {"none", "Success"}

(* What each run carries: nothing before it has read the settings, all     *)
(* that was configured from the reading to the last ALTER.                 *)
Carries ==
  \A r \in Runs :
    /\ pc[r] \in {"start", "probe", "exists", "approve", "settings"} => saved[r] = NoSettings
    /\ ~saved[r].present => saved[r] = NoSettings
    /\ pc[r] \in {"terminate", "drop", "alter"} => saved[r].present
    /\ pc[r] \in {"terminate", "drop"} \/ Restoring(r) => saved[r].attrs = configured

(* What the database carries: nothing when it is gone; what CREATE gives   *)
(* it once no run is between its drop and its create; and all of it once   *)
(* no run is restoring.  A database that is gone while no run is about to  *)
(* recreate it was never there, so no run has come to approve a drop.      *)
Kept ==
  /\ settings \subseteq configured
  /\ db = 0 => settings = {}
  /\ (\A r \in Runs : ~Waiting(r)) => configured \cap {"locale"} \subseteq settings
  /\ (\A r \in Runs : ~Restoring(r)) => settings = configured
  /\ db = 0 /\ (\A r \in Runs : ~Waiting(r)) =>
       \A r \in Runs : pc[r] \notin {"approve", "settings", "terminate", "drop", "alter"}

OverwriteInv == Carries /\ Kept

KeepInv == (\E r \in Runs : HasFailed(r)) \/ torn \/ OverwriteInv

(* A failed run stays failed.                                              *)
LEMMA FailureStays ==
  ASSUME TypeOK, Progress, [Next]_vars, NEW r \in Runs, HasFailed(r)
  PROVE  HasFailed(r)'
<1> USE DEF HasFailed, Finish, Continue, FailTo, cluster, backend, client
<1>1. pc[r] \notin Working
  BY DEF Progress
<1>2. CASE UNCHANGED vars
  BY <1>2 DEF vars
<1>3. ASSUME NEW s \in Runs, ExecUnit(s) PROVE HasFailed(r)'
  <2>1. s # r
    BY <1>1, <1>3 DEF ExecUnit, Working
  <2> QED
    BY <1>3, <2>1 DEF ExecUnit, TypeOK
<1>4. ASSUME NEW s \in Runs,
             \/ Validate(s) \/ Probe(s) \/ Exists(s) \/ Approve(s) \/ Settings(s)
             \/ TerminateConnections(s) \/ Drop(s) \/ Create(s)
             \/ RestoreOptions(s) \/ GiveUp(s) \/ Connect(s)
             \/ CheckServerVersion(s) \/ TryLock(s) \/ PrepareSessionTables(s)
             \/ ExpandMacros(s) \/ PreparationFails(s) \/ UnitFails(s)
             \/ BackendLost(s) \/ Interrupt(s) \/ Crash(s)
             \/ ReleaseDeployLock(s) \/ Release(s) \/ Reap(s) \/ ReapProbe(s)
      PROVE  HasFailed(r)'
  <2>1. \/ outcome' = outcome
        \/ \E o \in Outcomes \ {"none", "Success"} :
             outcome' = [outcome EXCEPT ![s] = o]
    BY <1>4 DEF Outcomes, Validate, Probe, Exists, Approve, Settings,
       TerminateConnections, Drop, Create, RestoreOptions, GiveUp, Connect,
       CheckServerVersion, TryLock, PrepareSessionTables, ExpandMacros,
       PreparationFails, UnitFails, BackendLost, Interrupt, Crash,
       ReleaseDeployLock, Release, Reap, ReapProbe
  <2> QED
    BY <2>1 DEF TypeOK
<1> QED
  BY <1>2, <1>3, <1>4 DEF Next, Step, Fault, Server, Finished

(* Steps of a run outside its overwrite, which touch neither the database  *)
(* nor the carried settings, keep OverwriteInv.                            *)
LEMMA AwayStep ==
  ASSUME TypeOK, OverwriteInv, NEW r \in Runs, NEW l \in PC, Goto(r, l),
         UNCHANGED <<saved, db, settings, configured>>,
         pc[r] \notin {"create", "alter"},
         l \notin {"approve", "settings", "terminate", "drop", "create", "alter"},
         l \in {"start", "probe", "exists"} => pc[r] \in {"start", "probe", "exists"}
  PROVE  OverwriteInv'
<1>1. pc'[r] = l /\ \A s \in Runs \ {r} : pc'[s] = pc[s]
  BY DEF TypeOK, Goto
<1>2. \A s \in Runs : (Waiting(s)' <=> Waiting(s)) /\ (Restoring(s)' <=> Restoring(s))
  BY <1>1 DEF Waiting, Restoring
<1>3. Carries'
  BY <1>1, <1>2 DEF OverwriteInv, Carries
<1>4. Kept'
  BY <1>1, <1>2 DEF OverwriteInv, Kept
<1> QED
  BY <1>3, <1>4 DEF OverwriteInv

(* Every action keeps OverwriteInv, or is the failure of a run or the      *)
(* reading of settings that another run was restoring.                     *)
LEMMA KeepStep ==
  ASSUME TypeOK, Progress, KeepInv, [HistoryNext]_historyVars
  PROVE  KeepInv'
<1>0. [Next]_vars
  BY DEF HistoryNext, historyVars
<1>a. torn => torn'
  BY Zenon DEF HistoryNext, historyVars
<1>1. SUFFICES ASSUME OverwriteInv PROVE KeepInv'
  BY <1>0, <1>a, FailureStays DEF KeepInv
<1> USE DEF PC, PreSession, InSession, cluster, backend, client, Finish, Continue
<1>2. ASSUME NEW r \in Runs, NEW o \in Outcomes \ {"none", "Success"},
             outcome' = [outcome EXCEPT ![r] = o]
      PROVE  KeepInv'
  BY <1>2 DEF KeepInv, HasFailed, TypeOK
<1>3. CASE UNCHANGED vars
  BY <1>1, <1>3 DEF vars, KeepInv, OverwriteInv, Carries, Kept, Restoring, Waiting
<1>4. ASSUME NEW r \in Runs,
             \/ Approve(r) \/ Settings(r) \/ TerminateConnections(r) \/ Drop(r)
             \/ Create(r) \/ RestoreOptions(r) \/ Connect(r) \/ Exists(r)
             \/ Validate(r) \/ Probe(r),
             outcome' # outcome
      PROVE  KeepInv'
  BY <1>4, <1>2 DEF Outcomes, Approve, Settings, TerminateConnections, Drop, Create,
     RestoreOptions, Connect, Exists, Validate, Probe
<1>5. ASSUME NEW r \in Runs, Validate(r) \/ Probe(r), outcome' = outcome
      PROVE  OverwriteInv'
  BY <1>1, <1>5, AwayStep DEF Validate, Probe
<1>6. ASSUME NEW r \in Runs, Exists(r) PROVE OverwriteInv'
  <2>1. CASE pc' = [pc EXCEPT ![r] = "connect"]
    BY <1>1, <1>6, <2>1, AwayStep DEF Exists, Goto
  <2>2. CASE \/ db = 0 /\ pc' = [pc EXCEPT ![r] = "create"]
             \/ db # 0 /\ pc' = [pc EXCEPT ![r] = "approve"]
    <3>1. /\ pc[r] = "exists" /\ saved[r] = NoSettings
          /\ UNCHANGED <<saved, db, settings, configured>>
          /\ \A s \in Runs \ {r} : pc'[s] = pc[s]
      BY <1>1, <1>6, <2>2 DEF Exists, TypeOK, OverwriteInv, Carries
    <3>2. pc'[r] = "create" \/ (pc'[r] = "approve" /\ db # 0)
      BY <2>2 DEF TypeOK
    <3>3. \A s \in Runs : (Waiting(s)' <=> Waiting(s)) /\ (Restoring(s)' <=> Restoring(s))
      BY <3>1, <3>2 DEF Waiting, Restoring, NoSettings
    <3>4. Carries'
      BY <1>1, <3>1, <3>2, <3>3 DEF OverwriteInv, Carries
    <3>5. Kept'
      BY <1>1, <3>1, <3>2, <3>3 DEF OverwriteInv, Kept
    <3> QED
      BY <3>4, <3>5 DEF OverwriteInv
  <2> QED
    BY <1>6, <2>1, <2>2 DEF Exists, Goto
<1>7. ASSUME NEW r \in Runs, Approve(r), outcome' = outcome PROVE KeepInv'
  <2>1. pc[r] = "approve" /\ UNCHANGED <<saved, db, settings, configured>>
    BY <1>7 DEF Approve
  <2>2. CASE pc' = [pc EXCEPT ![r] = "settings"]
    <3>1. pc'[r] = "settings" /\ \A s \in Runs \ {r} : pc'[s] = pc[s]
      BY <2>2 DEF TypeOK
    <3>2. \A s \in Runs : (Waiting(s)' <=> Waiting(s)) /\ (Restoring(s)' <=> Restoring(s))
      BY <2>1, <3>1 DEF Waiting, Restoring
    <3>3. Carries'
      BY <1>1, <2>1, <3>1, <3>2 DEF OverwriteInv, Carries
    <3>4. Kept'
      BY <1>1, <2>1, <3>1, <3>2 DEF OverwriteInv, Kept
    <3> QED
      BY <3>3, <3>4 DEF OverwriteInv, KeepInv
  <2>3. CASE outcome' = [outcome EXCEPT ![r] = "ApprovalDenied"]
    BY <1>2, <2>3 DEF Outcomes
  <2> QED
    BY <1>7, <2>2, <2>3 DEF Approve, Goto
<1>8. ASSUME NEW r \in Runs, Settings(r), ~torn', HistoryNext PROVE OverwriteInv'
  <2>1. /\ pc[r] = "settings" /\ UNCHANGED <<db, settings, configured>>
        /\ pc'[r] = "terminate" /\ \A s \in Runs \ {r} : pc'[s] = pc[s] /\ saved'[s] = saved[s]
    BY <1>8 DEF Settings, Goto, TypeOK
  <2>2. \A s \in Runs : ~Restoring(s)
    BY <1>8 DEF HistoryNext, TornRead
  <2>3. settings = configured /\ \A s \in Runs : ~Waiting(s)
    BY <1>1, <2>2 DEF OverwriteInv, Kept, Restoring
  <2>4. db # 0
    BY <1>1, <2>1, <2>3 DEF OverwriteInv, Kept
  <2>5. saved'[r].present /\ saved'[r].attrs = settings
    BY <1>8, <2>4 DEF Settings, TypeOK
  <2>6. \A s \in Runs : (Waiting(s)' <=> Waiting(s)) /\ (Restoring(s)' <=> Restoring(s))
    BY <2>1 DEF Waiting, Restoring
  <2>7. Carries'
    BY <1>1, <2>1, <2>3, <2>5, <2>6 DEF OverwriteInv, Carries
  <2>8. Kept'
    BY <1>1, <2>1, <2>4, <2>6 DEF OverwriteInv, Kept
  <2> QED
    BY <2>7, <2>8 DEF OverwriteInv
<1>9. ASSUME NEW r \in Runs, TerminateConnections(r) PROVE OverwriteInv'
  <2>1. /\ pc[r] = "terminate" /\ pc'[r] = "drop"
        /\ UNCHANGED <<saved, db, settings, configured>>
        /\ \A s \in Runs \ {r} : pc'[s] = pc[s]
    BY <1>9 DEF TerminateConnections, Goto, TypeOK
  <2>2. \A s \in Runs : (Waiting(s)' <=> Waiting(s)) /\ (Restoring(s)' <=> Restoring(s))
    BY <2>1 DEF Waiting, Restoring
  <2>3. Carries'
    BY <1>1, <2>1, <2>2 DEF OverwriteInv, Carries
  <2>4. Kept'
    BY <1>1, <2>1, <2>2 DEF OverwriteInv, Kept
  <2> QED
    BY <2>3, <2>4 DEF OverwriteInv
<1>10. ASSUME NEW r \in Runs, Drop(r) PROVE KeepInv'
  <2>1. CASE db # 0 /\ ~Occupied
    <3>1. /\ pc[r] = "drop" /\ pc'[r] = "create" /\ db' = 0 /\ settings' = {}
          /\ UNCHANGED <<saved, configured>>
          /\ \A s \in Runs \ {r} : pc'[s] = pc[s]
      BY <1>10, <2>1 DEF Drop, Goto, TypeOK
    <3>2. saved[r].present /\ saved[r].attrs = configured
      BY <1>1, <3>1 DEF OverwriteInv, Carries
    <3>3. Waiting(r)' /\ Restoring(r)'
      BY <3>1, <3>2 DEF Waiting, Restoring
    <3>4. Carries'
      BY <1>1, <3>1, <3>2 DEF OverwriteInv, Carries, Waiting, Restoring
    <3>5. Kept'
      BY <3>1, <3>3 DEF Kept
    <3> QED
      BY <3>4, <3>5 DEF KeepInv, OverwriteInv
  <2>2. CASE ~(db # 0 /\ ~Occupied)
    BY <1>10, <1>2, <2>2 DEF Drop, Outcomes
  <2> QED
    BY <2>1, <2>2
<1>11. ASSUME NEW r \in Runs, Create(r) PROVE KeepInv'
  <2>1. CASE db = 0
    <3>1. /\ pc[r] = "create" /\ db' = born + 1
          /\ settings' = saved[r].attrs \cap {"locale"}
          /\ pc'[r] = IF saved[r].present THEN "alter" ELSE "connect"
          /\ UNCHANGED <<saved, configured>>
          /\ \A s \in Runs \ {r} : pc'[s] = pc[s]
      BY <1>11, <2>1 DEF Create, Goto, TypeOK
    <3>2. db' # 0
      BY <3>1 DEF TypeOK
    <3>3. CASE saved[r].present
      <4>1. saved[r].attrs = configured /\ pc'[r] = "alter"
        BY <1>1, <3>1, <3>3 DEF OverwriteInv, Carries, Restoring, Waiting
      <4>2. Carries'
        BY <1>1, <3>1, <3>3, <4>1 DEF OverwriteInv, Carries, Restoring, Waiting
      <4>3. settings' = configured \cap {"locale"} /\ Restoring(r)'
        BY <3>1, <4>1 DEF Restoring
      <4>4. Kept'
        BY <3>1, <3>2, <4>3 DEF Kept
      <4> QED
        BY <4>2, <4>4 DEF KeepInv, OverwriteInv
    <3>4. CASE ~saved[r].present
      <4>1. saved[r].attrs = {} /\ settings = {} /\ settings' = settings
        BY <1>1, <2>1, <3>1, <3>4 DEF OverwriteInv, Carries, Kept, NoSettings
      <4>2. pc'[r] = "connect"
        BY <3>1, <3>4
      <4>3. \A s \in Runs : (Waiting(s)' <=> Waiting(s)) /\ (Restoring(s)' <=> Restoring(s))
        BY <3>1, <3>4, <4>2 DEF Waiting, Restoring
      <4>4. Carries'
        BY <1>1, <3>1, <4>2, <4>3 DEF OverwriteInv, Carries
      <4>5. Kept'
        BY <1>1, <3>1, <3>2, <4>1, <4>3 DEF OverwriteInv, Kept
      <4> QED
        BY <4>4, <4>5 DEF KeepInv, OverwriteInv
    <3> QED
      BY <3>3, <3>4
  <2>2. CASE db # 0
    BY <1>11, <1>2, <2>2 DEF Create, Outcomes
  <2> QED
    BY <2>1, <2>2
<1>12. ASSUME NEW r \in Runs, RestoreOptions(r), outcome' = outcome PROVE KeepInv'
  <2>0. CASE ~(db # 0 \/ "options" \notin saved[r].attrs)
    BY <1>12, <1>2, <2>0 DEF RestoreOptions, Outcomes
  <2>1. CASE db # 0 \/ "options" \notin saved[r].attrs
    <3>1. pc[r] = "alter" /\ saved[r].attrs = configured
      BY <1>1, <1>12 DEF RestoreOptions, OverwriteInv, Carries, Restoring
    <3>2. /\ settings' = settings \cup (configured \cap {"options"})
          /\ UNCHANGED <<saved, db, configured>>
          /\ pc'[r] = "connect" /\ \A s \in Runs \ {r} : pc'[s] = pc[s]
      BY <1>12, <2>1, <3>1 DEF RestoreOptions, Goto, TypeOK
    <3>3. \A s \in Runs \ {r} : (Waiting(s)' <=> Waiting(s)) /\ (Restoring(s)' <=> Restoring(s))
      BY <3>2 DEF Waiting, Restoring
    <3>4. ~Waiting(r) /\ ~Waiting(r)' /\ ~Restoring(r)'
      BY <3>1, <3>2 DEF Waiting, Restoring
    <3>5. Carries'
      BY <1>1, <3>1, <3>2, <3>3, <3>4 DEF OverwriteInv, Carries
    <3>6. db = 0 => settings' = {}
      BY <1>1, <2>1, <3>1, <3>2 DEF OverwriteInv, Kept
    <3>7. configured \subseteq {"locale", "options"}
      BY DEF TypeOK, Attrs
    <3>8. settings' \subseteq configured
      BY <1>1, <3>2 DEF OverwriteInv, Kept
    <3>9. ASSUME \A s \in Runs : ~Waiting(s)'
          PROVE  /\ settings' = configured
                 /\ db # 0
      <4>1. \A s \in Runs : ~Waiting(s)
        BY <3>3, <3>4, <3>9
      <4>2. configured \cap {"locale"} \subseteq settings /\ db # 0
        BY <1>1, <3>1, <4>1 DEF OverwriteInv, Kept
      <4> QED
        BY <3>2, <3>7, <3>8, <4>2
    <3>10. (\A s \in Runs : ~Restoring(s)') => \A s \in Runs : ~Waiting(s)'
      BY DEF Restoring
    <3>11. Kept'
      BY <3>2, <3>6, <3>8, <3>9, <3>10 DEF Kept
    <3> QED
      BY <3>5, <3>11 DEF KeepInv, OverwriteInv
  <2> QED
    BY <2>0, <2>1
<1>13. ASSUME NEW r \in Runs, Connect(r) PROVE KeepInv'
  <2>1. CASE db # 0
    <3>1. /\ pc[r] = "connect" /\ pc'[r] = "version" /\ saved'[r] = NoSettings
          /\ UNCHANGED <<db, settings, configured>>
          /\ \A s \in Runs \ {r} : pc'[s] = pc[s] /\ saved'[s] = saved[s]
      BY <1>13, <2>1 DEF Connect, Goto, TypeOK
    <3>2. \A s \in Runs : (Waiting(s)' <=> Waiting(s)) /\ (Restoring(s)' <=> Restoring(s))
      BY <3>1 DEF Waiting, Restoring
    <3>3. Carries'
      <4>1. ~Restoring(r)' /\ ~saved'[r].present
        BY <3>1 DEF Restoring, Waiting, NoSettings
      <4> QED
        BY <1>1, <3>1, <3>2, <4>1 DEF OverwriteInv, Carries
    <3>4. Kept'
      BY <1>1, <2>1, <3>1, <3>2 DEF OverwriteInv, Kept
    <3> QED
      BY <3>3, <3>4 DEF KeepInv, OverwriteInv
  <2>2. CASE db = 0
    BY <1>13, <1>2, <2>2 DEF Connect, Outcomes
  <2> QED
    BY <2>1, <2>2
<1>14. ASSUME NEW r \in Runs,
              \/ CheckServerVersion(r) \/ TryLock(r) \/ PrepareSessionTables(r)
              \/ ExpandMacros(r) \/ ExecUnit(r) \/ UnitFails(r) \/ BackendLost(r)
              \/ ReleaseDeployLock(r) \/ Release(r) \/ PreparationFails(r)
              \/ Interrupt(r) \/ Crash(r)
       PROVE  OverwriteInv'
  <2>1. UNCHANGED <<saved, db, settings, configured>>
    BY <1>14 DEF CheckServerVersion, TryLock, PrepareSessionTables, ExpandMacros,
       ExecUnit, UnitFails, BackendLost, ReleaseDeployLock, Release,
       PreparationFails, Interrupt, Crash
  <2>2. pc[r] \notin {"create", "alter"}
    BY <1>14 DEF CheckServerVersion, TryLock, PrepareSessionTables, ExpandMacros,
       ExecUnit, UnitFails, BackendLost, ReleaseDeployLock, Release,
       PreparationFails, Interrupt, Crash
  <2>3. \E l \in {"lock", "load", "expand", "exec", "unlock", "release", "done"} :
          Goto(r, l)
    BY <1>14 DEF CheckServerVersion, TryLock, PrepareSessionTables, ExpandMacros,
       ExecUnit, UnitFails, BackendLost, ReleaseDeployLock, Release,
       PreparationFails, Interrupt, Crash, FailTo, CleanupFrom
  <2> QED
    BY <1>1, <2>1, <2>2, <2>3, AwayStep
<1>15. ASSUME NEW r \in Runs, GiveUp(r) PROVE KeepInv'
  BY <1>15, <1>2 DEF GiveUp, Outcomes
<1>16. ASSUME NEW r \in Runs, Reap(r) \/ ReapProbe(r) PROVE OverwriteInv'
  BY <1>1, <1>16 DEF Reap, ReapProbe, OverwriteInv, Carries, Kept, Restoring, Waiting
<1>17. ASSUME HistoryNext, ~torn', outcome' = outcome, ~UNCHANGED vars PROVE KeepInv'
  BY <1>5, <1>6, <1>7, <1>8, <1>9, <1>10, <1>11, <1>12, <1>13, <1>14, <1>15, <1>16, <1>17
     DEF HistoryNext, Next, Step, Fault, Server, Finished, KeepInv
<1>18. ASSUME Next, outcome' # outcome PROVE KeepInv'
  BY <1>4, <1>9, <1>14, <1>15, <1>16, <1>18
     DEF Next, Step, Fault, Server, Finished, vars, KeepInv
<1>19. CASE torn'
  BY <1>19 DEF KeepInv
<1> QED
  BY <1>3, <1>17, <1>18, <1>19 DEF HistoryNext, historyVars

(* Runs that all report success leave the database with what the operator  *)
(* had set on it, however many of them overwrite it, unless one has read   *)
(* the settings inside another's restoration: settings travel in the       *)
(* overwriting process between the drop and the last ALTER, the last of    *)
(* several such processes to leave that window completes them, and a run   *)
(* that slips a database in between makes an overwriting run fail.         *)
THEOREM SettingsSurvive == HistorySpec => []CleanRunsKeepSettings
<1>1. HistoryInit => KeepInv
  BY DEF HistoryInit, Init, KeepInv, OverwriteInv, Carries, Kept, Restoring, Waiting, NoSettings
<1>2. TypeOK /\ Progress /\ KeepInv /\ [HistoryNext]_historyVars => KeepInv'
  BY KeepStep
<1>3. Progress /\ KeepInv => CleanRunsKeepSettings
  BY DEF Progress, KeepInv, OverwriteInv, Kept, HasFailed, CleanRunsKeepSettings,
         Restoring, Waiting, Working, BeforeLock, PreSession
<1>4. HistorySpec => Spec
  <2>1. HistoryInit => Init
    BY DEF HistoryInit
  <2>2. [HistoryNext]_historyVars => [Next]_vars
    BY DEF HistoryNext, historyVars
  <2> QED
    BY <2>1, <2>2, PTL DEF HistorySpec, Spec
<1> QED
  BY <1>1, <1>2, <1>3, <1>4, TypeCorrect, ProgressHolds, PTL DEF HistorySpec
=============================================================================
