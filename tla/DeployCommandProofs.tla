------------------------- MODULE DeployCommandProofs -------------------------
(* Proofs about DeployCommand, for any retry limit and any countdown: type *)
(* correctness with the bound on dials, the agreement of report and exit   *)
(* code, and what an abort protects.                                       *)
EXTENDS DeployCommand, TLAPS

(* Deploy has not returned.                                                *)
Deploying == {"config", "notify", "validate", "dial", "backoff", "ensure",
              "approve", "settings", "terminate", "drop", "dropping", "create",
              "creating", "exec"}

(* A dial starts with a retry to spend: the bound TypeOK states for the    *)
(* moment after a failed dial needs the one before it.                     *)
AttemptsLeft == pc \in Deploying => attempts <= MaxRetries

(* Every error has an exit code, other than success; an interrupt outranks *)
(* whatever else the error wraps; and 12 means a denial.                   *)
LEMMA ExitCodeFacts ==
  ASSUME NEW f \in BOOLEAN, NEW c \in SUBSET Sentinels
  PROVE  /\ ExitCodeForError(f, c) \in Nat
         /\ f /\ "canceled" \in c => ExitCodeForError(f, c) = 130
         /\ f => ExitCodeForError(f, c) # 0
         /\ f /\ "denied" \notin c => ExitCodeForError(f, c) # 12
<1> DEFINE found == {i \in 1..10 : Ranked[i] \in c}
           first == CHOOSE i \in found : \A j \in found : i <= j
<1>1. ASSUME found # {} PROVE \E i \in found : \A j \in found : i <= j
  <2>1. 1..10 = {1, 2, 3, 4, 5, 6, 7, 8, 9, 10}
    OBVIOUS
  <2> QED
    BY <1>1, <2>1
<1>2. found # {} => first \in found /\ first \in 1..10
  BY <1>1
<1>3. "canceled" \in c => 1 \in found
  BY DEF Ranked
<1>4. 1 \in found => first = 1
  BY <1>1
<1>5. /\ \A i \in 1..10 : ExitCodes[i] \in Nat /\ ExitCodes[i] # 0
      /\ ExitCodes[1] = 130
      /\ \A i \in 1..10 : ExitCodes[i] = 12 => i = 5
  BY DEF ExitCodes
<1>6. ExitCodeForError(f, c) = IF ~f THEN 0 ELSE IF found = {} THEN 1 ELSE ExitCodes[first]
  BY DEF ExitCodeForError
<1>7. 5 \in found => "denied" \in c
  BY DEF Ranked
<1> HIDE DEF found, first
<1> QED
  BY <1>2, <1>3, <1>4, <1>5, <1>6, <1>7

(* Every action of DeployCommand keeps every variable in its type and      *)
(* spends at most one retry.                                               *)
LEMMA TypeStep ==
  TypeOK /\ AttemptsLeft /\ [Next]_vars => TypeOK' /\ AttemptsLeft'
<1> SUFFICES ASSUME TypeOK, AttemptsLeft, [Next]_vars
             PROVE  TypeOK' /\ AttemptsLeft'
  OBVIOUS
<1> USE BoundsAreNat DEF TypeOK, AttemptsLeft, Deploying, flow, fate, async,
        Sentinels, Answers, PC, BeforeDrop
<1>1. ASSUME pc \in Deploying \cup {"retry"}, NEW e \in SUBSET Sentinels, Fail(e),
             UNCHANGED <<async, atLoad, endedAt, printed, code>>,
             database' \in {"old", "missing", "dropped", "new"}
      PROVE  TypeOK' /\ AttemptsLeft'
  BY <1>1 DEF Fail
<1>2. ASSUME pc \in Deploying, NEW l \in Deploying \cup {"returned"}, Goto(l),
             UNCHANGED <<async, atLoad, endedAt, printed, code>>,
             database' \in {"old", "missing", "dropped", "new"}
      PROVE  TypeOK' /\ AttemptsLeft'
  BY <1>2 DEF Goto
<1>3. Done => CtxErr \in SUBSET Sentinels /\ ({"connection"} \cup CtxErr) \in SUBSET Sentinels
              /\ ({"execution"} \cup CtxErr) \in SUBSET Sentinels
  BY DEF Done, CtxErr
<1>4. CASE UNCHANGED vars
  BY <1>4 DEF vars
<1>5. CASE Configure
  <2>1. CASE Goto("notify")
    BY <1>5, <1>2, <2>1 DEF Configure
  <2>2. CASE /\ pc' = "deferred" /\ failed' = TRUE /\ chain' \in SUBSET Sentinels
             /\ UNCHANGED <<opts, dialing, attempts, seconds>>
    BY <1>5, <2>2 DEF Configure
  <2> QED
    BY <1>5, <2>1, <2>2 DEF Configure
<1>6. CASE Watch
  BY <1>6 DEF Watch, Goto
<1>7. CASE Validate
  BY <1>7, <1>1, <1>2 DEF Validate
<1>8. CASE Dial
  <2>1. CASE \E e \in {{"connection"}, {"auth"}, {}} : Fail(e)
    BY <1>8, <1>1, <2>1 DEF Dial
  <2>2. CASE dialing = "target" /\ dialing' = "maintenance" /\ attempts' = 0
             /\ UNCHANGED <<opts, pc, seconds, fate>>
    BY <1>8, <2>2 DEF Dial
  <2>3. CASE pc' = AfterDial.pc /\ dialing' = AfterDial.dialing /\ attempts' = 0
             /\ UNCHANGED <<opts, seconds, fate>>
    BY <1>8, <2>3 DEF Dial, AfterDial
  <2>4. CASE pc' = "retry" /\ attempts' = attempts + 1
             /\ UNCHANGED <<opts, dialing, seconds, fate>>
    BY <1>8, <2>4 DEF Dial
  <2> QED
    BY <1>8, <2>1, <2>2, <2>3, <2>4 DEF Dial
<1>9. CASE DialCut
  <2>1. CASE Fail({"connection"} \cup CtxErr)
    BY <1>9, <1>3, <1>1, <2>1 DEF DialCut
  <2>2. CASE pc' = "retry" /\ attempts' = attempts + 1
             /\ UNCHANGED <<opts, dialing, seconds, fate>>
    BY <1>9, <2>2 DEF DialCut
  <2> QED
    BY <1>9, <2>1, <2>2 DEF DialCut
<1>10. CASE Retry
  <2>1. CASE RetriesLeft /\ Goto("backoff")
    BY <1>10, <2>1 DEF Retry, RetriesLeft, Goto
  <2>2. CASE \E e \in SUBSET Sentinels : Fail(e)
    BY <1>10, <1>1, <2>2 DEF Retry
  <2> QED
    BY <1>10, <1>3, <2>1, <2>2 DEF Retry
<1>11. CASE Backoff
  BY <1>11, <1>3, <1>1, <1>2 DEF Backoff
<1>12. CASE CreateIfMissing \/ PrepareDrop \/ SendDrop \/ SendCreate
  BY <1>12, <1>3, <1>1, <1>2 DEF CreateIfMissing, PrepareDrop, SendDrop, SendCreate,
     Query, Refused, Rejected
<1>13. CASE Approve
  <2>1. CASE \E l \in {"settings"} : Goto(l)
    BY <1>13, <1>2, <2>1 DEF Approve
  <2>2. CASE \E e \in SUBSET Sentinels : Fail(e)
    BY <1>13, <1>1, <2>2 DEF Approve
  <2>3. CASE seconds > 0 /\ seconds' = seconds - 1
             /\ UNCHANGED <<opts, pc, dialing, attempts, fate>>
    BY <1>13, <2>3 DEF Approve
  <2> QED
    BY <1>13, <1>3, <2>1, <2>2, <2>3 DEF Approve, AskInteractive, CountDown
<1>14. CASE Drop \/ Create
  <2>1. pc \in Deploying /\ UNCHANGED <<async, atLoad, endedAt, printed, code>>
        /\ database' \in {"old", "missing", "dropped", "new"}
    BY <1>14 DEF Drop, Create, Hangs
  <2>2. \/ \E l \in Deploying : Goto(l)
        \/ \E e \in SUBSET Sentinels : Fail(e)
    BY <1>14, <1>3 DEF Drop, Create, Hangs
  <2> QED
    BY <1>1, <1>2, <2>1, <2>2
<1>15. CASE Exec
  BY <1>15, <1>3, <1>1, <1>2 DEF Exec
<1>16. CASE FinishDeploy
  <2>1. \A f \in BOOLEAN, c \in SUBSET Sentinels : ExitCodeForError(f, c) \in Nat
    BY ExitCodeFacts
  <2>2. failed' \in BOOLEAN /\ chain' \in SUBSET Sentinels
    BY <1>16 DEF FinishDeploy, Fold
  <2>3. printed' \in Seq(Nat)
    BY <1>16, <2>1, <2>2 DEF FinishDeploy
  <2> QED
    BY <1>16, <2>2, <2>3 DEF FinishDeploy
<1>17. CASE Exit
  <2>1. ExitCodeForError(failed, chain) \in Nat
    BY ExitCodeFacts
  <2> QED
    BY <1>17, <2>1 DEF Exit, Goto
<1>18. CASE Watcher
  <2>1. CASE ReceiveSignal
    <3>1. interrupted' \in BOOLEAN /\ sigChan' \in BOOLEAN
      BY <2>1, Zenon DEF ReceiveSignal
    <3>2. watcher' \in {"off", "select", "cancel", "gone"}
          /\ UNCHANGED <<flow, fate, answer, ctx, atLoad, database, endedAt, printed, code>>
      BY <2>1 DEF ReceiveSignal
    <3> QED
      BY <3>1, <3>2
  <2>2. CASE Cancel
    <3>1. ctx' \in {"live", "canceled", "deadline"} /\ endedAt' \in PC \cup {"never"}
      BY <2>2 DEF Cancel
    <3> QED
      BY <2>2, <3>1 DEF Cancel
  <2>3. CASE StopWatching
    BY <2>3 DEF StopWatching
  <2> QED
    BY <1>18, <2>1, <2>2, <2>3 DEF Watcher
<1>19. CASE Timeout \/ Signal
  <2>1. CASE Timeout
    BY <2>1 DEF Timeout
  <2>2. CASE Signal
    BY <2>2 DEF Signal
  <2> QED
    BY <1>19, <2>1, <2>2
<1>20. CASE Type
  <2>1. answer' \in Answers \cup {"none"}
    BY <1>20 DEF Type
  <2> QED
    BY <1>20, <2>1 DEF Type
<1> QED
  BY <1>4, <1>5, <1>6, <1>7, <1>8, <1>9, <1>10, <1>11, <1>12, <1>13, <1>14, <1>15,
     <1>16, <1>17, <1>18, <1>19, <1>20 DEF Next, Main, Exited

(* Type correctness of the command; in particular a connection is tried at *)
(* most once plus MaxRetries times, whatever the context does.             *)
THEOREM TypeCorrect == Spec => []TypeOK
<1>1. ASSUME Init PROVE TypeOK /\ AttemptsLeft
  <2>1. dialing \in {"target", "maintenance", "session"}
    BY <1>1 DEF Init
  <2>2. seconds \in 0..Countdown /\ attempts \in Nat /\ attempts <= MaxRetries
    BY <1>1, BoundsAreNat DEF Init
  <2>3. printed \in Seq(Nat) /\ code \in Nat
    BY <1>1 DEF Init, Running
  <2>4. opts \in [overwrite : BOOLEAN, json : BOOLEAN, approver : Approvers]
    BY <1>1 DEF Init
  <2>5. pc \in PC /\ endedAt \in PC \cup {"never"}
    BY <1>1 DEF Init, PC
  <2>6. database \in {"old", "missing", "dropped", "new"} /\ answer \in Answers \cup {"none"}
    BY <1>1 DEF Init
  <2> QED
    BY <1>1, <2>1, <2>2, <2>3, <2>4, <2>5, <2>6 DEF Init, TypeOK, AttemptsLeft
<1> QED
  BY <1>1, TypeStep, PTL DEF Spec

----------------------------------------------------------------------------
(* The signal goroutine sets the flag before it cancels, so a context that *)
(* is canceled was interrupted; nothing is reported before Deploy's result *)
(* is settled; and what was reported then is what the deferred function    *)
(* and main find.                                                          *)
FlagFirst == ctx = "canceled" \/ watcher = "cancel" => interrupted

Unreported == pc \notin {"deferred", "exited"} => printed = <<>> /\ atLoad = "live"

Settled ==
  pc = "deferred" =>
    /\ printed \in {<<>>, <<ExitCodeForError(failed, chain)>>}
    /\ ~opts.json => printed = <<>>
    /\ opts.json /\ ~failed => printed # <<>>
    /\ atLoad = "canceled" => failed /\ "canceled" \in chain

ReportInv == FlagFirst /\ Unreported /\ Settled /\ ReportMatchesExit

(* Steps of Deploy itself, and of the other goroutines, report nothing.    *)
LEMMA SilentStep ==
  ASSUME ReportInv, FlagFirst',
         \/ pc \notin {"deferred", "exited"} /\ pc' \notin {"deferred", "exited"}
         \/ UNCHANGED <<pc, fate, code>>,
         UNCHANGED <<opts, atLoad, printed>>
  PROVE  ReportInv'
BY DEF ReportInv, Unreported, Settled, ReportMatchesExit, fate

(* Every action of DeployCommand keeps ReportInv.                          *)
LEMMA ReportStep == TypeOK /\ ReportInv /\ [Next]_vars => ReportInv'
<1> SUFFICES ASSUME TypeOK, ReportInv, [Next]_vars PROVE ReportInv'
  OBVIOUS
<1> USE DEF flow, fate, async
<1>1. CASE UNCHANGED vars
  BY <1>1, SilentStep DEF vars, ReportInv, FlagFirst
<1>2. CASE Configure
  BY <1>2 DEF Configure, Goto, ReportInv, FlagFirst, Unreported, Settled,
     ReportMatchesExit
<1>3. CASE \/ Watch \/ Validate \/ Dial \/ DialCut \/ Retry \/ Backoff
           \/ CreateIfMissing \/ Approve \/ PrepareDrop \/ SendDrop \/ Drop
           \/ SendCreate \/ Create \/ Exec
  <2>1. UNCHANGED <<opts, atLoad, printed, ctx, interrupted>>
        /\ (watcher' = watcher \/ watcher' = "select")
    BY <1>3 DEF Watch, Validate, Dial, DialCut, Retry, Backoff, CreateIfMissing,
       Approve, AskInteractive, CountDown, PrepareDrop, SendDrop, Drop, Query,
       Hangs, SendCreate, Create, Exec, Refused, Rejected, Goto, Fail
  <2>2. pc \notin {"deferred", "exited"} /\ pc' \notin {"deferred", "exited"}
    BY <1>3 DEF Watch, Validate, Dial, DialCut, Retry, Backoff, CreateIfMissing,
       Approve, AskInteractive, CountDown, PrepareDrop, SendDrop, Drop, Query,
       Hangs, SendCreate, Create, Exec, Refused, Rejected, Goto, Fail, AfterDial, TypeOK
  <2> QED
    BY <2>1, <2>2, SilentStep DEF ReportInv, FlagFirst
<1>4. CASE FinishDeploy
  <2>1. pc = "returned" /\ pc' = "deferred" /\ printed = <<>> /\ atLoad' = ctx
        /\ UNCHANGED <<opts, ctx, watcher, interrupted>>
    BY <1>4 DEF FinishDeploy, ReportInv, Unreported
  <2>2. ctx = "canceled" => failed' /\ "canceled" \in chain'
    BY <1>4 DEF FinishDeploy, Fold, ReportInv, FlagFirst
  <2>3. printed' = IF opts.json THEN <<ExitCodeForError(failed', chain')>> ELSE <<>>
    BY <1>4, <2>1 DEF FinishDeploy
  <2> QED
    BY <2>1, <2>2, <2>3 DEF ReportInv, FlagFirst, Unreported, Settled,
       ReportMatchesExit
<1>5. CASE Exit
  <2>1. pc = "deferred" /\ pc' = "exited" /\ code' = ExitCodeForError(failed, chain)
        /\ UNCHANGED <<opts, ctx, watcher, interrupted, atLoad>>
    BY <1>5 DEF Exit, Goto
  <2>2. printed' = IF opts.json THEN <<code'>> ELSE <<>>
    BY <1>5, <2>1 DEF Exit, ReportInv, Settled, TypeOK
  <2>3. atLoad' = "canceled" => code' = 130
    <3>1. atLoad = "canceled" => failed /\ "canceled" \in chain
      BY <2>1 DEF ReportInv, Settled
    <3>2. failed /\ "canceled" \in chain => ExitCodeForError(failed, chain) = 130
      BY ExitCodeFacts DEF TypeOK
    <3> QED
      BY <2>1, <3>1, <3>2
  <2> QED
    BY <2>1, <2>2, <2>3 DEF ReportInv, FlagFirst, Unreported, Settled,
       ReportMatchesExit
<1>6. CASE Watcher \/ Timeout \/ Signal \/ Type
  <2>1. FlagFirst'
    BY <1>6 DEF Watcher, ReceiveSignal, Cancel, StopWatching, Timeout, Signal,
       Type, ReportInv, FlagFirst
  <2>2. UNCHANGED <<opts, pc, fate, code, atLoad, printed>>
    BY <1>6 DEF Watcher, ReceiveSignal, Cancel, StopWatching, Timeout, Signal, Type
  <2> QED
    BY <2>1, <2>2, SilentStep
<1> QED
  BY <1>1, <1>2, <1>3, <1>4, <1>5, <1>6 DEF Next, Main, Exited

(* Report and exit code agree: one JSON envelope, carrying the code the    *)
(* process exits with, and 130 when the context was canceled before the    *)
(* result was settled.                                                     *)
THEOREM ReportAgrees == Spec => []ReportMatchesExit
<1>1. Init => ReportInv
  BY DEF Init, ReportInv, FlagFirst, Unreported, Settled, ReportMatchesExit
<1>2. ReportInv => ReportMatchesExit
  BY DEF ReportInv
<1> QED
  BY <1>1, <1>2, TypeCorrect, ReportStep, PTL DEF Spec

----------------------------------------------------------------------------
(* Only a run that has sent DROP DATABASE can find the database dropped,   *)
(* and from there it recreates it or fails with something other than a     *)
(* denial; a context that ended before the sending kept it from being sent. *)
AfterDrop == {"create", "creating", "returned", "deferred", "exited"}

SpareInv ==
  /\ ~Done => endedAt = "never"
  /\ database = "dropped" => pc \in AfterDrop /\ endedAt \notin BeforeDrop
  /\ database = "dropped" /\ pc \in {"returned", "deferred", "exited"} =>
       failed /\ "denied" \notin chain
  /\ database = "dropped" /\ pc = "exited" => code \notin {0, 12}
  /\ pc = "dropping" => endedAt \notin BeforeDrop

(* Steps of Deploy that leave the database as it is keep SpareInv, when    *)
(* only a live context takes them into the drop.                           *)
LEMMA SpareStep ==
  ASSUME TypeOK, SpareInv, UNCHANGED <<ctx, endedAt, database>>, pc \notin AfterDrop,
         pc' = "dropping" => ~Done
  PROVE  SpareInv'
BY DEF SpareInv, Done, AfterDrop, BeforeDrop

(* Every action of DeployCommand keeps SpareInv.                           *)
LEMMA SpareNext == TypeOK /\ SpareInv /\ [Next]_vars => SpareInv'
<1> SUFFICES ASSUME TypeOK, SpareInv, [Next]_vars PROVE SpareInv'
  OBVIOUS
<1> USE DEF flow, fate, async
<1>1. CASE UNCHANGED vars
  BY <1>1 DEF vars, SpareInv, Done
<1>2. CASE \/ Configure \/ Watch \/ Validate \/ Dial \/ DialCut \/ Retry \/ Backoff
           \/ CreateIfMissing \/ Approve \/ PrepareDrop \/ SendDrop \/ Exec
  <2>1. UNCHANGED <<ctx, endedAt, database>> /\ pc \notin AfterDrop
    BY <1>2 DEF Configure, Watch, Validate, Dial, DialCut, Retry, Backoff,
       CreateIfMissing, Approve, PrepareDrop, SendDrop, Exec, AfterDrop
  <2>2. pc' = "dropping" => ~Done
    BY <1>2 DEF Configure, Watch, Validate, Dial, DialCut, Retry, Backoff,
       CreateIfMissing, Approve, AskInteractive, CountDown, PrepareDrop, SendDrop,
       Exec, Query, Refused, Rejected, Goto, Fail, AfterDial
  <2> QED
    BY <2>1, <2>2, SpareStep
<1>3. CASE Drop
  <2>1. pc = "dropping" /\ UNCHANGED <<ctx, endedAt>> /\ endedAt \notin BeforeDrop
        /\ database # "dropped"
    BY <1>3 DEF Drop, SpareInv, AfterDrop
  <2>2. CASE pc' = "create"
    BY <2>1, <2>2 DEF SpareInv, Done, AfterDrop
  <2>3. CASE pc' = "returned" /\ failed' /\ "denied" \notin chain'
    BY <2>1, <2>3 DEF SpareInv, Done, AfterDrop
  <2>4. pc' = "create" \/ (pc' = "returned" /\ failed' /\ "denied" \notin chain')
    BY <1>3 DEF Drop, Hangs, Goto, Fail, CtxErr, Done, TypeOK
  <2> QED
    BY <2>2, <2>3, <2>4
<1>4. CASE SendCreate \/ Create
  <2>1. pc \in {"create", "creating"} /\ UNCHANGED <<ctx, endedAt>>
        /\ (database' = "dropped" => database = "dropped")
    BY <1>4 DEF SendCreate, Create, Hangs
  <2>2. \/ pc' = "creating"
        \/ pc' = "dial" /\ database' = "new"
        \/ pc' = "returned" /\ failed' /\ "denied" \notin chain'
    BY <1>4 DEF SendCreate, Create, Query, Refused, Rejected, Hangs, Goto, Fail,
       CtxErr, Done, TypeOK
  <2> QED
    BY <2>1, <2>2 DEF SpareInv, Done, AfterDrop
<1>5. CASE FinishDeploy
  <2>1. pc = "returned" /\ pc' = "deferred" /\ UNCHANGED <<ctx, endedAt, database>>
    BY <1>5 DEF FinishDeploy
  <2>2. failed => failed'
    BY <1>5 DEF FinishDeploy, Fold
  <2>3. "denied" \notin chain => "denied" \notin chain'
    BY <1>5 DEF FinishDeploy, Fold
  <2> QED
    BY <2>1, <2>2, <2>3 DEF SpareInv, Done, AfterDrop
<1>6. CASE Exit
  <2>1. pc = "deferred" /\ pc' = "exited" /\ UNCHANGED <<ctx, endedAt, database, fate>>
        /\ code' = ExitCodeForError(failed, chain)
    BY <1>6 DEF Exit, Goto
  <2>2. database = "dropped" => failed /\ "denied" \notin chain
    BY <2>1 DEF SpareInv
  <2>3. failed /\ "denied" \notin chain => code' \notin {0, 12}
    BY <2>1, ExitCodeFacts DEF TypeOK
  <2> QED
    BY <2>1, <2>2, <2>3 DEF SpareInv, Done, AfterDrop
<1>7. CASE Cancel \/ Timeout
  <2>1. UNCHANGED <<pc, fate, database, code>> /\ Done'
    BY <1>7 DEF Cancel, Timeout, Done
  <2>2. endedAt' = endedAt \/ endedAt' = pc
    BY <1>7 DEF Cancel, Timeout
  <2> QED
    BY <2>1, <2>2 DEF SpareInv, Done, AfterDrop, BeforeDrop
<1>8. CASE ReceiveSignal \/ StopWatching \/ Signal \/ Type
  BY <1>8 DEF ReceiveSignal, StopWatching, Signal, Type, SpareInv, Done
<1> QED
  BY <1>1, <1>2, <1>3, <1>4, <1>5, <1>6, <1>7, <1>8 DEF Next, Main, Watcher, Exited

(* An abort before DROP DATABASE is sent spares the database, whichever    *)
(* approver let the run come that far, and a run that leaves the name      *)
(* without a database exits neither with success nor with a denial.        *)
THEOREM AbortSpares == Spec => []AbortSparesDatabase
<1>1. Init => SpareInv
  BY DEF Init, SpareInv, Done, BeforeDrop
<1>2. SpareInv => AbortSparesDatabase
  BY DEF SpareInv, AbortSparesDatabase
<1> QED
  BY <1>1, <1>2, TypeCorrect, SpareNext, PTL DEF Spec
=============================================================================
