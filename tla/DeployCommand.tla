---------------------------- MODULE DeployCommand ----------------------------
(***************************************************************************)
(* One `pgmi deploy` process from runDeploy to os.Exit: the goroutine that *)
(* runs Deploy, the goroutine that waits for a signal, the --timeout       *)
(* clock, the connectors' retry loop, the overwrite approvers, and the     *)
(* report and exit code finishDeploy settles.  What Deploy does to the     *)
(* cluster is Deployment.tla's; here its calls succeed, fail, or return    *)
(* because the context is done.                                            *)
(*                                                                         *)
(* An error is the set of sentinels errors.Is finds in its chain.          *)
(***************************************************************************)
EXTENDS Naturals, Sequences

CONSTANTS
  MaxRetries,     \* DefaultRetryMaxAttempts
  Countdown       \* seconds --force leaves for Ctrl-C

ASSUME BoundsAreNat == MaxRetries \in Nat /\ Countdown \in Nat

(* "deadline" is --timeout's; a dial's own connect_timeout carries the      *)
(* connection sentinel and counts as a plain connection failure.           *)
Sentinels == {"canceled", "deadline", "config", "nodeploysql", "denied",
              "connection", "concurrent", "auth", "execution", "usage"}

VARIABLES
  opts,        \* --overwrite, --json, and the approver selectApprover chose
  pc,          \* the goroutine running runDeploy
  dialing,     \* what Connect is for: "target", "maintenance", "session"
  attempts,    \* operations the retry executor has started for it
  seconds,     \* countdown still to run
  answer,      \* what stdin has said to the prompt
  failed,      \* Deploy's error is not nil,
  chain,       \*   and the sentinels it wraps
  ctx,         \* "live", "canceled", "deadline"
  sigChan,     \* signal delivered and not yet received
  watcher,     \* the signal goroutine: "off", "select", "cancel", "gone"
  interrupted, \* the atomic.Bool
  atLoad,      \* history: ctx when interrupted.Load() ran
  database,    \* the target: as found, "missing", "dropped" or "new"
  endedAt,     \* history: pc when the context became done
  printed,     \* exit codes of the JSON envelopes on stdout
  code         \* the process's exit code; 999 while it runs

flow == <<opts, pc, dialing, attempts, seconds>>
fate == <<failed, chain>>
async == <<answer, ctx, sigChan, watcher, interrupted>>
vars == <<flow, fate, async, atLoad, database, endedAt, printed, code>>

(* What Deploy does up to the sending of DROP DATABASE.                    *)
BeforeDrop == {"validate", "ensure", "approve", "settings", "terminate", "drop"}
PC == BeforeDrop \cup {"config", "notify", "dial", "retry", "backoff", "dropping",
      "create", "creating", "exec", "returned", "deferred", "exited"}

Approvers == {"interactive", "forced", "scripted", "noninteractive"}
Answers == {"match", "other", "eof", "error"}
Running == 999

Init ==
  /\ opts \in [overwrite : BOOLEAN, json : BOOLEAN, approver : Approvers]
  /\ pc = "config"
  /\ dialing = IF opts.overwrite THEN "maintenance" ELSE "target"
  /\ attempts = 0
  /\ seconds = Countdown
  /\ answer = "none"
  /\ failed = FALSE /\ chain = {}
  /\ ctx = "live"
  /\ sigChan = FALSE
  /\ watcher = "off"
  /\ interrupted = FALSE
  /\ atLoad = "live"
  /\ database \in {"old", "missing"}
  /\ endedAt = "never"
  /\ printed = <<>>
  /\ code = Running

Goto(l) == pc' = l /\ UNCHANGED <<opts, dialing, attempts, seconds, fate>>

Fail(sentinels) ==
  /\ pc' = "returned"
  /\ failed' = TRUE
  /\ chain' = sentinels
  /\ UNCHANGED <<opts, dialing, attempts, seconds>>

Done == ctx # "live"
CtxErr == {ctx}

----------------------------------------------------------------------------
(* runDeploy                                                               *)

(* Project config, wizard, buildDeploymentConfig: no Deploy, no watcher    *)
(* yet, and on failure only the deferred envelope.                         *)
Configure ==
  /\ pc = "config"
  /\ \/ Goto("notify")
     \/ \E e \in {{"config"}, {"denied"}, {}} :
          /\ pc' = "deferred" /\ failed' = TRUE /\ chain' = e
          /\ UNCHANGED <<opts, dialing, attempts, seconds>>
  /\ UNCHANGED <<async, atLoad, database, endedAt, printed, code>>

(* deadlineContext, signal.Notify, the goroutine; then Deploy begins.      *)
Watch ==
  /\ pc = "notify"
  /\ watcher' = "select"
  /\ Goto("validate")
  /\ UNCHANGED <<answer, ctx, sigChan, interrupted, atLoad, database, endedAt, printed, code>>

(* validateAndParseConfig, ScanProject, contract.Load: all offline.        *)
Validate ==
  /\ pc = "validate"
  /\ Goto("dial") \/ \E e \in {{"config"}, {"nodeploysql"}, {}} : Fail(e)
  /\ UNCHANGED <<async, atLoad, database, endedAt, printed, code>>

----------------------------------------------------------------------------
(* Executor.Execute around one connection attempt                          *)

(* attempt < maxAttempts after the first operation.                        *)
RetriesLeft == attempts <= MaxRetries

(* Where Deploy goes once this connection stands.                          *)
AfterDial ==
  CASE dialing = "target"      -> [pc |-> "dial", dialing |-> "session"]
    [] dialing = "maintenance" -> [pc |-> "ensure", dialing |-> "session"]
    [] dialing = "session"     -> [pc |-> "exec", dialing |-> "session"]

(* One operation: it connects, fails transiently, is refused because the   *)
(* probed database does not exist, or fails for good, an authentication    *)
(* method without a connector included.                                    *)
Dial ==
  /\ pc = "dial"
  /\ ~Done
  /\ \/ /\ pc' = "retry" /\ attempts' = attempts + 1
        /\ UNCHANGED <<opts, dialing, seconds, fate>>
     \/ /\ dialing = "target" => database = "old"
        /\ pc' = AfterDial.pc /\ dialing' = AfterDial.dialing /\ attempts' = 0
        /\ UNCHANGED <<opts, seconds, fate>>
     \/ /\ dialing = "target" /\ database = "missing" /\ dialing' = "maintenance" /\ attempts' = 0
        /\ UNCHANGED <<opts, pc, seconds, fate>>
     \/ \E e \in {{"connection"}, {"auth"}, {}} : Fail(e)
  /\ UNCHANGED <<async, atLoad, database, endedAt, printed, code>>

(* The context ends the dial, or was over before it: wrapConnectionError   *)
(* tags the context's error, unless a transport timeout makes it transient. *)
DialCut ==
  /\ pc = "dial"
  /\ Done
  /\ \/ /\ pc' = "retry" /\ attempts' = attempts + 1
        /\ UNCHANGED <<opts, dialing, seconds, fate>>
     \/ Fail({"connection"} \cup CtxErr)
  /\ UNCHANGED <<async, atLoad, database, endedAt, printed, code>>

(* After a transient failure: out of retries, the context over, or sleep.  *)
Retry ==
  /\ pc = "retry"
  /\ IF ~RetriesLeft THEN Fail({"connection"}) \/ (Done /\ Fail({"connection"} \cup CtxErr))
     ELSE IF Done THEN Fail(CtxErr)
     ELSE Goto("backoff")
  /\ UNCHANGED <<async, atLoad, database, endedAt, printed, code>>

(* timer.C against ctx.Done(): when both are ready either branch may win.  *)
Backoff ==
  /\ pc = "backoff"
  /\ Goto("dial") \/ (Done /\ Fail(CtxErr))
  /\ UNCHANGED <<async, atLoad, database, endedAt, printed, code>>

----------------------------------------------------------------------------
(* createIfMissing, RequestApproval, the destructive part of handleOverwrite *)

Refused == Done /\ Fail(CtxErr)
Rejected(sentinels) == ~Done /\ Fail(sentinels)

Query_Detached(l) == Fail({}) \/ Goto(l)

(* Acquiring a connection and sending a statement: refused once the        *)
(* context is done, else it may fail before it has any effect.             *)
Query(l) == Refused \/ Rejected({}) \/ (~Done /\ Goto(l))

(* The existence query, and what its answer leads to.                      *)
CreateIfMissing ==
  /\ pc = "ensure"
  /\ Query(IF database = "missing" THEN "create"
           ELSE IF opts.overwrite THEN "approve" ELSE "dial")
  /\ UNCHANGED <<async, atLoad, database, endedAt, printed, code>>

AskInteractive_Deaf ==
  \/ answer = "match" /\ Goto("settings")
  \/ answer \in {"other", "eof"} /\ Fail({"denied"})
  \/ answer = "error" /\ Fail({})

(* ReadString in a goroutine against ctx.Done().                           *)
AskInteractive ==
  \/ Done /\ Fail(CtxErr)
  \/ answer = "match" /\ Goto("settings")
  \/ answer \in {"other", "eof"} /\ Fail({"denied"})
  \/ answer = "error" /\ Fail({})

(* One second of the countdown against ctx.Done(), or its end.             *)
CountDown ==
  \/ Done /\ seconds > 0 /\ Fail(CtxErr)
  \/ /\ seconds > 0
     /\ seconds' = seconds - 1
     /\ UNCHANGED <<opts, pc, dialing, attempts, fate>>
  \/ seconds = 0 /\ Goto("settings")

Approve ==
  /\ pc = "approve"
  /\ \/ opts.approver = "interactive" /\ AskInteractive
     \/ opts.approver = "forced" /\ CountDown
     \/ opts.approver = "scripted" /\ Goto("settings")
     \/ opts.approver = "noninteractive" /\ Fail({"denied"})
  /\ UNCHANGED <<async, atLoad, database, endedAt, printed, code>>

(* Settings and TerminateConnections, one statement each.                  *)
PrepareDrop ==
  /\ \/ pc = "settings" /\ Query("terminate")
     \/ pc = "terminate" /\ Query("drop")
  /\ UNCHANGED <<async, atLoad, database, endedAt, printed, code>>

SendDrop ==
  /\ pc = "drop" /\ Query("dropping")
  /\ UNCHANGED <<async, atLoad, database, endedAt, printed, code>>

(* The statement ends as the server says or, once the context is done, by  *)
(* the client hanging up on a server that may still carry it out.          *)
Hangs(effect) == Done /\ Fail(CtxErr) /\ database' \in {database, effect}

Drop ==
  /\ pc = "dropping"
  /\ \/ Goto("create") /\ database' = "dropped"
     \/ Fail({}) /\ UNCHANGED database
     \/ Hangs("dropped")
  /\ UNCHANGED <<async, atLoad, endedAt, printed, code>>

SendCreate ==
  /\ pc = "create" /\ Query("creating")
  /\ UNCHANGED <<async, atLoad, database, endedAt, printed, code>>

(* CREATE DATABASE and, for settings to restore, the ALTERs after it; a    *)
(* duplicate is another deployment's.                                      *)
Create ==
  /\ pc = "creating"
  /\ \/ Goto("dial") /\ database' = "new"
     \/ Fail({"concurrent"}) /\ UNCHANGED database
     \/ Fail({}) /\ database' \in {database, "new"}
     \/ Hangs("new")
  /\ UNCHANGED <<async, atLoad, endedAt, printed, code>>

(* The rest of Deploy: lock, tables, deploy.sql.                           *)
Exec ==
  /\ pc = "exec"
  /\ \/ Goto("returned")
     \/ \E e \in {{"concurrent"}, {"config"}, {"execution"}, {}} : Fail(e)
     \/ Done /\ (Fail(CtxErr) \/ Fail({"execution"} \cup CtxErr))
  /\ UNCHANGED <<async, atLoad, database, endedAt, printed, code>>

----------------------------------------------------------------------------
(* finishDeploy, the deferred envelope, main                               *)

(* The sentinels in the order ExitCodeForError asks for them, and the exit *)
(* code of each.                                                           *)
Ranked == <<"canceled", "concurrent", "config", "nodeploysql", "denied",
            "connection", "auth", "deadline", "execution", "usage">>
ExitCodes == <<130, 15, 10, 14, 12, 11, 10, 16, 13, 2>>

(* The first sentinel found decides; an error without any exits 1.         *)
ExitCodeForError(f, c) ==
  LET found == {i \in 1..10 : Ranked[i] \in c} IN
  IF ~f THEN 0
  ELSE IF found = {} THEN 1
  ELSE ExitCodes[CHOOSE i \in found : \A j \in found : i <= j]

Fold ==
  IF interrupted THEN failed' = TRUE /\ chain' = chain \cup {"canceled"}
  ELSE UNCHANGED fate

FinishDeploy_ReportsFirst ==
  /\ pc = "returned"
  /\ Fold
  /\ atLoad' = ctx
  /\ printed' = IF opts.json THEN Append(printed, ExitCodeForError(failed, chain)) ELSE printed
  /\ pc' = "deferred"
  /\ UNCHANGED <<opts, dialing, attempts, seconds, async, database, endedAt, code>>

(* interrupted.Load(), fold, report.                                       *)
FinishDeploy ==
  /\ pc = "returned"
  /\ Fold
  /\ atLoad' = ctx
  /\ printed' = IF opts.json THEN Append(printed, ExitCodeForError(failed', chain')) ELSE printed
  /\ pc' = "deferred"
  /\ UNCHANGED <<opts, dialing, attempts, seconds, async, database, endedAt, code>>

(* runDeploy's deferred function, then os.Exit.                            *)
Exit ==
  /\ pc = "deferred"
  /\ printed' = IF failed /\ opts.json /\ printed = <<>>
                THEN <<ExitCodeForError(failed, chain)>> ELSE printed
  /\ code' = ExitCodeForError(failed, chain)
  /\ Goto("exited")
  /\ UNCHANGED <<async, atLoad, database, endedAt>>

----------------------------------------------------------------------------
(* The other goroutine, the clock, the user                                *)

ReceiveSignal ==
  /\ watcher = "select" /\ sigChan
  /\ sigChan' = FALSE
  /\ interrupted' = TRUE
  /\ watcher' = "cancel"
  /\ UNCHANGED <<flow, fate, answer, ctx, atLoad, database, endedAt, printed, code>>

Cancel ==
  /\ watcher = "cancel"
  /\ ctx' = IF Done THEN ctx ELSE "canceled"
  /\ endedAt' = IF Done THEN endedAt ELSE pc
  /\ watcher' = "gone"
  /\ UNCHANGED <<flow, fate, answer, sigChan, interrupted, atLoad, database, printed, code>>

(* case <-ctx.Done(), also once runDeploy has returned.                    *)
StopWatching ==
  /\ watcher = "select"
  /\ Done \/ pc = "exited"
  /\ watcher' = "gone"
  /\ UNCHANGED <<flow, fate, answer, ctx, sigChan, interrupted, atLoad, database, endedAt, printed, code>>

Timeout ==
  /\ ~Done /\ pc \notin {"config", "notify", "exited"}
  /\ ctx' = "deadline"
  /\ endedAt' = pc
  /\ UNCHANGED <<flow, fate, answer, sigChan, watcher, interrupted, atLoad, database, printed, code>>

(* The channel holds one signal; more are dropped.                         *)
Signal ==
  /\ watcher # "off" /\ pc # "exited"
  /\ ~sigChan
  /\ sigChan' = TRUE
  /\ UNCHANGED <<flow, fate, answer, ctx, watcher, interrupted, atLoad, database, endedAt, printed, code>>

Type ==
  /\ pc = "approve" /\ opts.approver = "interactive" /\ answer = "none"
  /\ answer' \in Answers
  /\ UNCHANGED <<flow, fate, ctx, sigChan, watcher, interrupted, atLoad, database, endedAt, printed, code>>

Exited == pc = "exited" /\ watcher \in {"off", "gone"} /\ UNCHANGED vars

----------------------------------------------------------------------------
Main ==
  \/ Configure \/ Watch \/ Validate \/ Dial \/ DialCut \/ Retry \/ Backoff
  \/ CreateIfMissing \/ Approve \/ PrepareDrop \/ SendDrop \/ Drop
  \/ SendCreate \/ Create \/ Exec \/ FinishDeploy \/ Exit

Watcher == ReceiveSignal \/ Cancel \/ StopWatching

Next == Main \/ Watcher \/ Timeout \/ Signal \/ Type \/ Exited

Spec == Init /\ [][Next]_vars

(* A dial, a prompt or a statement may take for ever on its own; once the  *)
(* context is done every one of them returns.  The signal goroutine runs.  *)
Fairness == WF_vars(Done /\ Main) /\ WF_vars(Watcher)

FairSpec == Spec /\ Fairness

----------------------------------------------------------------------------
(* Properties                                                              *)

(* Every variable has its type; a connection is tried at most once plus    *)
(* MaxRetries times.                                                       *)
TypeOK ==
  /\ opts \in [overwrite : BOOLEAN, json : BOOLEAN, approver : Approvers]
  /\ pc \in PC
  /\ dialing \in {"target", "maintenance", "session"}
  /\ attempts \in Nat /\ (pc \in {"retry", "backoff"} => attempts <= MaxRetries + 1)
  /\ seconds \in 0..Countdown
  /\ answer \in Answers \cup {"none"}
  /\ failed \in BOOLEAN /\ chain \subseteq Sentinels
  /\ ctx \in {"live", "canceled", "deadline"} /\ atLoad \in {"live", "canceled", "deadline"}
  /\ sigChan \in BOOLEAN /\ interrupted \in BOOLEAN
  /\ database \in {"old", "missing", "dropped", "new"}
  /\ endedAt \in PC \cup {"never"}
  /\ watcher \in {"off", "select", "cancel", "gone"}
  /\ printed \in Seq(Nat) /\ code \in Nat

(* With --json exactly one envelope is printed, and it carries the code    *)
(* the process exits with, whatever failed and whenever Ctrl-C came.  A    *)
(* Ctrl-C that cancelled the context before the deployment's result was    *)
(* settled is what the process exits on, even if Deploy returned success   *)
(* or an unrelated error.                                                  *)
ReportMatchesExit ==
  pc = "exited" => /\ printed = IF opts.json THEN <<code>> ELSE <<>>
                   /\ atLoad = "canceled" => code = 130

(* "Ctrl-C aborts": a run whose context ended while the prompt or the      *)
(* countdown was up, or at any point before DROP DATABASE was sent, leaves *)
(* the database alone, though the confirmation may win the race against    *)
(* the cancellation in RequestApproval's select.  Once it was sent, an     *)
(* abort can leave the name without a database: then the process exits     *)
(* neither 0 nor 12 (approval denied).                                     *)
AbortSparesDatabase ==
  /\ endedAt \in BeforeDrop => database # "dropped"
  /\ pc = "exited" /\ database = "dropped" => code \notin {0, 12}

(* Once a signal is in or the timeout has passed, the process exits: no    *)
(* prompt, countdown, backoff or statement outlasts the context.           *)
DoneRunsExit == Done ~> pc = "exited"
=============================================================================
