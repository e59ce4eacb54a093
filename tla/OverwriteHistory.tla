-------------------------- MODULE OverwriteHistory --------------------------
(***************************************************************************)
(* Deployment with a history variable: whether some overwriting run has    *)
(* read the database's settings while another run was still putting them   *)
(* back.  handleOverwrite reads them before it holds any lock, so nothing  *)
(* keeps two overwrites apart there.  The variable restricts no step.      *)
(***************************************************************************)
EXTENDS Deployment

VARIABLE torn  \* a Settings step has run inside another run's restoration

historyVars == <<vars, torn>>

(* A run between its DROP DATABASE and the last ALTER DATABASE: what the   *)
(* operator had set is in the process's memory only.                       *)
Waiting(r)   == pc[r] = "create" /\ saved[r].present
Restoring(r) == Waiting(r) \/ pc[r] = "alter"

TornRead == \E r, s \in Runs : Settings(r) /\ Restoring(s)

HistoryInit == Init /\ torn = FALSE

HistoryNext == Next /\ torn' = (torn \/ TornRead)

HistorySpec == HistoryInit /\ [][HistoryNext]_historyVars

HistoryFairSpec == HistorySpec /\ Fairness

----------------------------------------------------------------------------
(* Properties                                                              *)

(* When every run reports success, the database carries what the operator  *)
(* had set on it, however many runs dropped and recreated it, unless one   *)
(* of them read the settings of a database that another was still          *)
(* restoring: handleOverwrite reads them so that the flag "only promises   *)
(* to empty" the database, but two overlapping overwrites can rebuild it   *)
(* from defaults, and only by such a reading.                              *)
CleanRunsKeepSettings ==
  (\A r \in Runs : outcome[r] = "Success") /\ ~torn => settings = configured
=============================================================================
