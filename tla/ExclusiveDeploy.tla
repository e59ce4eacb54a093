--------------------------- MODULE ExclusiveDeploy ---------------------------
(***************************************************************************)
(* What the per-database deploy lock promises, with no connections, pools  *)
(* or cleanup paths: a run enters one incarnation of the target database   *)
(* when no other run is inside it, writes its execution units there, and   *)
(* leaves for good.  Deployment.tla implements this specification.         *)
(***************************************************************************)
EXTENDS Naturals, Sequences

CONSTANT Runs            \* the `pgmi deploy` processes

VARIABLES
  at,                    \* at[r]: the incarnation r is inside, 0 when outside
  trace                  \* every unit applied, as [run |-> r, inc |-> i]

vars == <<at, trace>>

Init ==
  /\ at = [r \in Runs |-> 0]
  /\ trace = <<>>

HasWritten(r) == \E k \in DOMAIN trace : trace[k].run = r

(* A run enters an incarnation nobody is inside, and enters at most once.  *)
Enter(r) ==
  /\ at[r] = 0
  /\ ~HasWritten(r)
  /\ at'[r] \in Nat \ {0}
  /\ \A s \in Runs \ {r} : at[s] # at'[r]
  /\ at' = [at EXCEPT ![r] = at'[r]]
  /\ UNCHANGED trace

Write(r) ==
  /\ at[r] # 0
  /\ trace' = Append(trace, [run |-> r, inc |-> at[r]])
  /\ UNCHANGED at

Leave(r) ==
  /\ at[r] # 0
  /\ at' = [at EXCEPT ![r] = 0]
  /\ UNCHANGED trace

Next == \E r \in Runs : Enter(r) \/ Write(r) \/ Leave(r)

Spec == Init /\ [][Next]_vars

----------------------------------------------------------------------------
TypeOK ==
  /\ at \in [Runs -> Nat]
  /\ trace \in Seq([run : Runs, inc : Nat \ {0}])

Exclusive == \A r, s \in Runs : r # s /\ at[r] # 0 => at[r] # at[s]

(* Between two units of one run, no other run's unit was applied to the    *)
(* same incarnation: deploy.sql scripts are never interleaved.             *)
SerialScripts ==
  \A i, j, k \in DOMAIN trace :
    /\ i < j /\ j < k
    /\ trace[i] = trace[k]
    /\ trace[j].inc = trace[i].inc
    => trace[j].run = trace[i].run

(* All the units of one run went to one incarnation of the database.       *)
OneIncarnation ==
  \A i, j \in DOMAIN trace :
    trace[i].run = trace[j].run => trace[i].inc = trace[j].inc

----------------------------------------------------------------------------
(* A run inside an incarnation has written only there, and since its first *)
(* unit nobody else has.                                                   *)
InsideWritesHere ==
  \A k \in DOMAIN trace :
    at[trace[k].run] # 0 => trace[k].inc = at[trace[k].run]

NoneSince ==
  \A i, k \in DOMAIN trace :
    i < k /\ at[trace[i].run] # 0 /\ trace[k].inc = trace[i].inc
    => trace[k].run = trace[i].run

IInv == TypeOK /\ Exclusive /\ InsideWritesHere /\ NoneSince /\ SerialScripts
        /\ OneIncarnation
=============================================================================
