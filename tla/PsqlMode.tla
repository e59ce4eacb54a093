------------------------------ MODULE PsqlMode ------------------------------
(***************************************************************************)
(* executeDeploySQL: the units SplitExecutionUnits cuts are sent one by    *)
(* one on a single connection, stopping at the first failure; then         *)
(* Session.Close rolls back whatever is still open.  PostgreSQL's          *)
(* transaction rules for simple-query messages (external) decide what      *)
(* becomes durable, and DeployResult says what pgmi reports of it.         *)
(***************************************************************************)
EXTENDS StatementSplit

CONSTANTS
  Kinds,     \* statement kinds an author writes deploy.sql with
  MaxLen     \* statements in the longest script

ASSUME KindsHaveMasks == Kinds \subseteq DOMAIN Mask
ASSUME MaxLenIsNat == MaxLen \in Nat

VARIABLES
  script,    \* deploy.sql after macro expansion, as statement kinds
  phase,     \* "writing", "running", "ended" (loop left), "closed"
  units,     \* units still to send, each the positions of its statements
  sent,      \* units that returned without error
  at,        \* next statement of the unit being executed
  block,     \* transaction block: "none", "implicit", "explicit"
  pending,   \* writes of the open transaction
  durable,   \* writes that are committed
  result     \* DeployResult: ExecutionMode and UnitsCommitted

vars == <<script, phase, units, sent, at, block, pending, durable, result>>

Statement == {"write", "fail", "concurrent", "begin", "commit", "end_work", "rollback",
              "chain", "rollback_to", "prepared", "rule", "function", "empty_body", "end_column"}
Writes == {"write", "rule", "function", "empty_body", "end_column"}

(* The statements of each unit, by their position in the script.           *)
Lies(s, i, unit) ==
  s[i] \in Statement /\ Len(MaskOf(SubSeq(s, 1, i))) \in unit[1]..unit[2]

Within(s, unit) ==
  LET found[i \in 0..Len(s)] ==
        IF i = 0 THEN <<>>
        ELSE IF Lies(s, i, unit) THEN Append(found[i-1], i) ELSE found[i-1]
  IN  found[Len(s)]

StatementsOf(s, u) == [k \in DOMAIN u |-> Within(s, u[k])]

UnitStatements(s) == StatementsOf(s, SplitExecutionUnits(MaskOf(s)))

NoResult == [mode |-> "none", committed |-> 0]

Init ==
  /\ script = <<>>
  /\ phase = "writing"
  /\ units = <<>>
  /\ sent = 0
  /\ at = 1
  /\ block = "none"
  /\ pending = {}
  /\ durable = {}
  /\ result = NoResult

Author ==
  /\ phase = "writing"
  /\ Len(script) < MaxLen
  /\ \E k \in Kinds : script' = Append(script, k)
  /\ UNCHANGED <<phase, units, sent, at, block, pending, durable, result>>

Split ==
  /\ phase = "writing"
  /\ phase' = "running"
  /\ units' = UnitStatements(script)
  /\ UNCHANGED <<script, sent, at, block, pending, durable, result>>

----------------------------------------------------------------------------
(* One statement of the message in flight                                  *)

Current == units[sent + 1]
InMessage == phase = "running" /\ sent < Len(units) /\ at <= Len(Current)
Kind == script[Current[at]]
Multi == Len(Current) > 1

(* A statement PostgreSQL refuses where it stands.                         *)
Refused ==
  \/ Kind \in {"fail", "rollback_to", "prepared"}
  \/ Kind = "concurrent" /\ (Multi \/ block # "none")
  \/ Kind = "chain" /\ block # "explicit"

ExecStatement ==
  /\ InMessage
  /\ ~Refused
  /\ at' = at + 1
  /\ LET written == pending \cup ({Current[at]} \cap {i \in DOMAIN script : script[i] \in Writes})
     IN  CASE Kind \in {"commit", "end_work"} ->
                durable' = durable \cup pending /\ pending' = {} /\ block' = "none"
           [] Kind = "chain" ->
                durable' = durable \cup pending /\ pending' = {} /\ UNCHANGED block
           [] Kind = "rollback" ->
                pending' = {} /\ block' = "none" /\ UNCHANGED durable
           [] Kind = "begin" ->
                block' = "explicit" /\ UNCHANGED <<pending, durable>>
           [] OTHER ->
                /\ block' = IF block = "none" THEN "implicit" ELSE block
                /\ pending' = written
                /\ UNCHANGED durable
  /\ UNCHANGED <<script, phase, units, sent, result>>

(* The end of a message commits an implicit block; conn.Exec returns nil.  *)
UnitDone ==
  /\ phase = "running" /\ sent < Len(units) /\ at > Len(Current)
  /\ sent' = sent + 1
  /\ at' = 1
  /\ IF block = "explicit" THEN UNCHANGED <<block, pending, durable>>
     ELSE block' = "none" /\ pending' = {} /\ durable' = durable \cup pending
  /\ UNCHANGED <<script, phase, units, result>>

(* conn.Exec returns an error: the rest of the message is skipped and its  *)
(* open transaction, implicit or explicit, will not commit.                *)
UnitFailed ==
  /\ InMessage
  /\ Refused
  /\ phase' = "ended"
  /\ result' = [mode |-> IF sent = 0 THEN "atomic" ELSE "psql", committed |-> sent]
  /\ IF block = "explicit" THEN UNCHANGED <<block, pending>>
     ELSE block' = "none" /\ pending' = {}
  /\ UNCHANGED <<script, units, sent, at, durable>>

AllSent ==
  /\ phase = "running" /\ sent = Len(units)
  /\ phase' = "ended"
  /\ result' = [mode |-> "none", committed |-> Len(units)]
  /\ UNCHANGED <<script, units, sent, at, block, pending, durable>>

(* ReleaseDeployLock: ROLLBACK when TxStatus is not idle.                  *)
Close_Commits ==
  /\ phase = "ended"
  /\ phase' = "closed"
  /\ block' = "none"
  /\ pending' = {}
  /\ durable' = durable \cup pending
  /\ UNCHANGED <<script, units, sent, at, result>>

Close ==
  /\ phase = "ended"
  /\ phase' = "closed"
  /\ block' = "none"
  /\ pending' = {}
  /\ UNCHANGED <<script, units, sent, at, durable, result>>

Closed == phase = "closed" /\ UNCHANGED vars

Next ==
  \/ Author \/ Split \/ ExecStatement \/ UnitDone \/ UnitFailed \/ AllSent
  \/ Close \/ Closed

Spec == Init /\ [][Next]_vars

----------------------------------------------------------------------------
(* The contract, read off the script                                       *)

Seqs(s) == {i \in DOMAIN s : s[i] \in Statement}
Ends(s) == {i \in Seqs(s) : s[i] \in Terminators}
HeadPart(s) == {i \in Seqs(s) : i <= HeadLast(s)}

(* i runs inside an explicit transaction opened before it.                 *)
InTransaction(s, i) ==
  \E b \in Seqs(s) :
    /\ b < i /\ s[b] \in {"begin", "chain"}
    /\ \A e \in Ends(s) : b < e => e >= i

(* The position at which the transaction of i is decided; Len + 1 when     *)
(* the script ends first.                                                  *)
DecidedAt(s, i) ==
  LET later == {e \in Ends(s) : e >= i}
  IN  IF i \in HeadPart(s) \/ InTransaction(s, i)
      THEN IF later = {} THEN Len(s) + 1 ELSE Min(later)
      ELSE i

(* Statements that cannot succeed where they stand.                        *)
Breaks(s, i) ==
  \/ s[i] \in {"fail", "rollback_to", "prepared"}
  \/ /\ s[i] = "concurrent"
     /\ InTransaction(s, i) \/ (i \in HeadPart(s) /\ HeadPart(s) # {i})
  \/ s[i] = "chain" /\ ~InTransaction(s, i)

Reached(s, i) == \A j \in Seqs(s) : j < i => ~Breaks(s, j)

Survives(s, i, d) ==
  /\ Reached(s, d)
  /\ IF d <= Len(s)
     THEN ~Breaks(s, d) /\ s[d] # "rollback"
     ELSE ~InTransaction(s, i) /\ \A b \in HeadPart(s) : s[b] # "begin"

Documented(s) == {i \in Seqs(s) : s[i] \in Writes /\ Survives(s, i, DecidedAt(s, i))}

(* Every variable has its type, and once the session is closed no          *)
(* transaction is left open behind it.                                     *)
TypeOK ==
  /\ script \in Seq(Kinds) /\ Len(script) <= MaxLen
  /\ phase \in {"writing", "running", "ended", "closed"}
  /\ sent \in 0..Len(units) /\ at \in Nat
  /\ block \in {"none", "implicit", "explicit"}
  /\ pending \subseteq DOMAIN script /\ durable \subseteq DOMAIN script
  /\ pending \cap durable = {}
  /\ result \in [mode : {"none", "atomic", "psql"}, committed : 0..Len(units)]
  /\ phase = "closed" => block = "none" /\ pending = {}

(* The splitter recovers the author's statements: the head through the     *)
(* first terminator, then one unit per statement, whatever parentheses,    *)
(* function bodies, noise words and comments stand around them.            *)
SplitHonoursContract == UnitTexts(script) = ExpectedUnits(script)

(* What survives the deploy is exactly what the execution contract says of *)
(* the script: an atomic head, tail statements that autocommit, explicit   *)
(* tail transactions that commit or vanish whole, nothing past a failure.  *)
(* A result that says "atomic" means the head failed and nothing applied.  *)
DurableAsDocumented ==
  /\ phase = "closed" => durable = Documented(script)
  /\ result.mode = "atomic" => durable = {}
=============================================================================
