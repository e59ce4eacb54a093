----------------------------- MODULE ScriptText -----------------------------
(***************************************************************************)
(* What pgmi does with the mask of deploy.sql: find the pgmi_test macros   *)
(* and splice their expansion in, and pad the units behind the first       *)
(* COMMIT so that the positions the server reports resolve in the script.  *)
(***************************************************************************)
EXTENDS CommentScanner

\* The macro's SQL, of another length than the call.
Generated == <<"G", ";", "G">>

\* Detect: a call that shows in the mask, with a byte before it that is no ASCII
\* letter, unless the text begins there.  A match takes the call's semicolon, so
\* that byte is gone for a call directly behind one that was found.
Detect(t, mask) ==
    LET found[i \in 0..Len(t)] ==
            /\ i > 0 /\ mask[ByteAt(t, i) + 1] = "M"
            /\ i = 1 \/ (mask[ByteAt(t, i)] \notin {"a", "e", "E"} /\ ~found[i - 1])
    IN  {i \in DOMAIN t : found[i]}

Splice(t, i) == SubSeq(t, 1, i - 1) \o Generated \o SubSeq(t, i + 1, Len(t))

\* Slip: the calls are replaced from the first to the last, at the offsets of
\* the original text.
Expand_FromFirst(t, calls) ==
    LET done[k \in 0..Len(t)] ==
            IF k = 0 THEN t
            ELSE IF k \in calls THEN Splice(done[k - 1], k) ELSE done[k - 1]
    IN  done[Len(t)]

\* Process: from the last to the first, so that offsets stay good.
Expand(t, calls) ==
    LET done[k \in 0..Len(t)] ==
            IF k = 0 THEN t
            ELSE IF Len(t) + 1 - k \in calls THEN Splice(done[k - 1], Len(t) + 1 - k)
            ELSE done[k - 1]
    IN  done[Len(t)]

\* As many newlines as the text has.
Newlines(t) == [i \in 1..Cardinality({k \in DOMAIN t : t[k] = "\n"}) |-> "\n"]

\* The characters behind the last newline.
LastLine(t) ==
    LET breaks == {i \in DOMAIN t : t[i] = "\n"}
    IN  SubSeq(t, (IF breaks = {} THEN 0 ELSE Max(breaks)) + 1, Len(t))

\* Slip: the newlines of earlier lines are forgotten.
PadPrefix_LastLine(t, end) == Spaces(LastLine(SubSeq(t, 1, end)))

\* padPrefix: the newlines of the text up to end, then a space for each BYTE
\* since the last of them.
PadPrefix(t, end) == Newlines(SubSeq(t, 1, end)) \o Spaces(LastLine(SubSeq(t, 1, end)))

\* The text sent for the statement behind the semicolon at end.
TailUnit(t, end) == PadPrefix(t, end) \o SubSeq(t, end + 1, Len(t))

\* resolvePosition: line and column of the character at a position counted
\* from 1 in characters, by a walk over those before it.
ResolvePosition(t, p) ==
    LET at[i \in 0..p - 1] ==
            IF i = 0 THEN <<1, 1>>
            ELSE IF t[i] = "\n" THEN <<at[i - 1][1] + 1, 1>>
            ELSE <<at[i - 1][1], at[i - 1][2] + 1>>
    IN  at[p - 1]
=============================================================================
