--------------------------- MODULE StatementSplit ---------------------------
(***************************************************************************)
(* SplitExecutionUnits: cutting deploy.sql into the simple-query messages  *)
(* it is sent as.  The text is seen the way the splitter sees it, through  *)
(* RedactForMacros: letter runs in upper case, "lpar" and "rpar", "semi"   *)
(* for a semicolon and "char" for any other character.  White space,       *)
(* comments and the insides of literals leave nothing.  An identifier such *)
(* as end_date is three items.                                             *)
(***************************************************************************)
EXTENDS Naturals, Sequences, SequencesExt

IsWord(x) == x \notin {"lpar", "rpar", "semi", "char"}

(* firstWord: the position of the first word after i, and the word there.  *)
NextWord(m, i) ==
  LET later == {j \in i+1..Len(m) : IsWord(m[j])}
  IN  IF later = {} THEN Len(m) + 1 ELSE Min(later)

Word(m, i) == IF i <= Len(m) THEN m[i] ELSE "none"

IsBlank(m) == m = <<>>

(* WORK and TRANSACTION are noise; TO and PREPARED make it something else. *)
IsTransactionTerminator(stmt) ==
  LET first  == NextWord(stmt, 0)
      next   == NextWord(stmt, first)
      second == IF Word(stmt, next) \in {"WORK", "TRANSACTION"}
                THEN NextWord(stmt, next) ELSE next
  IN  /\ Word(stmt, first) \in {"COMMIT", "END", "ROLLBACK", "ABORT"}
      /\ Word(stmt, second) \in {"none", "AND"}

(* BEGIN ATOMIC ... END within one statement: an END that no CASE opened.  *)
ClosesBody_AnyEnd(rest) == "END" \in ToSet(rest)

ClosesBody(rest) ==
  LET depth[i \in 0..Len(rest)] ==
        IF i = 0 THEN 0
        ELSE CASE rest[i] = "CASE" -> depth[i-1] + 1
               [] rest[i] = "END"  -> IF depth[i-1] = 0 THEN 0 ELSE depth[i-1] - 1
               [] OTHER            -> depth[i-1]
  IN  \E i \in 1..Len(rest) : rest[i] = "END" /\ depth[i-1] = 0

AtomicAt(chunk, i) == chunk[i] = "BEGIN" /\ chunk[i+1] = "ATOMIC"

(* The chunk's first BEGIN ATOMIC, unless its END is in the same chunk.    *)
OpensBody(chunk) ==
  \E i \in 1..Len(chunk) - 1 :
    /\ AtomicAt(chunk, i)
    /\ \A j \in 1..i - 1 : ~AtomicAt(chunk, j)
    /\ ~ClosesBody(SubSeq(chunk, i + 2, Len(chunk)))

(* atomicBody.observe: does this semicolon end a statement?  If not, a     *)
(* function body is open after it.                                         *)
Observe(open, chunk) ==
  IF open THEN Word(chunk, NextWord(chunk, 0)) = "END" ELSE ~OpensBody(chunk)

AtSemicolon(s, i, ends) ==
  [depth |-> 0, chunk |-> i + 1, open |-> ~ends,
   ends |-> IF ends THEN Append(s.ends, i) ELSE s.ends]

Consume(s, m, i) ==
  CASE m[i] = "lpar" -> [s EXCEPT !.depth = @ + 1]
    [] m[i] = "rpar" -> [s EXCEPT !.depth = @ - 1]
    [] m[i] = "semi" /\ s.depth = 0 ->
         AtSemicolon(s, i, Observe(s.open, SubSeq(m, s.chunk, i - 1)))
    [] OTHER -> s

(* The scan both loops of SplitExecutionUnits make, from item `from` on:   *)
(* the positions of the semicolons that end a statement.                   *)
StatementEnds(m, from) ==
  LET scan[i \in (from - 1)..Len(m)] ==
        IF i < from
        THEN [depth |-> 0, chunk |-> from, open |-> FALSE, ends |-> <<>>]
        ELSE Consume(scan[i - 1], m, i)
  IN  scan[Len(m)].ends

(* [first, last] of each statement, the unterminated rest included.        *)
Ranges(from, ends, len) ==
  [k \in 1..Len(ends) + 1 |->
     <<IF k = 1 THEN from ELSE ends[k-1] + 1, IF k <= Len(ends) THEN ends[k] ELSE len>>]

Statements(m, from) == Ranges(from, StatementEnds(m, from), Len(m))

Text(m, r) == SubSeq(m, r[1], r[2])

TerminatorEnds(m, stmts) ==
  {stmts[k][2] : k \in {j \in DOMAIN stmts : IsTransactionTerminator(Text(m, stmts[j]))}}

(* The head ends with the first terminator; 0 when there is none.          *)
HeadEnd(ends) == IF ends = {} THEN 0 ELSE Min(ends)

(* A statement has at least its semicolon: only the rest can be blank.     *)
NonBlank(m, stmts) ==
  IF IsBlank(Text(m, stmts[Len(stmts)])) THEN Front(stmts) ELSE stmts

(* One unit up to h, one per statement after it.                           *)
Units(m, h) ==
  IF h = 0 \/ IsBlank(SubSeq(m, h + 1, Len(m)))
  THEN << <<1, Len(m)>> >>
  ELSE << <<1, h>> >> \o NonBlank(m, Statements(m, h + 1))

SplitExecutionUnits(m) == Units(m, HeadEnd(TerminatorEnds(m, Statements(m, 1))))

----------------------------------------------------------------------------
(* The statements a script is written from, as the mask shows them         *)

Mask ==
  [write       |-> <<"INSERT", "INTO", "char", "semi">>,
   fail        |-> <<"SELECT", "char", "semi">>,
   concurrent  |-> <<"CREATE", "INDEX", "CONCURRENTLY", "semi">>,
   begin       |-> <<"BEGIN", "semi">>,
   commit      |-> <<"COMMIT", "semi">>,
   end_work    |-> <<"END", "WORK", "semi">>,
   rollback    |-> <<"ROLLBACK", "TRANSACTION", "semi">>,
   chain       |-> <<"COMMIT", "AND", "CHAIN", "semi">>,
   rollback_to |-> <<"ROLLBACK", "WORK", "TO", "S", "semi">>,
   prepared    |-> <<"COMMIT", "PREPARED", "char", "semi">>,
   rule        |-> <<"CREATE", "RULE", "lpar", "COMMIT", "semi", "X", "rpar", "semi">>,
   function    |-> <<"CREATE", "FUNCTION", "lpar", "rpar", "BEGIN", "ATOMIC", "SELECT", "CASE",
                     "X", "END", "semi", "SELECT", "X", "semi", "END", "semi">>,
   empty_body  |-> <<"CREATE", "FUNCTION", "lpar", "rpar", "BEGIN", "ATOMIC", "END", "semi">>,
   end_column  |-> <<"CREATE", "FUNCTION", "lpar", "rpar", "BEGIN", "ATOMIC", "SELECT", "END",
                     "char", "DATE", "semi", "END", "semi">>,
   nothing     |-> <<"semi">>,
   comment     |-> <<>>]

Terminators == {"commit", "end_work", "rollback", "chain"}

MaskOf(s) ==
  LET text[i \in 0..Len(s)] == IF i = 0 THEN <<>> ELSE text[i-1] \o Mask[s[i]]
  IN  text[Len(s)]

(* What the contract asks for, straight from the statements: the head runs *)
(* through the first terminator, every statement after it is its own unit. *)
HeadLast(s) ==
  LET t == {i \in DOMAIN s : s[i] \in Terminators}
  IN  IF t = {} THEN Len(s) ELSE Min(t)

TailTexts(s) ==
  LET tail[i \in HeadLast(s)..Len(s)] ==
        IF i = HeadLast(s) THEN <<>>
        ELSE IF Mask[s[i]] = <<>> THEN tail[i-1] ELSE Append(tail[i-1], Mask[s[i]])
  IN  tail[Len(s)]

ExpectedUnits(s) == <<MaskOf(SubSeq(s, 1, HeadLast(s)))>> \o TailTexts(s)

Texts(m, units) == [k \in DOMAIN units |-> Text(m, units[k])]

UnitTexts(s) == Texts(MaskOf(s), SplitExecutionUnits(MaskOf(s)))
=============================================================================
