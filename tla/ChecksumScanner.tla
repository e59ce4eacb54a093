-------------------------- MODULE ChecksumScanner --------------------------
(***************************************************************************)
(* The second scanner of SQL text: the normalisation behind pgmi_checksum. *)
(* It walks bytes, writes a space for a comment, folds case outside        *)
(* literals and then collapses white space everywhere.                     *)
(***************************************************************************)
EXTENDS SqlText

SumStart == [st |-> "normal", i |-> 1, depth |-> 0, tag |-> <<>>, esc |-> FALSE,
             out |-> <<>>]

Emit(s, n, st, text) == [s EXCEPT !.i = @ + n, !.st = st, !.out = @ \o text]

FoldASCII(c) == IF c = "E" THEN "e" ELSE c

\* A byte beyond ASCII may be part of an identifier, never of a tag.
IsIdentifierByte(c) == c \in Letters \cup {"$", "_", "+"}
IsTagByte(c) == c \in {"a", "e", "E"}

SumEscapePrefixed(b, i) ==
    At(b, i - 1) \in {"E", "e"} /\ ~ IsIdentifierByte(At(b, i - 2))

SumDollarTag(b, i) ==
    LET close == {j \in i + 1..Len(b) : b[j] = "$"}
    IN  IF close = {} \/ \E k \in i + 1..Min(close) - 1 : ~ IsTagByte(b[k])
        THEN <<>> ELSE SubSeq(b, i, Min(close))

\* Slip: a comment leaves nothing, and what it separated becomes one word.
Separator_Empty == <<>>

Separator == <<Space>>

SumNormal(b, s, tag) ==
    CASE Pair(b, s.i, "-", "-") -> Emit(s, 2, "line", Separator)
      [] Pair(b, s.i, "/", "*") ->
            [Emit(s, 2, "block", Separator) EXCEPT !.depth = 1]
      [] b[s.i] = "'" ->
            [Emit(s, 1, "quote", <<"'">>) EXCEPT !.esc = SumEscapePrefixed(b, s.i)]
      [] b[s.i] = "\"" -> Emit(s, 1, "ident", <<"\"">>)
      [] b[s.i] = "$" /\ tag # <<>> ->
            [Emit(s, Len(tag), "dollar", tag) EXCEPT !.tag = tag]
      [] OTHER -> Emit(s, 1, "normal", <<FoldASCII(b[s.i])>>)

SumLineComment(b, s) ==
    CASE b[s.i] = "\n" -> Emit(s, 1, "normal", <<"\n">>)
      [] Pair(b, s.i, "\r", "\n") -> Emit(s, 2, "normal", <<"\r", "\n">>)
      [] OTHER -> Emit(s, 1, "line", <<>>)

SumBlockComment(b, s) ==
    CASE Pair(b, s.i, "/", "*") -> [Emit(s, 2, "block", <<>>) EXCEPT !.depth = @ + 1]
      [] Pair(b, s.i, "*", "/") ->
            [Emit(s, 2, IF s.depth = 1 THEN "normal" ELSE "block", <<>>)
                EXCEPT !.depth = @ - 1]
      [] OTHER -> Emit(s, 1, "block", <<>>)

SumSingleQuote(b, s) ==
    CASE s.esc /\ b[s.i] = "\\" /\ s.i < Len(b) -> Emit(s, 2, "quote", SubSeq(b, s.i, s.i + 1))
      [] Pair(b, s.i, "'", "'") -> Emit(s, 2, "quote", <<"'", "'">>)
      [] b[s.i] = "'" /\ At(b, s.i + 1) # "'" -> Emit(s, 1, "normal", <<"'">>)
      [] OTHER -> Emit(s, 1, "quote", <<b[s.i]>>)

SumQuotedIdentifier(b, s) ==
    CASE Pair(b, s.i, "\"", "\"") -> Emit(s, 2, "ident", <<"\"", "\"">>)
      [] b[s.i] = "\"" /\ At(b, s.i + 1) # "\"" -> Emit(s, 1, "normal", <<"\"">>)
      [] OTHER -> Emit(s, 1, "ident", <<b[s.i]>>)

MatchesTag(b, i, tag) ==
    i + Len(tag) - 1 <= Len(b) /\ SubSeq(b, i, i + Len(tag) - 1) = tag

SumDollarQuote(b, s) ==
    IF MatchesTag(b, s.i, s.tag)
    THEN [Emit(s, Len(s.tag), "normal", s.tag) EXCEPT !.tag = <<>>]
    ELSE Emit(s, 1, "dollar", <<b[s.i]>>)

SumStep(b, s) ==
    CASE s.i > Len(b) -> s
      [] s.i <= Len(b) /\ s.st = "normal" ->
            SumNormal(b, s, IF b[s.i] = "$" THEN SumDollarTag(b, s.i) ELSE <<>>)
      [] s.i <= Len(b) /\ s.st = "line" -> SumLineComment(b, s)
      [] s.i <= Len(b) /\ s.st = "block" -> SumBlockComment(b, s)
      [] s.i <= Len(b) /\ s.st = "quote" -> SumSingleQuote(b, s)
      [] s.i <= Len(b) /\ s.st = "ident" -> SumQuotedIdentifier(b, s)
      [] s.i <= Len(b) /\ s.st = "dollar" -> SumDollarQuote(b, s)

SumScan(b) ==
    LET run[k \in 0..Len(b)] == IF k = 0 THEN SumStart ELSE SumStep(b, run[k - 1])
    IN  run[Len(b)].out

\* A run of white space becomes one space, none at the ends.
Collapse(b) ==
    LET text == {i \in DOMAIN b : b[i] \notin White}
        order == IF text = {} THEN <<>>
                 ELSE InOrder({i \in Min(text)..Max(text) :
                                  b[i] \notin White \/ b[i - 1] \notin White}, Len(b))
    IN  [k \in DOMAIN order |-> IF b[order[k]] \in White THEN Space ELSE b[order[k]]]

\* normalize; the checksum itself is taken to be injective.
Normalize(t) == Collapse(SumScan(BytesOf(t)))
=============================================================================
