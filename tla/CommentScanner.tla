--------------------------- MODULE CommentScanner ---------------------------
(***************************************************************************)
(* The preprocessor's scan of SQL text: one state machine behind Strip,    *)
(* RedactForMacros and BlockComments.  s.i is the character looked at, and *)
(* every branch says how far it moves, to which state, and what it writes. *)
(***************************************************************************)
EXTENDS SqlText

ScanStart == [st |-> "normal", i |-> 1, depth |-> 0, tag |-> <<>>, esc |-> FALSE,
              out |-> <<>>, start |-> 0, spans |-> <<>>]

Move(s, n, st, text) == [s EXCEPT !.i = @ + n, !.st = st, !.out = @ \o text]

\* A space for each byte.
Spaces(t) == [i \in 1..ByteAt(t, Len(t) + 1) |-> Space]

\* What is written for characters of a comment, and of a literal's inside.
Dropped(t, mask) == IF mask THEN Spaces(t) ELSE <<>>
Inside(t, mask) == IF mask THEN Spaces(t) ELSE BytesOf(t)

Here(t, s, n) == SubSeq(t, s.i, s.i + n - 1)

IsIdentifierRune(c) == c \in Letters \cup {"$", "_"}

\* Slip: any e before the quote makes an escape string.
EscapeStringPrefixed_AnyE(t, i) == At(t, i - 1) \in {"E", "e"}

\* The E is a whole token.
EscapeStringPrefixed(t, i) ==
    At(t, i - 1) \in {"E", "e"} /\ ~ IsIdentifierRune(At(t, i - 2))

\* The tag that opens at i: "$", a letter or more of a name, "$".
ExtractDollarTag(t, i) ==
    LET close == {j \in i + 1..Len(t) : t[j] = "$"}
    IN  IF close = {} \/ \E k \in i + 1..Min(close) - 1 : t[k] \notin Letters
        THEN <<>> ELSE SubSeq(t, i, Min(close))

MatchesDollarTag(t, i, tag) ==
    i + Len(tag) - 1 <= Len(t) /\ SubSeq(t, i, i + Len(tag) - 1) = tag

InNormal(t, s, mask, tag) ==
    CASE Pair(t, s.i, "-", "-") -> Move(s, 2, "line", Dropped(Here(t, s, 2), mask))
      [] Pair(t, s.i, "/", "*") ->
            [Move(s, 2, "block", Dropped(Here(t, s, 2), mask)) EXCEPT
                !.depth = 1, !.start = ByteAt(t, s.i)]
      [] t[s.i] = "'" ->
            [Move(s, 1, "quote", <<"'">>) EXCEPT !.esc = EscapeStringPrefixed(t, s.i)]
      [] t[s.i] = "\"" -> Move(s, 1, "ident", <<"\"">>)
      [] t[s.i] = "$" /\ tag # <<>> ->
            [Move(s, Len(tag), "dollar", BytesOf(tag)) EXCEPT !.tag = tag]
      [] OTHER -> Move(s, 1, "normal", Bytes(t[s.i]))

\* A lone CR does not end a line comment.
InLineComment(t, s, mask) ==
    CASE t[s.i] = "\n" -> Move(s, 1, "normal", <<"\n">>)
      [] Pair(t, s.i, "\r", "\n") -> Move(s, 2, "normal", <<"\r", "\n">>)
      [] OTHER -> Move(s, 1, "line", Dropped(Here(t, s, 1), mask))

InBlockComment(t, s, mask) ==
    CASE Pair(t, s.i, "/", "*") ->
            [Move(s, 2, "block", Dropped(Here(t, s, 2), mask)) EXCEPT !.depth = @ + 1]
      [] Pair(t, s.i, "*", "/") /\ s.depth > 1 ->
            [Move(s, 2, "block", Dropped(Here(t, s, 2), mask)) EXCEPT !.depth = @ - 1]
      [] Pair(t, s.i, "*", "/") /\ s.depth = 1 ->
            [Move(s, 2, "normal", Dropped(Here(t, s, 2), mask)) EXCEPT
                !.depth = 0, !.spans = Append(@, <<s.start, ByteAt(t, s.i) + 2>>)]
      [] OTHER -> Move(s, 1, "block", Dropped(Here(t, s, 1), mask))

InSingleQuote(t, s, mask) ==
    CASE s.esc /\ t[s.i] = "\\" /\ s.i < Len(t) ->
            Move(s, 2, "quote", Inside(Here(t, s, 2), mask))
      [] Pair(t, s.i, "'", "'") -> Move(s, 2, "quote", <<"'", "'">>)
      [] t[s.i] = "'" /\ At(t, s.i + 1) # "'" -> Move(s, 1, "normal", <<"'">>)
      [] OTHER -> Move(s, 1, "quote", Inside(Here(t, s, 1), mask))

InQuotedIdentifier(t, s, mask) ==
    CASE Pair(t, s.i, "\"", "\"") -> Move(s, 2, "ident", <<"\"", "\"">>)
      [] t[s.i] = "\"" /\ At(t, s.i + 1) # "\"" -> Move(s, 1, "normal", <<"\"">>)
      [] OTHER -> Move(s, 1, "ident", Inside(Here(t, s, 1), mask))

InDollarQuote(t, s, mask) ==
    IF MatchesDollarTag(t, s.i, s.tag)
    THEN [Move(s, Len(s.tag), "normal", BytesOf(s.tag)) EXCEPT !.tag = <<>>]
    ELSE Move(s, 1, "dollar", Inside(Here(t, s, 1), mask))

ScanStep(t, s, mask) ==
    CASE s.i > Len(t) -> s
      [] s.i <= Len(t) /\ s.st = "normal" ->
            InNormal(t, s, mask, IF t[s.i] = "$" THEN ExtractDollarTag(t, s.i) ELSE <<>>)
      [] s.i <= Len(t) /\ s.st = "line" -> InLineComment(t, s, mask)
      [] s.i <= Len(t) /\ s.st = "block" -> InBlockComment(t, s, mask)
      [] s.i <= Len(t) /\ s.st = "quote" -> InSingleQuote(t, s, mask)
      [] s.i <= Len(t) /\ s.st = "ident" -> InQuotedIdentifier(t, s, mask)
      [] s.i <= Len(t) /\ s.st = "dollar" -> InDollarQuote(t, s, mask)

\* Every step moves on, so Len(t) of them are enough.
Scan(t, mask) ==
    LET run[k \in 0..Len(t)] ==
            IF k = 0 THEN ScanStart ELSE ScanStep(t, run[k - 1], mask)
    IN  run[Len(t)]

Strip(t) == Scan(t, FALSE).out

RedactForMacros(t) == Scan(t, TRUE).out

\* An unterminated comment runs to the end of the text.
SpansOf(t, end) ==
    IF end.st = "block" THEN Append(end.spans, <<end.start, Len(BytesOf(t))>>) ELSE end.spans

BlockComments(t) == SpansOf(t, Scan(t, FALSE))
=============================================================================
