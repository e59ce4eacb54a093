------------------------------ MODULE Scanners ------------------------------
(***************************************************************************)
(* Every short text that can be put together from a set of fragments, and  *)
(* what the scanners make of it.  The text grows by a fragment at a time,  *)
(* so the violation of a property comes with a shortest text.              *)
(***************************************************************************)
EXTENDS ScriptText, ChecksumScanner

CONSTANTS
    Fragments,      \* sequences of characters
    MaxFragments

ASSUME FragmentsAssumption == Fragments \subseteq Seq(STRING)

VARIABLES text, count

TextInit == text = <<>> /\ count = 0

Write ==
    /\ count < MaxFragments
    /\ \E f \in Fragments : text' = text \o f
    /\ count' = count + 1

TextSpec == TextInit /\ [][Write]_<<text, count>>

-----------------------------------------------------------------------------
(* Properties *)

\* The bytes of the mask that stand for character i.
CharMask(t, mask, i) == SubSeq(mask, ByteAt(t, i) + 1, ByteAt(t, i + 1))

ShowsCode(t, mask, lex) ==
    /\ Len(mask) = Len(BytesOf(t))
    /\ \A i \in DOMAIN t :
          CASE lex[i].kind \in {"code", "word"} -> CharMask(t, mask, i) = Bytes(t[i])
            [] lex[i].kind \in {"line", "block"} -> CharMask(t, mask, i) = Spaces(<<t[i]>>)
            [] lex[i].kind \in {"string", "ident"} ->
                  \/ CharMask(t, mask, i) = Spaces(<<t[i]>>)
                  \/ t[i] \in {"'", "\""}
            [] lex[i].kind = "escape" ->
                  \/ CharMask(t, mask, i) = Spaces(<<t[i]>>)
                  \/ t[i] = "'" \/ i = lex[i].first
            [] lex[i].kind = "dollar" ->
                  \/ CharMask(t, mask, i) = Spaces(<<t[i]>>)
                  \/ i < lex[i].first + Len(TagAt(t, lex[i].first))
                  \/ i > lex[i].last - Len(TagAt(t, lex[i].first))

\* The spans of the server's block comments, in order.
LexedBlocks(t, lex) ==
    LET first == {i \in DOMAIN t : lex[i].kind = "block" /\ lex[i].first = i}
        order == InOrder(first, Len(t))
    IN  [k \in DOMAIN order |->
            <<ByteAt(t, order[k]), ByteAt(t, lex[order[k]].last + 1)>>]

Uncommented(t, lex) ==
    FlattenSeq([i \in DOMAIN t |->
        IF lex[i].kind \in {"line", "block"} THEN <<>> ELSE Bytes(t[i])])

\* The mask of RedactForMacros has a byte for every byte of the script, shows
\* all that the server reads as code, and hides everything inside comments,
\* literals, dollar quotes and quoted identifiers.  BlockComments reports
\* exactly the comments the server skips, and Strip removes them and the line
\* comments and nothing else: the metadata reader and the preprocessor see the
\* same comments (comments.go scan).
ReadsAsServer ==
    LET lex == Lex(text)
    IN  Unusual(text, lex) \/ /\ ShowsCode(text, RedactForMacros(text), lex)
                              /\ BlockComments(text) = LexedBlocks(text, lex)
                              /\ Strip(text) = Uncommented(text, lex)

\* The tokens of a text, comments and white space left out, case folded
\* outside literals and white space collapsed inside them.
Tokens(t, lex) ==
    LET first == {i \in DOMAIN t : /\ lex[i].first = i
                                   /\ lex[i].kind \notin {"line", "block"}
                                   /\ lex[i].kind = "code" => t[i] \notin White}
        order == InOrder(first, Len(t))
        chars(i) == SubSeq(t, i, Min({lex[i].last, Len(t)}))
    IN  [k \in DOMAIN order |->
            <<lex[order[k]].kind,
              IF lex[order[k]].kind \in {"code", "word"}
              THEN [j \in DOMAIN chars(order[k]) |-> FoldASCII(chars(order[k])[j])]
              ELSE Collapse([j \in DOMAIN chars(order[k]) |->
                      IF j = 1 /\ lex[order[k]].kind = "escape" THEN "e"
                      ELSE chars(order[k])[j]])>>]

\* A character sequence from its bytes.
Chars(b) == SelectSeq(b, LAMBDA c : c # "+")

NonAsciiTag(t, lex) ==
    \E i \in DOMAIN t : lex[i].kind = "dollar" /\ TwoByte \in Range(TagAt(t, lex[i].first))

\* The normalised text has the tokens of the original: two scripts with one
\* pgmi_checksum differ in nothing but comments, layout and the case of words,
\* white space inside literals aside (calculator.go normalize).
ChecksumKeepsTokens ==
    LET lex == Lex(text)
        norm == Chars(Normalize(text))
    IN  \/ Unusual(text, lex) \/ ~ AllClosed(text, lex) \/ NonAsciiTag(text, lex)
        \/ Tokens(norm, Lex(norm)) = Tokens(text, lex)

\* The calls of pgmi_test in the server's code.
LexedCalls(t, lex) ==
    {i \in DOMAIN t : t[i] = "M" /\ lex[i].kind = "code" /\ At(t, i - 1) \notin Letters}

\* Those whose place in their row of calls, one right behind the other, is odd.
OddCalls(t, calls) ==
    {i \in calls : Cardinality({k \in 1..i - 1 : \A j \in k..i - 1 : j \in calls}) % 2 = 0}

\* The text with the expansion of each call in the place of the call.
InPlace(t, calls) ==
    LET upTo[i \in 0..Len(t)] ==
            IF i = 0 THEN <<>>
            ELSE upTo[i - 1] \o (IF i \in calls THEN Generated ELSE <<t[i]>>)
    IN  upTo[Len(t)]

\* A call of pgmi_test in the server's code is expanded where it stands, a call
\* in a comment or literal is text, and the rest of the script keeps its order
\* (macros.go Detect, pipeline.go Process).  Of calls that stand right behind
\* each other every other one is left as it is, and the server gets a call of
\* a procedure it does not have.
MacrosExpandInPlace ==
    LET lex == Lex(text)
    IN  \/ Unusual(text, lex)
        \/ \E i \in 2..Len(text) : text[i] = "M" /\ text[i - 1] = TwoByte
        \/ Expand(text, Detect(text, RedactForMacros(text))) =
              InPlace(text, OddCalls(text, LexedCalls(text, lex)))

\* A position that the server reports in a unit of the tail resolves to the
\* line the character has in the script, and to its column unless characters
\* of more than one byte precede the unit on that line (split.go padPrefix,
\* errors.go resolvePosition).
PositionsResolve ==
    \A end \in {i \in DOMAIN text : text[i] = ";"} : \A p \in end + 1..Len(text) :
        LET got == ResolvePosition(TailUnit(text, end), Len(PadPrefix(text, end)) + p - end)
            want == ResolvePosition(text, p)
        IN  /\ got[1] = want[1]
            /\ got[2] = want[2] \/ TwoByte \in Range(LastLine(SubSeq(text, 1, end)))
=============================================================================
