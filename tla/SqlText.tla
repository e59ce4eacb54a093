------------------------------ MODULE SqlText ------------------------------
(***************************************************************************)
(* SQL text as a sequence of characters, and the reference the scanners    *)
(* are compared with: PostgreSQL's lexer, written token by token from its  *)
(* grammar (external code).  "a", "e", "E" and the two-byte "é" stand for  *)
(* letters, "M" for a whole CALL pgmi_test(); which is no letter of a tag. *)
(***************************************************************************)
EXTENDS Naturals, Sequences, FiniteSets, SequencesExt

Space == " "

\* The letter beyond ASCII.
TwoByte == "é"

Letters == {"a", "e", "E", TwoByte}
White == {Space, "\n", "\r"}

At(t, i) == IF i \in DOMAIN t THEN t[i] ELSE ""
Pair(t, i, a, b) == At(t, i) = a /\ At(t, i + 1) = b

\* Its bytes: a letter beyond ASCII has a second one.
Bytes(c) == IF c = TwoByte THEN <<c, "+">> ELSE <<c>>
BytesOf(t) == FlattenSeq([i \in DOMAIN t |-> Bytes(t[i])])

\* The byte offset of character i, from 0.
ByteAt(t, i) == (i - 1) + Cardinality({k \in 1..i - 1 : t[k] = TwoByte})

\* The elements of a set of positions up to n, ascending.
InOrder(S, n) == SelectSeq([i \in 1..n |-> i], LAMBDA i : i \in S)

-----------------------------------------------------------------------------
(* The reference lexer *)

Earliest(S, else) == IF S = {} THEN else ELSE Min(S)

\* -- runs to the end of the line.
LineEnd(t, i) == Earliest({j \in i..Len(t) : At(t, j + 1) \in {"\n", "\r"}}, Len(t))

\* The rest of a block comment, by its grammar: a comment inside is skipped
\* whole, then the rest goes on behind it.
BlockEnd(t, i) ==
    LET rest[k \in 1..Len(t) + 2] ==
            CASE k > Len(t) -> Len(t)
              [] Pair(t, k, "*", "/") -> k + 1
              [] Pair(t, k, "/", "*") -> rest[rest[k + 2] + 1]
              [] OTHER -> rest[k + 1]
    IN  rest[i + 2]

\* Backslashes that stand right before p, behind the opening quote.
Slashes(t, open, p) ==
    Cardinality({k \in open + 1..p - 1 : \A j \in k..p - 1 : t[j] = "\\"})

\* The closing quote: an even number of quotes since the opening one, and no
\* quote behind it.  In an escape string a quote behind an odd number of
\* backslashes does not count.
StringEnd(t, open, quote, esc) ==
    LET counts(p) == t[p] = quote /\ ~ (esc /\ Slashes(t, open, p) % 2 = 1)
        closes(p) == /\ counts(p) /\ At(t, p + 1) # quote
                     /\ Cardinality({k \in open + 1..p - 1 : counts(k)}) % 2 = 0
    IN  Earliest({p \in open + 1..Len(t) : closes(p)}, Len(t) + 1)

\* $$ or $tag$ at i, as a sequence of characters; empty if there is none.
TagAt(t, i) ==
    LET ends == {j \in i + 1..Len(t) :
                    t[j] = "$" /\ \A k \in i + 1..j - 1 : t[k] \in Letters}
    IN  IF At(t, i) = "$" /\ ends # {} THEN SubSeq(t, i, Min(ends)) ELSE <<>>

DollarEnd(t, i, n) ==
    Earliest({j \in i + 2 * n - 1..Len(t) : SubSeq(t, j - n + 1, j) = TagAt(t, i)}, Len(t) + 1)

WordEnd(t, i) == Earliest({j \in i..Len(t) : At(t, j + 1) \notin Letters}, Len(t))

\* The token at i.  A literal that is not closed ends behind the text.
Token(t, i) ==
    CASE Pair(t, i, "-", "-") -> [kind |-> "line", first |-> i, last |-> LineEnd(t, i)]
      [] Pair(t, i, "/", "*") -> [kind |-> "block", first |-> i, last |-> BlockEnd(t, i)]
      [] Pair(t, i, "E", "'") \/ Pair(t, i, "e", "'") ->
            [kind |-> "escape", first |-> i, last |-> StringEnd(t, i + 1, "'", TRUE)]
      [] t[i] = "'" -> [kind |-> "string", first |-> i, last |-> StringEnd(t, i, "'", FALSE)]
      [] t[i] = "\"" -> [kind |-> "ident", first |-> i, last |-> StringEnd(t, i, "\"", FALSE)]
      [] TagAt(t, i) # <<>> ->
            [kind |-> "dollar", first |-> i, last |-> DollarEnd(t, i, Len(TagAt(t, i)))]
      [] t[i] \in Letters /\ ~(t[i] \in {"E", "e"} /\ At(t, i + 1) = "'") ->
            [kind |-> "word", first |-> i, last |-> WordEnd(t, i)]
      [] OTHER -> [kind |-> "code", first |-> i, last |-> i]

\* The token of character i, behind the tokens of those before it.
LexNext(t, before, i) ==
    Append(before, IF i > 1 /\ before[i - 1].last >= i THEN before[i - 1] ELSE Token(t, i))

\* The token each character belongs to.
Lex(t) ==
    LET upTo[i \in 0..Len(t)] == IF i = 0 THEN <<>> ELSE LexNext(t, upTo[i - 1], i)
    IN  upTo[Len(t)]

\* An escape string goes on behind a newline in the next quotes.  (So does an
\* ordinary string, but there two strings are read as one would be.)
ContinuedEscape(t, lex) ==
    \E i, j \in DOMAIN t :
        /\ lex[i].kind = "escape" /\ lex[i].last < j /\ t[j] = "'" /\ lex[j].first = j
        /\ LET between == lex[i].last + 1..j - 1
           IN  /\ \A k \in between : t[k] \in White \/ lex[k].kind = "line"
               /\ \E k \in between : t[k] \in {"\n", "\r"}

\* What the scanners read otherwise than the server, and no script should
\* hold: a $ inside an identifier, an escape string right behind a $ or
\* continued over a newline, a CR that ends a line alone.
Unusual(t, lex) ==
    \/ ContinuedEscape(t, lex)
    \/ \E i \in DOMAIN t :
          \/ t[i] = "$" /\ i > 1 /\ lex[i - 1].kind = "word"
          \/ lex[i].kind = "escape" /\ lex[i].first = i /\ At(t, i - 1) = "$"
          \/ t[i] = "\r" /\ At(t, i + 1) # "\n"

AllClosed(t, lex) == t = <<>> \/ lex[Len(t)].last <= Len(t)
=============================================================================
