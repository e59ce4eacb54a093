--------------------------- MODULE PsqlModeProofs ---------------------------
(***************************************************************************)
(* What executeDeploySQL leaves durable, that SplitExecutionUnits cuts     *)
(* where its contract says, that the positions in its units resolve, and   *)
(* that macros expand in place, for scripts of any length.                 *)
(***************************************************************************)
EXTENDS PsqlMode, Scanners, FiniteSetTheorems, SequenceTheorems,
        WellFoundedInduction, TLAPS

(* The units in which a script must arrive: the head in one message, every *)
(* later statement in a message of its own, all of them and in order.      *)
Shape(s, u) ==
  /\ u \in Seq(Seq(Nat)) /\ u # <<>>
  /\ \A k \in DOMAIN u : \A j \in DOMAIN u[k] :
       u[k][j] \in Seqs(s) /\ (u[k][j] \in HeadPart(s) <=> k = 1)
  /\ \A k \in DOMAIN u : k > 1 => Len(u[k]) <= 1
  /\ \A k, l \in DOMAIN u : \A i \in DOMAIN u[k], j \in DOMAIN u[l] :
       u[k][i] < u[l][j] <=> k < l \/ (k = l /\ i < j)
  /\ \A i \in Seqs(s) : \E k \in DOMAIN u : \E j \in DOMAIN u[k] : u[k][j] = i

(* The statements executed after n messages and a - 1 statements.          *)
Executed(u, n, a) ==
  {i \in Nat : \E k \in DOMAIN u : \E j \in DOMAIN u[k] :
                 u[k][j] = i /\ (k <= n \/ (k = n + 1 /\ j < a))}

(* A transaction begun in e is open after it.                              *)
OpenTx(s, e) ==
  \E b \in e : s[b] \in {"begin", "chain"} /\ \A x \in Ends(s) \cap e : x <= b

(* The fate of i is known after n messages, the statements e and in state b*)
Decided(s, u, n, a, b, i) ==
  IF i \notin HeadPart(s) /\ ~InTransaction(s, i) THEN i \in Executed(u, n, 1)
  ELSE IF DecidedAt(s, i) <= Len(s) THEN DecidedAt(s, i) \in Executed(u, n, a)
  ELSE n >= 1 /\ b # "explicit"

Committed(s, i) ==
  IF DecidedAt(s, i) <= Len(s) THEN s[DecidedAt(s, i)] # "rollback"
  ELSE ~InTransaction(s, i) /\ \A b \in HeadPart(s) : s[b] # "begin"

Written(s, u, n, a) == {i \in Executed(u, n, a) : s[i] \in Writes}

Position(u, n, a) ==
  /\ n \in 0..Len(u) /\ a \in Nat \ {0}
  /\ IF n < Len(u) THEN a <= Len(u[n+1]) + 1 ELSE a = 1

Block(s, u, n, a, b) ==
  /\ b \in {"none", "implicit", "explicit"}
  /\ b = "explicit" <=> OpenTx(s, Executed(u, n, a))
  /\ a = 1 => b # "implicit"

Running ==
  /\ Shape(script, units)
  /\ Position(units, sent, at)
  /\ \A j \in Executed(units, sent, at) : ~Breaks(script, j)
  /\ Block(script, units, sent, at, block)
  /\ pending = {i \in Written(script, units, sent, at) :
                  ~Decided(script, units, sent, at, block, i)}
  /\ durable = {i \in Written(script, units, sent, at) :
                  Decided(script, units, sent, at, block, i) /\ Committed(script, i)}
  /\ result = NoResult

(* What a run of the units ends in, whether it failed or not.              *)
Ended ==
  /\ units \in Seq(Seq(Nat)) /\ sent \in 0..Len(units) /\ at \in Nat
  /\ block \in {"none", "implicit", "explicit"}
  /\ pending \subseteq DOMAIN script /\ pending \cap durable = {}
  /\ durable = Documented(script)
  /\ result \in [mode : {"none", "atomic", "psql"}, committed : 0..Len(units)]
  /\ result.mode = "atomic" => durable = {}

(* What every reachable state satisfies.                                   *)
PsqlInv ==
  /\ script \in Seq(Kinds) /\ Len(script) <= MaxLen
  /\ phase \in {"writing", "running", "ended", "closed"}
  /\ phase = "writing" =>
       /\ units = <<>> /\ sent = 0 /\ at = 1 /\ block = "none"
       /\ pending = {} /\ durable = {} /\ result = NoResult
  /\ phase = "running" => Running
  /\ phase \in {"ended", "closed"} => Ended
  /\ phase = "closed" => block = "none" /\ pending = {}

----------------------------------------------------------------------------
(* Reading the contract off a script                                       *)

LEMMA Least ==
  ASSUME NEW B \in SUBSET Nat, B # {}
  PROVE  \E m \in B : \A j \in B : m <= j
<1>1. PICK m \in B : \A j \in B : ~(<<j, m>> \in OpToRel(<, Nat))
  BY NatLessThanWellFounded, WFMin
<1>2. \A j \in B : ~(j < m)
  BY <1>1 DEF OpToRel
<1> QED BY <1>2

LEMMA MinIsLeast ==
  ASSUME NEW B \in SUBSET Nat, B # {}
  PROVE  Min(B) \in B /\ \A j \in B : Min(B) <= j
<1>1. PICK m \in B : \A j \in B : m <= j
  BY Least
<1> QED BY <1>1 DEF Min

LEMMA HeadFacts ==
  ASSUME NEW s \in Seq(Kinds)
  PROVE  /\ Seqs(s) \subseteq 1..Len(s)
         /\ Ends(s) = {i \in 1..Len(s) : s[i] \in Terminators}
         /\ HeadLast(s) \in Nat
         /\ Ends(s) = {} => HeadLast(s) = Len(s)
         /\ Ends(s) # {} => HeadLast(s) \in Ends(s) /\ \A e \in Ends(s) : HeadLast(s) <= e
<1>1. DOMAIN s = 1..Len(s) /\ Len(s) \in Nat
  OBVIOUS
<1>2. Ends(s) = {i \in 1..Len(s) : s[i] \in Terminators}
  BY <1>1 DEF Ends, Seqs, Statement, Terminators
<1>3. HeadLast(s) = IF Ends(s) = {} THEN Len(s) ELSE Min(Ends(s))
  BY <1>1, <1>2 DEF HeadLast
<1>4. Ends(s) # {} => Min(Ends(s)) \in Ends(s) /\ \A e \in Ends(s) : Min(Ends(s)) <= e
  <2>1. Ends(s) \in SUBSET Nat
    BY <1>1, <1>2
  <2> QED BY <2>1, MinIsLeast
<1> QED BY <1>1, <1>2, <1>3, <1>4 DEF Seqs

LEMMA DecidedFacts ==
  ASSUME NEW s \in Seq(Kinds), NEW i \in Seqs(s)
  PROVE  /\ i \notin HeadPart(s) /\ ~InTransaction(s, i) => DecidedAt(s, i) = i
         /\ (i \in HeadPart(s) \/ InTransaction(s, i)) /\ (\A e \in Ends(s) : e < i) =>
              DecidedAt(s, i) = Len(s) + 1
         /\ (i \in HeadPart(s) \/ InTransaction(s, i)) /\ ~(\A e \in Ends(s) : e < i) =>
              /\ DecidedAt(s, i) \in Ends(s) /\ DecidedAt(s, i) >= i
              /\ \A e \in Ends(s) : e >= i => DecidedAt(s, i) <= e
<1> DEFINE later == {e \in Ends(s) : e >= i}
<1>1. later \in SUBSET Nat /\ i \in Nat /\ Ends(s) \subseteq Nat
  BY HeadFacts DEF Seqs
<1>2. later = {} <=> \A e \in Ends(s) : e < i
  BY <1>1
<1>3. later # {} => Min(later) \in later /\ \A e \in later : Min(later) <= e
  BY <1>1, MinIsLeast
<1>4. DecidedAt(s, i) = IF i \in HeadPart(s) \/ InTransaction(s, i)
                        THEN IF later = {} THEN Len(s) + 1 ELSE Min(later)
                        ELSE i
  BY DEF DecidedAt
<1> QED BY <1>2, <1>3, <1>4

(* The next statement of a message: everything before it has been executed.*)
Next1(s, u, n, a) ==
  Shape(s, u) /\ n \in 0..Len(u)-1 /\ a \in 1..Len(u[n+1])

LEMMA Boundary ==
  ASSUME NEW s \in Seq(Kinds), NEW u, NEW n, NEW a, Next1(s, u, n, a)
  PROVE  /\ u[n+1][a] \in Seqs(s)
         /\ Executed(u, n, a) = {j \in Seqs(s) : j < u[n+1][a]}
         /\ Executed(u, n, a + 1) = Executed(u, n, a) \cup {u[n+1][a]}
         /\ u[n+1][a] \in HeadPart(s) <=> n = 0
         /\ n > 0 => a = 1 /\ Len(u[n+1]) = 1
<1> USE DEF Next1
<1>1. /\ n \in Nat /\ n + 1 \in DOMAIN u /\ u[n+1] \in Seq(Nat) /\ a \in DOMAIN u[n+1]
      /\ a \in Nat /\ u \in Seq(Seq(Nat))
  BY DEF Shape
<1>2. \A k \in DOMAIN u : k \in Nat /\ u[k] \in Seq(Nat) /\ \A j \in DOMAIN u[k] : j \in Nat /\ u[k][j] \in Nat
  BY <1>1
<1>3. u[n+1][a] \in Seqs(s) /\ (u[n+1][a] \in HeadPart(s) <=> n = 0)
  BY <1>1 DEF Shape
<1>4. n > 0 => a = 1 /\ Len(u[n+1]) = 1
  <2>1. n > 0 => Len(u[n+1]) <= 1
    BY <1>1 DEF Shape
  <2>2. Len(u[n+1]) \in Nat /\ a <= Len(u[n+1]) /\ a >= 1 /\ a \in Nat
    BY <1>1
  <2> DEFINE len == Len(u[n+1])
  <2> HIDE DEF len, Next1
  <2>3. len \in Nat /\ a <= len /\ a >= 1 /\ a \in Nat /\ (n > 0 => len <= 1)
    BY <2>1, <2>2 DEF len
  <2>4. n > 0 => a = 1 /\ len = 1
    BY <2>3
  <2> QED BY <2>4 DEF len
<1> DEFINE p == u[n+1][a]
<1>5. ASSUME NEW k \in DOMAIN u, NEW j \in DOMAIN u[k]
      PROVE  u[k][j] < p <=> k <= n \/ (k = n + 1 /\ j < a)
  <2>1. u[k][j] < p <=> k < n + 1 \/ (k = n + 1 /\ j < a)
    <3>1. \A y, l \in DOMAIN u : \A i \in DOMAIN u[y], x \in DOMAIN u[l] :
            u[y][i] < u[l][x] <=> y < l \/ (y = l /\ i < x)
      BY DEF Shape
    <3>2. n + 1 \in DOMAIN u /\ a \in DOMAIN u[n+1]
      BY <1>1
    <3> HIDE DEF Next1
    <3> QED BY <3>1, <3>2
  <2>2. k \in Nat /\ (k < n + 1 <=> k <= n)
    <3>1. k \in Nat /\ n \in Nat
      BY <1>1, <1>2
    <3> HIDE DEF Next1
    <3> QED BY <3>1
  <2> QED BY <2>1, <2>2
<1>6. Executed(u, n, a) = {j \in Seqs(s) : j < p}
  <2>1. ASSUME NEW i \in Executed(u, n, a) PROVE i \in Seqs(s) /\ i < p
    <3>1. PICK k \in DOMAIN u : \E j \in DOMAIN u[k] : u[k][j] = i /\ (k <= n \/ (k = n + 1 /\ j < a))
      BY DEF Executed
    <3>2. PICK j \in DOMAIN u[k] : u[k][j] = i /\ (k <= n \/ (k = n + 1 /\ j < a))
      BY <3>1
    <3>3. u[k][j] \in Seqs(s)
      BY DEF Shape
    <3> QED BY <1>5, <3>2, <3>3
  <2>2. ASSUME NEW i \in Seqs(s), i < p PROVE i \in Executed(u, n, a)
    <3>1. PICK k \in DOMAIN u : \E j \in DOMAIN u[k] : u[k][j] = i
      BY DEF Shape
    <3>2. PICK j \in DOMAIN u[k] : u[k][j] = i
      BY <3>1
    <3> QED BY <1>2, <1>5, <2>2, <3>2 DEF Executed
  <2> QED BY <2>1, <2>2
<1>7. ASSUME NEW i PROVE i \in Executed(u, n, a + 1) <=> i \in Executed(u, n, a) \/ i = p
  <2>1. \A j \in Nat : j < a + 1 <=> j < a \/ j = a
    BY <1>1
  <2>2. p \in Nat
    BY <1>1, <1>2
  <2> QED BY <1>1, <1>2, <2>1, <2>2 DEF Executed
<1> QED BY <1>3, <1>4, <1>6, <1>7

LEMMA InTxIsOpenTx ==
  ASSUME NEW s \in Seq(Kinds), NEW p \in Seqs(s), NEW e,
         e = {j \in Seqs(s) : j < p}
  PROVE  InTransaction(s, p) <=> OpenTx(s, e)
<1>1. p \in Nat /\ \A j \in Seqs(s) : j \in Nat
  BY HeadFacts
<1>2. \A x \in Ends(s) : x \in Seqs(s)
  BY DEF Ends
<1>3. \A b, x \in Seqs(s) : (b < x => x >= p) <=> (x < p => x <= b)
  BY <1>1
<1>4. InTransaction(s, p) => OpenTx(s, e)
  <2>1. SUFFICES ASSUME InTransaction(s, p) PROVE OpenTx(s, e)
    OBVIOUS
  <2>2. PICK b \in Seqs(s) : /\ b < p /\ s[b] \in {"begin", "chain"}
                             /\ \A x \in Ends(s) : b < x => x >= p
    BY <2>1 DEF InTransaction
  <2> QED BY <1>2, <1>3, <2>2 DEF OpenTx
<1>5. OpenTx(s, e) => InTransaction(s, p)
  <2>1. SUFFICES ASSUME OpenTx(s, e) PROVE InTransaction(s, p)
    OBVIOUS
  <2>2. PICK b \in e : s[b] \in {"begin", "chain"} /\ \A x \in Ends(s) \cap e : x <= b
    BY <2>1 DEF OpenTx
  <2> QED BY <1>2, <1>3, <2>2 DEF InTransaction
<1> QED BY <1>4, <1>5

LEMMA UnitTypes ==
  ASSUME NEW u \in Seq(Seq(Nat)), NEW k \in DOMAIN u
  PROVE  /\ k \in Nat /\ k >= 1 /\ u[k] \in Seq(Nat) /\ Len(u[k]) \in Nat
         /\ \A j \in DOMAIN u[k] : j \in Nat /\ j >= 1 /\ j <= Len(u[k]) /\ u[k][j] \in Nat
<1>1. k \in Nat /\ k >= 1 /\ u[k] \in Seq(Nat)
  OBVIOUS
<1>2. \A q \in Seq(Nat) : /\ Len(q) \in Nat
                          /\ \A j \in DOMAIN q : j \in Nat /\ j >= 1 /\ j <= Len(q) /\ q[j] \in Nat
  OBVIOUS
<1> QED BY <1>1, <1>2

LEMMA ExecutedDown ==
  ASSUME NEW s \in Seq(Kinds), NEW u, Shape(s, u), NEW n \in Nat, NEW a \in Nat
  PROVE  /\ Executed(u, n, a) \subseteq Seqs(s)
         /\ \A i \in Executed(u, n, a), j \in Seqs(s) : j < i => j \in Executed(u, n, a)
<1>1. \A k \in DOMAIN u : k \in Nat /\ u[k] \in Seq(Nat) /\ \A j \in DOMAIN u[k] : j \in Nat /\ u[k][j] \in Nat
  BY DEF Shape
<1>2. Executed(u, n, a) \subseteq Seqs(s)
  BY DEF Shape, Executed
<1>3. ASSUME NEW i \in Executed(u, n, a), NEW j \in Seqs(s), j < i
      PROVE  j \in Executed(u, n, a)
  <2>1. PICK k \in DOMAIN u : \E l \in DOMAIN u[k] : u[k][l] = i /\ (k <= n \/ (k = n + 1 /\ l < a))
    BY DEF Executed
  <2>2. PICK l \in DOMAIN u[k] : u[k][l] = i /\ (k <= n \/ (k = n + 1 /\ l < a))
    BY <2>1
  <2>3. PICK x \in DOMAIN u : \E y \in DOMAIN u[x] : u[x][y] = j
    BY DEF Shape
  <2>4. PICK y \in DOMAIN u[x] : u[x][y] = j
    BY <2>3
  <2>5. x < k \/ (x = k /\ y < l)
    BY <1>3, <2>2, <2>4 DEF Shape
  <2>6. x <= n \/ (x = n + 1 /\ y < a)
    <3>1. x \in Nat /\ k \in Nat /\ y \in Nat /\ l \in Nat
      BY <1>1
    <3> QED BY <2>2, <2>5, <3>1
  <2> QED BY <1>1, <2>4, <2>6 DEF Executed
<1> QED BY <1>2, <1>3

(* The head is the first message and nothing else.                         *)
LEMMA HeadIsFirst ==
  ASSUME NEW s \in Seq(Kinds), NEW u, Shape(s, u)
  PROVE  /\ 1 \in DOMAIN u
         /\ HeadPart(s) = {u[1][j] : j \in DOMAIN u[1]}
         /\ \A n, a \in Nat : n >= 1 \/ a = Len(u[1]) + 1 => HeadPart(s) \subseteq Executed(u, n, a)
         /\ \A n, a \in Nat : n = 0 => Executed(u, n, a) \subseteq HeadPart(s)
<1>1. 1 \in DOMAIN u /\ u[1] \in Seq(Nat)
  BY DEF Shape
<1>2. HeadPart(s) = {u[1][j] : j \in DOMAIN u[1]}
  <2>1. ASSUME NEW i \in HeadPart(s) PROVE \E j \in DOMAIN u[1] : u[1][j] = i
    <3>1. PICK k \in DOMAIN u : \E j \in DOMAIN u[k] : u[k][j] = i
      BY DEF Shape, HeadPart
    <3> QED BY <3>1 DEF Shape
  <2>2. \A j \in DOMAIN u[1] : u[1][j] \in HeadPart(s)
    BY <1>1 DEF Shape
  <2> QED BY <2>1, <2>2
<1>3. \A j \in DOMAIN u[1] : j \in Nat /\ j < Len(u[1]) + 1 /\ u[1][j] \in Nat
  BY <1>1
<1>4. \A n, a \in Nat : n >= 1 \/ a = Len(u[1]) + 1 => HeadPart(s) \subseteq Executed(u, n, a)
  <2>1. SUFFICES ASSUME NEW n \in Nat, NEW a \in Nat, n >= 1 \/ a = Len(u[1]) + 1,
                        NEW j \in DOMAIN u[1]
                 PROVE  1 <= n \/ (1 = n + 1 /\ j < a)
    BY <1>1, <1>2, <1>3 DEF Executed
  <2> QED BY <1>3, <2>1
<1>5. ASSUME NEW n \in Nat, NEW a \in Nat, n = 0, NEW i \in Executed(u, n, a)
      PROVE  i \in HeadPart(s)
  <2>1. PICK k \in DOMAIN u : \E j \in DOMAIN u[k] : u[k][j] = i /\ (k <= n \/ (k = n + 1 /\ j < a))
    BY DEF Executed
  <2>2. k = 1
    <3>1. k \in Nat /\ k >= 1
      BY DEF Shape
    <3> QED BY <1>5, <2>1, <3>1
  <2> QED BY <1>2, <2>1, <2>2
<1> QED BY <1>1, <1>2, <1>4, <1>5

(* What begins a transaction before i keeps it open until the next end.    *)
LEMMA TxStays ==
  ASSUME NEW s \in Seq(Kinds), NEW e \in SUBSET Seqs(s), NEW i \in e,
         \A j \in Seqs(s) : j < i => j \in e,
         InTransaction(s, i), \A x \in Ends(s) \cap e : x < i
  PROVE  OpenTx(s, e)
<1>1. PICK b \in Seqs(s) : /\ b < i /\ s[b] \in {"begin", "chain"}
                           /\ \A x \in Ends(s) : b < x => x >= i
  BY DEF InTransaction
<1>2. i \in Nat /\ \A j \in Seqs(s) : j \in Nat
  BY HeadFacts
<1>3. \A x \in Ends(s) \cap e : x <= b
  <2>1. ASSUME NEW x \in Ends(s) \cap e, b < x PROVE FALSE
    <3>1. x >= i /\ x < i /\ x \in Nat
      BY <1>1, <1>2, <2>1
    <3> QED BY <1>2, <3>1
  <2>2. \A x \in Ends(s) \cap e : x \in Nat /\ ~(b < x)
    BY <1>2, <2>1 DEF Ends
  <2> QED BY <1>2, <2>2
<1> QED BY <1>1, <1>3 DEF OpenTx

LEMMA NextTypes ==
  ASSUME NEW s \in Seq(Kinds), NEW u, NEW n, NEW a, Next1(s, u, n, a)
  PROVE  /\ Shape(s, u) /\ n \in Nat /\ a \in Nat \ {0} /\ n + 1 \in DOMAIN u
         /\ u[n+1] \in Seq(Nat) /\ a \in DOMAIN u[n+1] /\ n < Len(u)
         /\ Position(u, n, a) /\ Position(u, n, a + 1) /\ n \in Int
<1>1. u \in Seq(Seq(Nat)) /\ n \in 0..Len(u)-1 /\ a \in 1..Len(u[n+1]) /\ Shape(s, u)
  BY DEF Next1, Shape
<1>2. n \in Nat /\ a \in Nat \ {0} /\ n + 1 \in DOMAIN u /\ n < Len(u) /\ Len(u) \in Nat
  BY <1>1
<1>3. u[n+1] \in Seq(Nat) /\ Len(u[n+1]) \in Nat
  BY <1>1, <1>2
<1>4. a \in DOMAIN u[n+1] /\ a <= Len(u[n+1]) /\ a + 1 \in Nat \ {0}
  BY <1>1, <1>3
<1>5. Position(u, n, a) /\ Position(u, n, a + 1)
  BY <1>2, <1>3, <1>4 DEF Position
<1> QED BY <1>1, <1>2, <1>3, <1>4, <1>5

LEMMA RefusedBreaks ==
  ASSUME NEW s \in Seq(Kinds), NEW u, NEW n, NEW a, NEW b, Next1(s, u, n, a),
         Block(s, u, n, a, b), NEW p, p = u[n+1][a]
  PROVE  Breaks(s, p) <=>
           \/ s[p] \in {"fail", "rollback_to", "prepared"}
           \/ s[p] = "concurrent" /\ (Len(u[n+1]) > 1 \/ b # "none")
           \/ s[p] = "chain" /\ b # "explicit"
<1>1. b = "explicit" <=> InTransaction(s, p)
  BY Boundary, InTxIsOpenTx DEF Block
<1>2. (Len(u[n+1]) > 1 \/ b # "none") <=>
        InTransaction(s, p) \/ (p \in HeadPart(s) /\ HeadPart(s) # {p})
  <2>1. CASE n > 0
    <3>1. p \notin HeadPart(s) /\ a = 1 /\ Len(u[n+1]) = 1
      BY <2>1, Boundary, NextTypes
    <3>2. b \in {"none", "explicit"}
      BY <3>1 DEF Block
    <3> QED BY <1>1, <3>1, <3>2
  <2>2. CASE n = 0
    <3>1. p \in HeadPart(s) /\ HeadPart(s) = {u[1][j] : j \in DOMAIN u[1]} /\ a \in DOMAIN u[1]
          /\ u[1] \in Seq(Nat) /\ p = u[1][a]
      BY <2>2, Boundary, HeadIsFirst, NextTypes
    <3>2. CASE Len(u[1]) > 1
      <4>1. 1 \in DOMAIN u[1] /\ 2 \in DOMAIN u[1]
        BY <3>1, <3>2
      <4>2. u[1][1] < u[1][2]
        <5>1. 1 \in DOMAIN u /\ Shape(s, u)
          BY HeadIsFirst, NextTypes
        <5>2. \A i, j \in DOMAIN u[1] : u[1][i] < u[1][j] <=> i < j
          <6>1. \A k, l \in DOMAIN u : \A i \in DOMAIN u[k], j \in DOMAIN u[l] :
                  u[k][i] < u[l][j] <=> k < l \/ (k = l /\ i < j)
            BY <5>1 DEF Shape
          <6>2. \A k \in DOMAIN u : \A i, j \in DOMAIN u[k] :
                  u[k][i] < u[k][j] <=> k < k \/ i < j
            BY <6>1
          <6>3. ~(1 < 1)
            OBVIOUS
          <6> QED BY <5>1, <6>2, <6>3
        <5>3. \A i, j \in DOMAIN u[1] : i = 1 /\ j = 2 => i < j
          OBVIOUS
        <5> QED BY <4>1, <5>2, <5>3
      <4>3. u[1][1] # u[1][2]
        BY <3>1, <4>1, <4>2
      <4>4. u[1][1] \in HeadPart(s) /\ u[1][2] \in HeadPart(s)
        BY <3>1, <4>1
      <4>5. HeadPart(s) # {p} /\ u[n+1] = u[1]
        BY <2>2, <4>3, <4>4
      <4> QED BY <3>1, <3>2, <4>5
    <3>3. CASE ~(Len(u[1]) > 1)
      <4>1. DOMAIN u[1] = {1} /\ a = 1
        BY <3>1, <3>3
      <4>2. HeadPart(s) = {p}
        BY <3>1, <4>1
      <4>3. b \in {"none", "explicit"}
        BY <4>1 DEF Block
      <4> QED BY <1>1, <2>2, <3>3, <4>2, <4>3
    <3> QED BY <3>2, <3>3
  <2>3. n \in Nat
    BY NextTypes
  <2> QED BY <2>1, <2>2, <2>3
<1> QED BY <1>1, <1>2 DEF Breaks

(* A statement executed in the message in flight is of the head, or else   *)
(* it is not executed yet.                                                 *)
LEMMA Before ==
  ASSUME NEW s \in Seq(Kinds), NEW u, NEW n, NEW a, Next1(s, u, n, a)
  PROVE  /\ Executed(u, n, 1) \subseteq Executed(u, n, a)
         /\ \A i \in Executed(u, n, a) : i \in HeadPart(s) \/ i \in Executed(u, n, 1)
         /\ u[n+1][a] \notin Executed(u, n, a) /\ u[n+1][a] \notin Executed(u, n, 1)
<1>1. Executed(u, n, 1) \subseteq Executed(u, n, a)
  <2>1. \A k \in DOMAIN u : \A j \in DOMAIN u[k] : ~(j < 1)
    BY NextTypes DEF Shape
  <2> QED BY <2>1, NextTypes DEF Executed
<1>2. ASSUME NEW i \in Executed(u, n, a) PROVE i \in HeadPart(s) \/ i \in Executed(u, n, 1)
  <2>1. n = 0 \/ n > 0
    BY NextTypes
  <2>2. n > 0 => a = 1
    BY Boundary
  <2> QED BY <2>1, <2>2, NextTypes, HeadIsFirst
<1>3. u[n+1][a] \notin Executed(u, n, a)
  <2>1. u[n+1][a] \in Nat
    BY Boundary, HeadFacts
  <2> QED BY <2>1, Boundary
<1> QED BY <1>1, <1>2, <1>3

(* In the tail there is an end, and it is not in the future of the head.   *)
LEMMA TailAfterEnd ==
  ASSUME NEW s \in Seq(Kinds), NEW p \in Seqs(s), p \notin HeadPart(s)
  PROVE  /\ Ends(s) # {}
         /\ \A i \in HeadPart(s) : DecidedAt(s, i) \in HeadPart(s) /\ DecidedAt(s, i) <= Len(s)
<1>1. p \in 1..Len(s) /\ Len(s) \in Nat /\ HeadLast(s) \in Nat /\ ~(p <= HeadLast(s))
  BY HeadFacts DEF HeadPart
<1>2. Ends(s) # {}
  BY <1>1, HeadFacts
<1>3. HeadLast(s) \in Ends(s) /\ \A e \in Ends(s) : HeadLast(s) <= e
  BY <1>2, HeadFacts
<1>4. ASSUME NEW i \in HeadPart(s)
      PROVE  DecidedAt(s, i) \in HeadPart(s) /\ DecidedAt(s, i) <= Len(s)
  <2>1. i \in Seqs(s) /\ i <= HeadLast(s) /\ i \in Nat
    BY HeadFacts DEF HeadPart
  <2>2. /\ DecidedAt(s, i) \in Ends(s) /\ DecidedAt(s, i) >= i
        /\ \A e \in Ends(s) : e >= i => DecidedAt(s, i) <= e
    <3>1. ~(\A e \in Ends(s) : e < i)
      BY <1>1, <1>3, <2>1
    <3> QED BY <2>1, <3>1, DecidedFacts
  <2>3. DecidedAt(s, i) \in Nat /\ DecidedAt(s, i) <= HeadLast(s)
    BY <1>1, <1>3, <2>1, <2>2, HeadFacts
  <2>4. DecidedAt(s, i) \in Seqs(s)
    BY <2>2 DEF Ends
  <2> QED BY <2>3, <2>4, HeadFacts DEF HeadPart
<1> QED BY <1>2, <1>4

LEMMA WrittenStep ==
  ASSUME NEW s \in Seq(Kinds), NEW u, NEW n, NEW a, Next1(s, u, n, a),
         NEW p, p = u[n+1][a]
  PROVE  Written(s, u, n, a + 1) = Written(s, u, n, a) \cup ({p} \cap {i \in DOMAIN s : s[i] \in Writes})
<1>1. Executed(u, n, a + 1) = Executed(u, n, a) \cup {p} /\ p \in DOMAIN s
  BY Boundary DEF Seqs
<1> QED BY <1>1 DEF Written

(* A statement that ends a transaction decides all that was undecided.     *)
LEMMA ExecEnd ==
  ASSUME NEW s \in Seq(Kinds), NEW u, NEW n, NEW a, NEW b, Next1(s, u, n, a),
         Block(s, u, n, a, b), NEW p, p = u[n+1][a], s[p] \in Terminators, ~Breaks(s, p),
         NEW c, c = IF s[p] = "chain" THEN b ELSE "none"
  PROVE  /\ Block(s, u, n, a + 1, c)
         /\ \A i \in Executed(u, n, a) :
              /\ Decided(s, u, n, a + 1, c, i)
              /\ ~Decided(s, u, n, a, b, i) => DecidedAt(s, i) = p
              /\ DecidedAt(s, i) <= Len(s)
<1> DEFINE E == Executed(u, n, a)
           F == Executed(u, n, a + 1)
<1>1. p \in Ends(s) /\ E = {j \in Seqs(s) : j < p} /\ F = E \cup {p} /\ p \in Seqs(s)
  BY Boundary DEF Ends
<1>2. \A j \in Seqs(s) : j \in Nat /\ j <= Len(s)
  BY HeadFacts
<1>3. Block(s, u, n, a + 1, c)
  <2>1. CASE s[p] = "chain"
    <3>1. b = "explicit"
      BY <2>1, RefusedBreaks
    <3>2. OpenTx(s, F)
      BY <1>1, <1>2, <2>1 DEF OpenTx
    <3> QED BY <2>1, <3>1, <3>2 DEF Block
  <2>2. CASE s[p] # "chain"
    <3>1. ~OpenTx(s, F)
      <4>1. SUFFICES ASSUME NEW x \in F, s[x] \in {"begin", "chain"}, p <= x PROVE FALSE
        BY <1>1 DEF OpenTx
      <4>2. x = p
        BY <1>1, <1>2, <4>1
      <4> QED BY <2>2, <4>1, <4>2 DEF Terminators
    <3>2. a + 1 # 1
      BY NextTypes
    <3> QED BY <2>2, <3>1, <3>2 DEF Block
  <2> QED BY <2>1, <2>2
<1>4. ASSUME NEW i \in E
      PROVE  /\ Decided(s, u, n, a + 1, c, i)
             /\ ~Decided(s, u, n, a, b, i) => DecidedAt(s, i) = p
             /\ DecidedAt(s, i) <= Len(s)
  <2>1. i \in Seqs(s) /\ i < p /\ i \in Nat /\ p \in Nat
    BY <1>1, <1>2
  <2>2. CASE i \notin HeadPart(s) /\ ~InTransaction(s, i)
    <3>1. i \in Executed(u, n, 1) /\ DecidedAt(s, i) = i
      BY <2>1, <2>2, Before, DecidedFacts
    <3> QED BY <1>2, <2>1, <2>2, <3>1 DEF Decided
  <2>3. CASE i \in HeadPart(s) \/ InTransaction(s, i)
    <3>1. /\ DecidedAt(s, i) \in Ends(s) /\ DecidedAt(s, i) >= i
          /\ \A e \in Ends(s) : e >= i => DecidedAt(s, i) <= e
      <4>1. ~(\A e \in Ends(s) : e < i)
        BY <1>1, <2>1
      <4> QED BY <2>1, <2>3, <4>1, DecidedFacts
    <3>2. DecidedAt(s, i) \in Seqs(s) /\ DecidedAt(s, i) <= p /\ DecidedAt(s, i) <= Len(s)
      <4>1. DecidedAt(s, i) \in Seqs(s) /\ p >= i
        BY <2>1, <3>1 DEF Ends
      <4> QED BY <1>1, <1>2, <3>1, <4>1
    <3>3. DecidedAt(s, i) \in E \/ DecidedAt(s, i) = p
      BY <1>1, <1>2, <3>2
    <3> QED BY <1>1, <2>3, <3>2, <3>3 DEF Decided
  <2> QED BY <2>2, <2>3
<1> QED BY <1>3, <1>4

(* Any other statement decides nothing, and its own write is undecided.    *)
LEMMA ExecOther ==
  ASSUME NEW s \in Seq(Kinds), NEW u, NEW n, NEW a, NEW b, Next1(s, u, n, a),
         Block(s, u, n, a, b), NEW p, p = u[n+1][a], s[p] \notin Terminators,
         NEW c, c = IF s[p] = "begin" THEN "explicit" ELSE IF b = "none" THEN "implicit" ELSE b
  PROVE  /\ Block(s, u, n, a + 1, c)
         /\ \A i \in Executed(u, n, a) :
              s[i] \in Writes => (Decided(s, u, n, a + 1, c, i) <=> Decided(s, u, n, a, b, i))
         /\ s[p] \in Writes => ~Decided(s, u, n, a + 1, c, p)
<1> DEFINE E == Executed(u, n, a)
           F == Executed(u, n, a + 1)
<1>1. p \notin Ends(s) /\ E = {j \in Seqs(s) : j < p} /\ F = E \cup {p} /\ p \in Seqs(s)
  BY Boundary DEF Ends
<1>2. \A j \in Seqs(s) : j \in Nat /\ j <= Len(s)
  BY HeadFacts
<1>3. OpenTx(s, F) <=> OpenTx(s, E) \/ s[p] = "begin"
  <2>1. Ends(s) \cap F = Ends(s) \cap E /\ \A x \in Ends(s) \cap E : x <= p
    BY <1>1, <1>2 DEF Ends
  <2>2. s[p] # "chain"
    BY DEF Terminators
  <2> QED BY <1>1, <2>1, <2>2 DEF OpenTx
<1>4. Block(s, u, n, a + 1, c)
  <2>1. a + 1 # 1
    BY NextTypes
  <2> QED BY <1>3, <2>1 DEF Block
<1>5. n >= 1 => p \notin HeadPart(s)
  BY Boundary, NextTypes
<1>6. \A i \in Seqs(s) : i \in HeadPart(s) /\ n >= 1 => DecidedAt(s, i) <= Len(s)
  BY <1>1, <1>5, TailAfterEnd
<1>7. ASSUME NEW i \in E
      PROVE  Decided(s, u, n, a + 1, c, i) <=> Decided(s, u, n, a, b, i)
  <2>1. i \in Seqs(s) /\ i < p /\ i \in Nat /\ p \in Nat
    BY <1>1, <1>2
  <2>2. CASE i \notin HeadPart(s) /\ ~InTransaction(s, i)
    BY <2>2 DEF Decided
  <2>3. CASE i \in HeadPart(s) \/ InTransaction(s, i)
    <3>1. CASE DecidedAt(s, i) <= Len(s)
      <4>1. DecidedAt(s, i) \in Ends(s)
        <5>1. ~(DecidedAt(s, i) = Len(s) + 1)
          BY <1>2, <3>1, HeadFacts
        <5> QED BY <2>1, <2>3, <5>1, DecidedFacts
      <4> QED BY <1>1, <2>3, <3>1, <4>1 DEF Decided
    <3>2. CASE ~(DecidedAt(s, i) <= Len(s)) /\ n >= 1
      <4>1. InTransaction(s, i)
        BY <1>6, <2>1, <2>3, <3>2
      <4>2. \A x \in Ends(s) \cap E : x < i
        BY <2>1, <2>3, <3>2, DecidedFacts, <1>2 DEF Ends
      <4>3. OpenTx(s, E)
        BY <1>1, <2>1, <4>1, <4>2, TxStays
      <4>4. b = "explicit" /\ c = "explicit"
        BY <1>3, <1>4, <4>3 DEF Block
      <4> QED BY <2>3, <3>2, <4>4 DEF Decided
    <3>3. CASE ~(DecidedAt(s, i) <= Len(s)) /\ ~(n >= 1)
      BY <2>3, <3>3 DEF Decided
    <3> QED BY <3>1, <3>2, <3>3
  <2> QED BY <2>2, <2>3
<1>8. ASSUME s[p] \in Writes PROVE ~Decided(s, u, n, a + 1, c, p)
  <2>1. CASE p \notin HeadPart(s) /\ ~InTransaction(s, p)
    BY <2>1, Before DEF Decided
  <2>2. CASE p \in HeadPart(s) \/ InTransaction(s, p)
    <3>1. CASE DecidedAt(s, p) <= Len(s)
      <4>1. DecidedAt(s, p) \in Ends(s) /\ DecidedAt(s, p) >= p
        <5>1. ~(DecidedAt(s, p) = Len(s) + 1)
          BY <1>2, <3>1, HeadFacts
        <5> QED BY <1>1, <2>2, <5>1, DecidedFacts
      <4>2. DecidedAt(s, p) \notin F
        BY <1>1, <1>2, <4>1 DEF Ends
      <4> QED BY <2>2, <3>1, <4>2 DEF Decided
    <3>2. CASE ~(DecidedAt(s, p) <= Len(s)) /\ n >= 1
      <4>1. InTransaction(s, p)
        BY <1>5, <2>2, <3>2
      <4>2. OpenTx(s, E)
        BY <1>1, <4>1, InTxIsOpenTx
      <4>3. c = "explicit"
        BY <1>3, <1>4, <4>2 DEF Block
      <4> QED BY <2>2, <3>2, <4>3 DEF Decided
    <3>3. CASE ~(DecidedAt(s, p) <= Len(s)) /\ ~(n >= 1)
      BY <2>2, <3>3 DEF Decided
    <3> QED BY <3>1, <3>2, <3>3
  <2> QED BY <2>1, <2>2
<1> QED BY <1>4, <1>7, <1>8

(* The end of a message decides what no explicit transaction holds.        *)
LEMMA DoneDecided ==
  ASSUME NEW s \in Seq(Kinds), NEW u, Shape(s, u), NEW n \in Nat, n < Len(u),
         NEW a, a = Len(u[n+1]) + 1, NEW b, Block(s, u, n, a, b),
         NEW c, c = IF b = "explicit" THEN b ELSE "none"
  PROVE  /\ Position(u, n + 1, 1) /\ Block(s, u, n + 1, 1, c)
         /\ Executed(u, n + 1, 1) = Executed(u, n, a)
         /\ \A i \in Executed(u, n, a) : s[i] \in Writes =>
              /\ b = "explicit" =>
                   (Decided(s, u, n + 1, 1, c, i) <=> Decided(s, u, n, a, b, i))
              /\ b # "explicit" =>
                   /\ Decided(s, u, n + 1, 1, c, i)
                   /\ Decided(s, u, n, a, b, i) \/ Committed(s, i)
<1> DEFINE E == Executed(u, n, a)
<1>1. /\ n + 1 \in DOMAIN u /\ u[n+1] \in Seq(Nat) /\ a \in Nat \ {0}
      /\ n + 1 \in Nat /\ u \in Seq(Seq(Nat)) /\ n + 1 <= Len(u) /\ Len(u) \in Nat
  <2>1. u \in Seq(Seq(Nat)) /\ Len(u) \in Nat
    BY DEF Shape
  <2>2. n + 1 \in DOMAIN u /\ u[n+1] \in Seq(Nat)
    BY <2>1
  <2> QED BY <2>1, <2>2
<1>2. Position(u, n + 1, 1)
  <2>1. \A k \in DOMAIN u : Len(u[k]) \in Nat
    BY <1>1
  <2>2. n + 1 < Len(u) => n + 1 + 1 \in DOMAIN u
    BY <1>1
  <2> QED BY <1>1, <2>1, <2>2 DEF Position
<1>3. Executed(u, n + 1, 1) = E
  <2>1. ASSUME NEW k \in DOMAIN u, NEW j \in DOMAIN u[k]
        PROVE  (k <= n + 1 \/ (k = n + 1 + 1 /\ j < 1)) <=> (k <= n \/ (k = n + 1 /\ j < a))
    <3>1. k \in Nat /\ j \in Nat /\ j >= 1 /\ j <= Len(u[k]) /\ Len(u[k]) \in Nat
      BY <1>1, UnitTypes
    <3>2. k = n + 1 => j < a
      BY <3>1
    <3> QED BY <1>1, <3>1, <3>2
  <2> QED BY <2>1 DEF Executed
<1>4. Block(s, u, n + 1, 1, c)
  BY <1>3 DEF Block
<1>5. E \subseteq Seqs(s) /\ (\A i \in E, j \in Seqs(s) : j < i => j \in E) /\ HeadPart(s) \subseteq E
  <2>1. n = 0 => a = Len(u[1]) + 1
    OBVIOUS
  <2>2. n >= 1 \/ a = Len(u[1]) + 1
    BY <2>1
  <2> QED BY <1>1, <2>2, ExecutedDown, HeadIsFirst
<1>6. \A j \in Seqs(s) : j \in Nat /\ j <= Len(s)
  BY HeadFacts
<1>7. \A i \in E : InTransaction(s, i) /\ (\A x \in Ends(s) \cap E : x < i) => b = "explicit"
  BY <1>5, TxStays DEF Block
<1>8. ASSUME NEW i \in E, s[i] \in Writes, b = "explicit"
      PROVE  Decided(s, u, n + 1, 1, c, i) <=> Decided(s, u, n, a, b, i)
  <2>1. CASE i \notin HeadPart(s) /\ ~InTransaction(s, i)
    <3>1. i \in Executed(u, n, 1)
      <4>1. PICK o \in E : s[o] \in {"begin", "chain"} /\ \A x \in Ends(s) \cap E : x <= o
        BY <1>8 DEF Block, OpenTx
      <4>2. o \in Seqs(s) /\ i \in Seqs(s) /\ o # i
        BY <1>5, <1>8, <4>1 DEF Writes
      <4>3. ~(o < i)
        <5>1. SUFFICES ASSUME o < i PROVE FALSE
          OBVIOUS
        <5>2. PICK x \in Ends(s) : o < x /\ ~(x >= i)
          BY <2>1, <4>1, <4>2, <5>1 DEF InTransaction
        <5>3. x \in Seqs(s) /\ x < i
          BY <1>6, <4>2, <5>2 DEF Ends
        <5>4. x \in E /\ x <= o
          BY <1>5, <4>1, <5>2, <5>3
        <5> QED BY <1>6, <4>2, <5>2, <5>3, <5>4
      <4>4. i < o
        BY <1>6, <4>2, <4>3
      <4>5. PICK k \in DOMAIN u : \E j \in DOMAIN u[k] : u[k][j] = i /\ (k <= n \/ (k = n + 1 /\ j < a))
        BY DEF Executed
      <4>6. PICK j \in DOMAIN u[k] : u[k][j] = i
        BY <4>5
      <4>7. PICK l \in DOMAIN u : \E m \in DOMAIN u[l] : u[l][m] = o /\ (l <= n \/ (l = n + 1 /\ m < a))
        BY <4>1 DEF Executed
      <4>8. PICK m \in DOMAIN u[l] : u[l][m] = o
        BY <4>7
      <4>9. k < l \/ (k = l /\ j < m)
        BY <4>4, <4>6, <4>8 DEF Shape
      <4>10. k \in Nat /\ l \in Nat /\ k > 1 /\ Len(u[l]) \in Nat /\ j \in Nat /\ m \in Nat /\ j >= 1 /\ m <= Len(u[l])
        <5>1. k \in Nat /\ l \in Nat /\ k >= 1 /\ j \in Nat /\ j >= 1
          BY <1>1, UnitTypes
        <5>2. k # 1
          BY <2>1, <4>6 DEF Shape
        <5>3. m \in Nat /\ m <= Len(u[l]) /\ Len(u[l]) \in Nat
          BY <1>1, UnitTypes
        <5> QED BY <5>1, <5>2, <5>3
      <4>11. l > 1 => Len(u[l]) <= 1
        BY DEF Shape
      <4>12. k < l /\ l <= n + 1
        BY <4>7, <4>9, <4>10, <4>11
      <4>13. k <= n
        BY <4>10, <4>12
      <4>14. i \in Nat
        BY <1>5, <1>6
      <4> QED BY <4>6, <4>13, <4>14 DEF Executed
    <3> QED BY <1>3, <1>5, <2>1, <3>1 DEF Decided
  <2>2. CASE i \in HeadPart(s) \/ InTransaction(s, i)
    BY <1>3, <1>8, <2>2 DEF Decided
  <2> QED BY <2>1, <2>2
<1>9. ASSUME NEW i \in E, s[i] \in Writes, b # "explicit"
      PROVE  /\ Decided(s, u, n + 1, 1, c, i)
             /\ Decided(s, u, n, a, b, i) \/ Committed(s, i)
  <2>0. i \in Seqs(s) /\ i \in Nat /\ i <= Len(s) /\ Len(s) \in Nat
    BY <1>5, <1>6
  <2>1. CASE i \notin HeadPart(s) /\ ~InTransaction(s, i)
    <3>1. Committed(s, i)
      <4>1. DecidedAt(s, i) = i
        BY <2>0, <2>1, DecidedFacts
      <4> QED BY <1>9, <2>0, <4>1 DEF Committed, Writes
    <3> QED BY <1>3, <2>1, <3>1 DEF Decided
  <2>2. CASE (i \in HeadPart(s) \/ InTransaction(s, i)) /\ DecidedAt(s, i) <= Len(s)
    <3>1. ~(\A e \in Ends(s) : e < i)
      BY <2>0, <2>2, DecidedFacts
    <3>2. /\ DecidedAt(s, i) \in Ends(s) /\ DecidedAt(s, i) >= i
          /\ \A e \in Ends(s) : e >= i => DecidedAt(s, i) <= e
      BY <2>0, <2>2, <3>1, DecidedFacts
    <3>3. DecidedAt(s, i) \in E
      <4>1. CASE i \in HeadPart(s)
        <5>1. HeadLast(s) \in Ends(s) /\ HeadLast(s) >= i /\ HeadLast(s) \in HeadPart(s)
          BY <3>1, <4>1, HeadFacts DEF HeadPart, Ends
        <5>2. DecidedAt(s, i) <= HeadLast(s) /\ DecidedAt(s, i) \in Seqs(s)
          BY <3>2, <5>1 DEF Ends
        <5> QED BY <1>5, <5>2 DEF HeadPart
      <4>2. CASE InTransaction(s, i)
        <5>1. PICK x \in Ends(s) \cap E : ~(x < i)
          BY <1>7, <1>9, <4>2
        <5>2. x \in Seqs(s) /\ x >= i
          BY <1>6, <2>0, <5>1 DEF Ends
        <5>3. DecidedAt(s, i) <= x /\ DecidedAt(s, i) \in Seqs(s)
          BY <3>2, <5>1, <5>2 DEF Ends
        <5>4. DecidedAt(s, i) = x \/ DecidedAt(s, i) < x
          BY <1>6, <5>2, <5>3
        <5> QED BY <1>5, <5>1, <5>3, <5>4
      <4> QED BY <2>2, <4>1, <4>2
    <3> QED BY <1>3, <2>2, <3>3 DEF Decided
  <2>3. CASE (i \in HeadPart(s) \/ InTransaction(s, i)) /\ ~(DecidedAt(s, i) <= Len(s))
    <3>1. \A e \in Ends(s) : e < i
      <4>1. SUFFICES ASSUME ~(\A e \in Ends(s) : e < i) PROVE FALSE
        OBVIOUS
      <4>2. DecidedAt(s, i) \in Seqs(s)
        BY <2>0, <2>3, <4>1, DecidedFacts DEF Ends
      <4> QED BY <1>6, <2>3, <4>2
    <3>2. ~InTransaction(s, i)
      BY <1>7, <1>9, <3>1
    <3>3. Ends(s) = {}
      <4>1. i <= HeadLast(s)
        BY <2>3, <3>2 DEF HeadPart
      <4> QED BY <2>0, <3>1, <4>1, HeadFacts
    <3>4. \A o \in HeadPart(s) : s[o] # "begin"
      BY <1>5, <1>9, <3>3 DEF Block, OpenTx
    <3>5. Committed(s, i)
      BY <2>3, <3>2, <3>4 DEF Committed
    <3>6. Decided(s, u, n + 1, 1, c, i)
      BY <1>1, <1>9, <2>3 DEF Decided
    <3> QED BY <3>5, <3>6
  <2> QED BY <2>1, <2>2, <2>3
<1> QED BY <1>2, <1>3, <1>4, <1>8, <1>9

(* A failed statement: what is decided by then is what the contract says.  *)
LEMMA FailsAsDocumented ==
  ASSUME NEW s \in Seq(Kinds), NEW u, NEW n, NEW a, NEW b, Next1(s, u, n, a),
         Block(s, u, n, a, b), NEW p, p = u[n+1][a], Breaks(s, p),
         \A j \in Executed(u, n, a) : ~Breaks(s, j)
  PROVE  /\ Documented(s) = {i \in Written(s, u, n, a) : Decided(s, u, n, a, b, i) /\ Committed(s, i)}
         /\ n = 0 => Documented(s) = {}
<1> DEFINE E == Executed(u, n, a)
           D == {i \in Written(s, u, n, a) : Decided(s, u, n, a, b, i) /\ Committed(s, i)}
<1>1. E = {j \in Seqs(s) : j < p} /\ p \in Seqs(s) /\ (p \in HeadPart(s) <=> n = 0)
  BY Boundary
<1>2. (\A j \in Seqs(s) : j \in Nat /\ j <= Len(s)) /\ Len(s) \in Nat
  BY HeadFacts
<1>3. Executed(u, n, 1) \subseteq E /\ \A i \in E : i \in HeadPart(s) \/ i \in Executed(u, n, 1)
  BY Before
<1>4. \A d \in Seqs(s) : Reached(s, d) /\ ~Breaks(s, d) <=> d < p
  <2>1. ASSUME NEW d \in Seqs(s), d < p PROVE Reached(s, d) /\ ~Breaks(s, d)
    <3>1. \A j \in Seqs(s) : j < d => j < p
      BY <1>1, <1>2, <2>1
    <3> QED BY <1>1, <2>1, <3>1 DEF Reached
  <2>2. ASSUME NEW d \in Seqs(s), Reached(s, d), ~Breaks(s, d) PROVE d < p
    <3>1. ~(p < d) /\ p # d
      BY <1>1, <2>2 DEF Reached
    <3> QED BY <1>1, <1>2, <3>1
  <2> QED BY <2>1, <2>2
<1>5. ASSUME NEW i \in Documented(s) PROVE i \in D
  <2>1. i \in Seqs(s) /\ s[i] \in Writes /\ Survives(s, i, DecidedAt(s, i)) /\ i \in Nat /\ i <= Len(s)
    BY <1>2 DEF Documented
  <2>2. CASE i \notin HeadPart(s) /\ ~InTransaction(s, i)
    <3>1. DecidedAt(s, i) = i
      BY <2>1, <2>2, DecidedFacts
    <3>2. i \in E /\ Committed(s, i)
      BY <1>1, <1>4, <2>1, <3>1 DEF Survives, Committed
    <3> QED BY <1>3, <2>1, <2>2, <3>2 DEF Decided, Written
  <2>3. CASE (i \in HeadPart(s) \/ InTransaction(s, i)) /\ ~(\A e \in Ends(s) : e < i)
    <3>1. DecidedAt(s, i) \in Seqs(s) /\ DecidedAt(s, i) >= i
      BY <2>1, <2>3, DecidedFacts DEF Ends
    <3>2. DecidedAt(s, i) < p /\ DecidedAt(s, i) <= Len(s) /\ Committed(s, i)
      BY <1>2, <1>4, <2>1, <3>1 DEF Survives, Committed
    <3>3. i \in E /\ DecidedAt(s, i) \in E
      BY <1>1, <1>2, <2>1, <3>1, <3>2
    <3> QED BY <2>1, <2>3, <3>2, <3>3 DEF Decided, Written
  <2>4. CASE (i \in HeadPart(s) \/ InTransaction(s, i)) /\ (\A e \in Ends(s) : e < i)
    <3>1. DecidedAt(s, i) = Len(s) + 1
      BY <2>1, <2>4, DecidedFacts
    <3>2. Reached(s, Len(s) + 1)
      BY <2>1, <3>1 DEF Survives
    <3>3. p < Len(s) + 1
      BY <1>1, <1>2
    <3> QED BY <1>1, <3>2, <3>3 DEF Reached
  <2> QED BY <2>2, <2>3, <2>4
<1>6. ASSUME NEW i \in D
      PROVE  i \in Documented(s) /\ n # 0
  <2>1. /\ i \in Seqs(s) /\ s[i] \in Writes /\ Committed(s, i) /\ i \in Nat /\ i <= Len(s)
        /\ i \in E /\ Decided(s, u, n, a, b, i)
    BY <1>1, <1>2 DEF Written
  <2>2. CASE i \notin HeadPart(s) /\ ~InTransaction(s, i)
    <3>1. DecidedAt(s, i) = i
      BY <2>1, <2>2, DecidedFacts
    <3>2. Survives(s, i, i)
      BY <1>1, <1>4, <2>1, <3>1 DEF Survives, Committed
    <3>3. n # 0
      BY <2>1, <2>2, HeadIsFirst, NextTypes
    <3> QED BY <2>1, <3>1, <3>2, <3>3 DEF Documented
  <2>3. CASE (i \in HeadPart(s) \/ InTransaction(s, i)) /\ DecidedAt(s, i) <= Len(s)
    <3>1. DecidedAt(s, i) \in E
      BY <2>1, <2>3 DEF Decided
    <3>2. Survives(s, i, DecidedAt(s, i))
      BY <1>1, <1>4, <2>1, <2>3, <3>1 DEF Survives, Committed
    <3>3. n # 0
      <4>1. SUFFICES ASSUME n = 0 PROVE FALSE
        OBVIOUS
      <4>2. p <= HeadLast(s) /\ HeadLast(s) \in Nat
        BY <1>1, <4>1, HeadFacts DEF HeadPart
      <4>3. ~(\A e \in Ends(s) : e < i)
        BY <1>2, <2>1, <2>3, DecidedFacts
      <4>4. DecidedAt(s, i) \in Ends(s)
        BY <2>1, <2>3, <4>3, DecidedFacts
      <4>5. HeadLast(s) <= DecidedAt(s, i)
        BY <4>4, HeadFacts
      <4> QED BY <1>1, <1>2, <3>1, <4>2, <4>5
    <3> QED BY <2>1, <3>2, <3>3 DEF Documented
  <2>4. CASE (i \in HeadPart(s) \/ InTransaction(s, i)) /\ ~(DecidedAt(s, i) <= Len(s))
    <3>1. n >= 1 /\ b # "explicit"
      BY <2>1, <2>4 DEF Decided
    <3>2. i \notin HeadPart(s)
      BY <1>1, <2>4, <3>1, TailAfterEnd
    <3>3. \A e \in Ends(s) : e < i
      <4>1. SUFFICES ASSUME ~(\A e \in Ends(s) : e < i) PROVE FALSE
        OBVIOUS
      <4>2. DecidedAt(s, i) \in Seqs(s)
        BY <2>1, <2>4, <4>1, DecidedFacts DEF Ends
      <4> QED BY <1>2, <2>4, <4>2
    <3>4. \A j \in Seqs(s) : j < i => j \in E
      BY <1>1, <1>2, <2>1
    <3>5. OpenTx(s, E)
      BY <1>1, <2>1, <2>4, <3>2, <3>3, <3>4, TxStays
    <3> QED BY <3>1, <3>5 DEF Block
  <2> QED BY <2>2, <2>3, <2>4
<1> QED BY <1>5, <1>6

(* The same when every message went through.                               *)
LEMMA SentAsDocumented ==
  ASSUME NEW s \in Seq(Kinds), NEW u, Shape(s, u), NEW b, Block(s, u, Len(u), 1, b),
         \A j \in Executed(u, Len(u), 1) : ~Breaks(s, j)
  PROVE  Documented(s) = {i \in Written(s, u, Len(u), 1) :
                            Decided(s, u, Len(u), 1, b, i) /\ Committed(s, i)}
<1> DEFINE n == Len(u)
           E == Executed(u, n, 1)
<1>1. n \in Nat /\ n >= 1 /\ u \in Seq(Seq(Nat))
  BY DEF Shape
<1>2. (\A j \in Seqs(s) : j \in Nat /\ j <= Len(s)) /\ Len(s) \in Nat
  BY HeadFacts
<1>3. E = Seqs(s)
  <2>1. ASSUME NEW i \in Seqs(s) PROVE i \in E
    <3>1. PICK k \in DOMAIN u : \E j \in DOMAIN u[k] : u[k][j] = i
      BY DEF Shape
    <3>2. k <= n
      BY <1>1
    <3> QED BY <1>2, <3>1, <3>2 DEF Executed
  <2> QED BY <1>1, <2>1, ExecutedDown
<1> HIDE DEF n
<1>4. \A d \in Nat : Reached(s, d)
  BY <1>3 DEF Reached, n
<1>5. ASSUME NEW i \in Seqs(s), s[i] \in Writes
      PROVE  Survives(s, i, DecidedAt(s, i)) <=> Decided(s, u, n, 1, b, i) /\ Committed(s, i)
  <2>1. CASE i \notin HeadPart(s) /\ ~InTransaction(s, i)
    <3>1. DecidedAt(s, i) = i
      BY <2>1, DecidedFacts
    <3>2. Decided(s, u, n, 1, b, i)
      BY <1>3, <2>1 DEF Decided
    <3>3. ~Breaks(s, i)
      BY <1>3 DEF n
    <3> QED BY <1>2, <1>4, <3>1, <3>2, <3>3 DEF Survives, Committed
  <2>2. CASE (i \in HeadPart(s) \/ InTransaction(s, i)) /\ ~(\A e \in Ends(s) : e < i)
    <3>1. DecidedAt(s, i) \in Seqs(s)
      BY <2>2, DecidedFacts DEF Ends
    <3>2. Decided(s, u, n, 1, b, i)
      BY <1>2, <1>3, <2>2, <3>1 DEF Decided
    <3>3. ~Breaks(s, DecidedAt(s, i))
      BY <1>3, <3>1 DEF n
    <3> QED BY <1>2, <1>4, <3>1, <3>2, <3>3 DEF Survives, Committed
  <2>3. CASE (i \in HeadPart(s) \/ InTransaction(s, i)) /\ (\A e \in Ends(s) : e < i)
    <3>1. DecidedAt(s, i) = Len(s) + 1 /\ ~(DecidedAt(s, i) <= Len(s)) /\ DecidedAt(s, i) \in Nat
      BY <1>2, <2>3, DecidedFacts
    <3>2. Survives(s, i, DecidedAt(s, i)) <=> Committed(s, i)
      BY <1>4, <3>1 DEF Survives, Committed
    <3>3. ASSUME Committed(s, i) PROVE b # "explicit"
      <4>1. ~InTransaction(s, i) /\ \A o \in HeadPart(s) : s[o] # "begin"
        BY <3>1, <3>3 DEF Committed
      <4>2. Ends(s) = {} /\ HeadLast(s) = Len(s)
        <5>1. i <= HeadLast(s)
          BY <2>3, <4>1 DEF HeadPart
        <5> QED BY <1>2, <2>3, <5>1, HeadFacts
      <4>3. \A o \in Seqs(s) : s[o] \notin {"begin", "chain"}
        BY <1>2, <4>1, <4>2 DEF HeadPart, Ends, Terminators
      <4> QED BY <1>3, <4>3 DEF Block, OpenTx, n
    <3> QED BY <1>1, <2>3, <3>1, <3>2, <3>3 DEF Decided
  <2> QED BY <2>1, <2>2, <2>3
<1> QED BY <1>3, <1>5 DEF Documented, Written, n
----------------------------------------------------------------------------
(* The steps                                                               *)

(* A message that is running stands at a statement of a well-formed unit.  *)
LEMMA InMessageIsNext ==
  ASSUME script \in Seq(Kinds), Running, InMessage
  PROVE  /\ Next1(script, units, sent, at) /\ Block(script, units, sent, at, block)
         /\ Current[at] = units[sent+1][at]
         /\ \A j \in Executed(units, sent, at) : ~Breaks(script, j)
         /\ Refused <=> Breaks(script, Current[at])
<1>1. /\ Shape(script, units) /\ Position(units, sent, at)
      /\ sent < Len(units) /\ at <= Len(units[sent+1])
      /\ Block(script, units, sent, at, block)
      /\ \A j \in Executed(units, sent, at) : ~Breaks(script, j)
  BY DEF Running, InMessage, Current
<1>2. sent \in 0..Len(units)-1 /\ at \in 1..Len(units[sent+1])
  <2>1. units \in Seq(Seq(Nat))
    BY <1>1 DEF Shape
  <2>2. sent \in 0..Len(units) /\ at \in Nat \ {0} /\ Len(units) \in Nat
    BY <1>1, <2>1 DEF Position
  <2>3. sent + 1 \in DOMAIN units
    BY <1>1, <2>1, <2>2
  <2>4. Len(units[sent+1]) \in Nat
    BY <2>1, <2>3, UnitTypes
  <2> QED BY <1>1, <2>2, <2>4
<1>3. Next1(script, units, sent, at)
  BY <1>1, <1>2 DEF Next1
<1>4. Refused <=> Breaks(script, Current[at])
  BY <1>1, <1>3, RefusedBreaks DEF Refused, Kind, Multi, Current
<1> QED BY <1>1, <1>3, <1>4 DEF Current

LEMMA ExecStep ==
  ASSUME script \in Seq(Kinds), Running, ExecStatement
  PROVE  Running'
<1> DEFINE p == Current[at]
           W == Written(script, units, sent, at)
<1>1. /\ Next1(script, units, sent, at) /\ Block(script, units, sent, at, block)
      /\ p = units[sent+1][at] /\ ~Breaks(script, p)
      /\ \A j \in Executed(units, sent, at) : ~Breaks(script, j)
  BY InMessageIsNext DEF ExecStatement
<1>2. UNCHANGED <<script, units, sent, result>> /\ at' = at + 1 /\ Kind = script[p]
  BY DEF ExecStatement, Kind
<1>3. /\ Executed(units, sent, at + 1) = Executed(units, sent, at) \cup {p}
      /\ Shape(script, units) /\ Position(units, sent, at + 1)
  BY <1>1, Boundary, NextTypes
<1>4. Written(script, units, sent, at + 1) = W \cup ({p} \cap {i \in DOMAIN script : script[i] \in Writes})
  BY <1>1, WrittenStep
<1>5. \A j \in Executed(units, sent, at + 1) : ~Breaks(script, j)
  BY <1>1, <1>3
<1>6. /\ pending = {i \in W : ~Decided(script, units, sent, at, block, i)}
      /\ durable = {i \in W : Decided(script, units, sent, at, block, i) /\ Committed(script, i)}
      /\ \A i \in W : i \in Executed(units, sent, at) /\ script[i] \in Writes
      /\ result = NoResult
  BY DEF Running, Written
<1> HIDE DEF p, W
<1> DEFINE V == Written(script, units, sent, at + 1)
           Fate(c) ==
             /\ pending' = {i \in V : ~Decided(script, units, sent, at + 1, c, i)}
             /\ durable' = {i \in V : Decided(script, units, sent, at + 1, c, i) /\ Committed(script, i)}
<1>7. SUFFICES Block(script, units, sent, at + 1, block') /\ Fate(block')
  BY <1>2, <1>3, <1>5, <1>6 DEF Running
<1>8. CASE script[p] \in Terminators
  <2>1. /\ block' = IF script[p] = "chain" THEN block ELSE "none"
        /\ pending' = {}
        /\ durable' = IF script[p] = "rollback" THEN durable ELSE durable \cup pending
    BY <1>2, <1>8 DEF ExecStatement, Terminators
  <2>2. /\ Block(script, units, sent, at + 1, block')
        /\ \A i \in Executed(units, sent, at) :
             /\ Decided(script, units, sent, at + 1, block', i)
             /\ ~Decided(script, units, sent, at, block, i) => DecidedAt(script, i) = p
             /\ DecidedAt(script, i) <= Len(script)
    BY <1>1, <1>8, <2>1, ExecEnd
  <2>3. V = W
    <3>1. script[p] \notin Writes
      BY <1>8 DEF Writes, Terminators
    <3> QED BY <1>4, <3>1
  <2>4. \A i \in W : ~Decided(script, units, sent, at, block, i) =>
          (Committed(script, i) <=> script[p] # "rollback")
    BY <1>6, <2>2 DEF Committed
  <2>5. Fate(block')
    BY <1>6, <2>1, <2>2, <2>3, <2>4
  <2> QED BY <2>2, <2>5
<1>9. CASE script[p] \notin Terminators
  <2>1. /\ block' = IF script[p] = "begin" THEN "explicit"
                    ELSE IF block = "none" THEN "implicit" ELSE block
        /\ pending' = pending \cup ({p} \cap {i \in DOMAIN script : script[i] \in Writes})
        /\ durable' = durable
    <3>1. CASE script[p] = "begin"
      <4>1. block' = "explicit" /\ pending' = pending /\ durable' = durable
        BY <1>2, <3>1 DEF ExecStatement
      <4>2. {p} \cap {i \in DOMAIN script : script[i] \in Writes} = {}
        BY <3>1 DEF Writes
      <4> QED BY <3>1, <4>1, <4>2
    <3>2. CASE script[p] # "begin"
      BY <1>2, <1>9, <3>2 DEF ExecStatement, Terminators, p
    <3> QED BY <3>1, <3>2
  <2>2. /\ Block(script, units, sent, at + 1, block')
        /\ \A i \in Executed(units, sent, at) : script[i] \in Writes =>
             (Decided(script, units, sent, at + 1, block', i) <=> Decided(script, units, sent, at, block, i))
        /\ script[p] \in Writes => ~Decided(script, units, sent, at + 1, block', p)
    BY <1>1, <1>9, <2>1, ExecOther
  <2>3. Fate(block')
    BY <1>4, <1>6, <2>1, <2>2
  <2> QED BY <2>2, <2>3
<1> QED BY <1>8, <1>9

LEMMA DoneStep ==
  ASSUME script \in Seq(Kinds), Running, UnitDone
  PROVE  Running'
<1> DEFINE W == Written(script, units, sent, at)
           c == IF block = "explicit" THEN block ELSE "none"
<1>1. /\ Shape(script, units) /\ sent \in Nat /\ sent < Len(units)
      /\ at = Len(units[sent+1]) + 1 /\ Block(script, units, sent, at, block)
  <2>1. /\ Shape(script, units) /\ Position(units, sent, at) /\ sent < Len(units)
        /\ at > Len(units[sent+1]) /\ Block(script, units, sent, at, block)
    BY DEF Running, UnitDone, Current
  <2>2. units \in Seq(Seq(Nat))
    BY <2>1 DEF Shape
  <2>3. sent \in Nat /\ at \in Nat /\ at <= Len(units[sent+1]) + 1
    BY <2>1 DEF Position
  <2>4. Len(units[sent+1]) \in Nat
    <3>1. sent + 1 \in DOMAIN units
      BY <2>1, <2>2, <2>3
    <3> QED BY <2>2, <3>1, UnitTypes
  <2> QED BY <2>1, <2>3, <2>4
<1>2. /\ Position(units, sent + 1, 1) /\ Block(script, units, sent + 1, 1, c)
      /\ Executed(units, sent + 1, 1) = Executed(units, sent, at)
      /\ \A i \in Executed(units, sent, at) : script[i] \in Writes =>
           /\ block = "explicit" =>
                (Decided(script, units, sent + 1, 1, c, i) <=> Decided(script, units, sent, at, block, i))
           /\ block # "explicit" =>
                /\ Decided(script, units, sent + 1, 1, c, i)
                /\ Decided(script, units, sent, at, block, i) \/ Committed(script, i)
  BY <1>1, DoneDecided
<1>3. /\ UNCHANGED <<script, units, result>> /\ sent' = sent + 1 /\ at' = 1
      /\ block' = c
      /\ pending' = IF block = "explicit" THEN pending ELSE {}
      /\ durable' = IF block = "explicit" THEN durable ELSE durable \cup pending
  BY DEF UnitDone
<1>4. /\ pending = {i \in W : ~Decided(script, units, sent, at, block, i)}
      /\ durable = {i \in W : Decided(script, units, sent, at, block, i) /\ Committed(script, i)}
      /\ \A i \in W : i \in Executed(units, sent, at) /\ script[i] \in Writes
      /\ result = NoResult /\ \A j \in Executed(units, sent, at) : ~Breaks(script, j)
  BY DEF Running, Written
<1>5. Written(script, units, sent + 1, 1) = W
  BY <1>2 DEF Written
<1> HIDE DEF W, c
<1>6. /\ pending' = {i \in W : ~Decided(script, units, sent + 1, 1, c, i)}
      /\ durable' = {i \in W : Decided(script, units, sent + 1, 1, c, i) /\ Committed(script, i)}
  <2>1. CASE block = "explicit"
    BY <1>2, <1>3, <1>4, <2>1
  <2>2. CASE block # "explicit"
    BY <1>2, <1>3, <1>4, <2>2
  <2> QED BY <2>1, <2>2
<1> QED BY <1>1, <1>2, <1>3, <1>4, <1>5, <1>6 DEF Running

LEMMA RunningTypes ==
  ASSUME script \in Seq(Kinds), Running
  PROVE  /\ units \in Seq(Seq(Nat)) /\ sent \in 0..Len(units) /\ at \in Nat /\ Len(units) \in Nat
         /\ block \in {"none", "implicit", "explicit"}
         /\ pending \subseteq DOMAIN script /\ durable \subseteq DOMAIN script /\ pending \cap durable = {}
<1>1. units \in Seq(Seq(Nat)) /\ sent \in 0..Len(units) /\ at \in Nat /\ Len(units) \in Nat
  BY DEF Running, Shape, Position
<1>2. Executed(units, sent, at) \subseteq DOMAIN script
  BY <1>1, ExecutedDown DEF Running, Seqs
<1> QED BY <1>1, <1>2 DEF Running, Block, Written

LEMMA FailedStep ==
  ASSUME script \in Seq(Kinds), Running, UnitFailed
  PROVE  Ended'
<1>1. /\ Next1(script, units, sent, at) /\ Block(script, units, sent, at, block)
      /\ Current[at] = units[sent+1][at] /\ Breaks(script, Current[at])
      /\ \A j \in Executed(units, sent, at) : ~Breaks(script, j)
  BY InMessageIsNext DEF UnitFailed
<1>2. durable = Documented(script) /\ (sent = 0 => durable = {})
  BY <1>1, FailsAsDocumented DEF Running
<1>3. /\ UNCHANGED <<script, units, sent, at, durable>>
      /\ result' = [mode |-> IF sent = 0 THEN "atomic" ELSE "psql", committed |-> sent]
      /\ pending' \subseteq pending /\ block' \in {block, "none"}
  BY DEF UnitFailed
<1> QED BY <1>2, <1>3, RunningTypes DEF Ended

LEMMA SentStep ==
  ASSUME script \in Seq(Kinds), Running, AllSent
  PROVE  Ended'
<1>1. sent = Len(units) /\ at = 1 /\ Shape(script, units)
  BY RunningTypes DEF Running, AllSent, Position
<1>2. durable = Documented(script)
  BY <1>1, SentAsDocumented DEF Running
<1>3. /\ UNCHANGED <<script, units, sent, at, block, pending, durable>>
      /\ result' = [mode |-> "none", committed |-> Len(units)]
  BY DEF AllSent
<1> QED BY <1>2, <1>3, RunningTypes DEF Ended
----------------------------------------------------------------------------
(* The masks                                                               *)

Items ==
  {"INSERT", "INTO", "char", "semi", "SELECT", "CREATE", "INDEX",
   "CONCURRENTLY", "BEGIN", "COMMIT", "END", "WORK", "ROLLBACK",
   "TRANSACTION", "AND", "CHAIN", "TO", "S", "PREPARED", "RULE", "lpar",
   "X", "rpar", "FUNCTION", "ATOMIC", "CASE", "DATE"}

Plain == {"write", "fail", "concurrent", "begin", "commit", "end_work", "rollback", "chain",
          "rollback_to", "prepared", "nothing"}

LEMMA MaskKinds ==
  DOMAIN Mask = Plain \cup {"rule", "function", "empty_body", "end_column", "comment"}
BY DEF Mask, Plain

LEMMA MaskTypes ==
  ASSUME NEW k \in DOMAIN Mask
  PROVE  Mask[k] \in Seq(Items) /\ Len(Mask[k]) \in Nat /\ (Len(Mask[k]) = 0 <=> k = "comment")
<1>1. CASE k = "write"
  BY <1>1 DEF Mask, Items
<1>2. CASE k = "fail"
  BY <1>2 DEF Mask, Items
<1>3. CASE k = "concurrent"
  BY <1>3 DEF Mask, Items
<1>4. CASE k = "begin"
  BY <1>4 DEF Mask, Items
<1>5. CASE k = "commit"
  BY <1>5 DEF Mask, Items
<1>6. CASE k = "end_work"
  BY <1>6 DEF Mask, Items
<1>7. CASE k = "rollback"
  BY <1>7 DEF Mask, Items
<1>8. CASE k = "chain"
  BY <1>8 DEF Mask, Items
<1>9. CASE k = "rollback_to"
  BY <1>9 DEF Mask, Items
<1>10. CASE k = "prepared"
  BY <1>10 DEF Mask, Items
<1>11. CASE k = "rule"
  BY <1>11 DEF Mask, Items
<1>12. CASE k = "function"
  BY <1>12 DEF Mask, Items
<1>13. CASE k = "empty_body"
  BY <1>13 DEF Mask, Items
<1>14. CASE k = "end_column"
  BY <1>14 DEF Mask, Items
<1>15. CASE k = "nothing"
  BY <1>15 DEF Mask, Items
<1>16. CASE k = "comment"
  BY <1>16 DEF Mask, Items
<1> QED BY <1>1, <1>2, <1>3, <1>4, <1>5, <1>6, <1>7, <1>8, <1>9, <1>10,
           <1>11, <1>12, <1>13, <1>14, <1>15, <1>16, MaskKinds DEF Plain

(* No parentheses, no body, and one semicolon, at the end.                 *)
IsPlain(m) ==
  /\ Len(m) >= 1 /\ m[Len(m)] = "semi"
  /\ \A j \in 1..Len(m) : j < Len(m) => m[j] \notin {"lpar", "rpar", "semi", "ATOMIC"}

LEMMA PlainMasks ==
  ASSUME NEW k \in Plain
  PROVE  IsPlain(Mask[k])
<1>1. IsPlain(Mask["write"])
  BY DEF IsPlain, Mask
<1>2. IsPlain(Mask["fail"])
  BY DEF IsPlain, Mask
<1>3. IsPlain(Mask["concurrent"])
  BY DEF IsPlain, Mask
<1>4. IsPlain(Mask["begin"])
  BY DEF IsPlain, Mask
<1>5. IsPlain(Mask["commit"])
  BY DEF IsPlain, Mask
<1>6. IsPlain(Mask["end_work"])
  BY DEF IsPlain, Mask
<1>7. IsPlain(Mask["rollback"])
  BY DEF IsPlain, Mask
<1>8. IsPlain(Mask["chain"])
  BY DEF IsPlain, Mask
<1>9. IsPlain(Mask["rollback_to"])
  BY DEF IsPlain, Mask
<1>10. IsPlain(Mask["prepared"])
  BY DEF IsPlain, Mask
<1>11. IsPlain(Mask["nothing"])
  BY DEF IsPlain, Mask
<1> QED BY <1>1, <1>2, <1>3, <1>4, <1>5, <1>6, <1>7, <1>8, <1>9, <1>10,
           <1>11 DEF Plain

(* firstWord, from any place.                                              *)
LEMMA NextWordIs ==
  ASSUME NEW m \in Seq(Items), NEW i \in Nat
  PROVE  /\ NextWord(m, i) \in Nat /\ NextWord(m, i) > 0
         /\ \A j \in i+1..Len(m) : IsWord(m[j]) /\ (\A l \in i+1..j-1 : ~IsWord(m[l])) =>
              NextWord(m, i) = j
         /\ (\A j \in i+1..Len(m) : ~IsWord(m[j])) => NextWord(m, i) = Len(m) + 1
<1> DEFINE later == {j \in i+1..Len(m) : IsWord(m[j])}
<1>1. later \in SUBSET Nat /\ Len(m) \in Nat
  OBVIOUS
<1>2. NextWord(m, i) = IF later = {} THEN Len(m) + 1 ELSE Min(later)
  BY DEF NextWord
<1>3. later # {} => Min(later) \in later /\ \A j \in later : Min(later) <= j
  BY <1>1, MinIsLeast
<1>4. NextWord(m, i) \in Nat /\ NextWord(m, i) > 0
  BY <1>1, <1>2, <1>3
<1>5. ASSUME NEW j \in i+1..Len(m), IsWord(m[j]), \A l \in i+1..j-1 : ~IsWord(m[l])
      PROVE  NextWord(m, i) = j
  <2>1. j \in later /\ \A l \in later : j <= l
    BY <1>5
  <2> QED BY <1>1, <1>2, <1>3, <2>1
<1>6. (\A j \in i+1..Len(m) : ~IsWord(m[j])) => NextWord(m, i) = Len(m) + 1
  BY <1>2
<1> QED BY <1>4, <1>5, <1>6

(* The three ways the words of a short statement are found.                *)
LEMMA NextWords ==
  ASSUME NEW m \in Seq(Items), NEW i \in Nat
  PROVE  /\ i < Len(m) /\ IsWord(m[i+1]) => NextWord(m, i) = i + 1
         /\ i + 1 = Len(m) /\ ~IsWord(m[i+1]) => NextWord(m, i) = i + 2
         /\ i = Len(m) => NextWord(m, i) = i + 1
<1>1. ASSUME i < Len(m), IsWord(m[i+1]) PROVE NextWord(m, i) = i + 1
  <2>1. i + 1 \in i+1..Len(m) /\ \A l \in i+1..i+1-1 : FALSE
    BY <1>1
  <2> QED BY <1>1, <2>1, NextWordIs
<1>2. ASSUME i + 1 = Len(m), ~IsWord(m[i+1]) PROVE NextWord(m, i) = i + 2
  <2>1. (\A l \in i+1..Len(m) : l = i + 1) /\ Len(m) + 1 = i + 2
    BY <1>2
  <2> QED BY <1>2, <2>1, NextWordIs
<1>3. ASSUME i = Len(m) PROVE NextWord(m, i) = i + 1
  <2>1. \A l \in i+1..Len(m) : FALSE
    BY <1>3
  <2> QED BY <1>3, <2>1, NextWordIs
<1> QED BY <1>1, <1>2, <1>3

LEMMA Terminates ==
  ASSUME NEW k \in DOMAIN Mask, k # "end_column"
  PROVE  IsTransactionTerminator(Mask[k]) <=> k \in Terminators
<1>1. Mask[k] \in Seq(Items)
  BY MaskTypes
<1>2. CASE k \in {"write", "fail", "concurrent", "begin", "rule", "function", "empty_body"}
  <2>1. /\ Len(Mask[k]) >= 1
        /\ Mask[k][1] \in {"INSERT", "SELECT", "CREATE", "BEGIN"}
    BY <1>2 DEF Mask
  <2>2. IsWord(Mask[k][1])
    BY <2>1 DEF IsWord
  <2>3. NextWord(Mask[k], 0) = 1
    BY <1>1, <2>1, <2>2, NextWords
  <2>4. ~IsTransactionTerminator(Mask[k])
    BY <2>1, <2>3 DEF IsTransactionTerminator, Word
  <2> QED BY <1>2, <2>4 DEF Terminators
<1>3. CASE k \in {"nothing", "comment"}
  <2>1. Len(Mask[k]) \in {0, 1} /\ \A j \in 1..Len(Mask[k]) : ~IsWord(Mask[k][j])
    BY <1>3 DEF Mask, IsWord
  <2>2. NextWord(Mask[k], 0) = Len(Mask[k]) + 1
    BY <1>1, <2>1, NextWordIs
  <2>3. Word(Mask[k], NextWord(Mask[k], 0)) = "none"
    BY <2>1, <2>2 DEF Word
  <2> QED BY <1>3, <2>3 DEF IsTransactionTerminator, Terminators
<1>4. CASE k = "commit"
  <2>1. Len(Mask[k]) = 2 /\ Mask[k][1] = "COMMIT" /\ Mask[k][2] = "semi"
    BY <1>4 DEF Mask
  <2>2. IsWord(Mask[k][1]) /\ ~IsWord(Mask[k][2])
    BY <2>1 DEF IsWord
  <2>3. NextWord(Mask[k], 0) = 1 /\ NextWord(Mask[k], 1) = 3
    <3>1. 0 \in Nat /\ 1 \in Nat /\ 0 + 1 = 1 /\ 1 + 1 = 2 /\ 1 + 2 = 3 /\ 0 < 2
      OBVIOUS
    <3> QED BY <1>1, <2>1, <2>2, <3>1, NextWords
  <2> QED BY <1>4, <2>1, <2>3 DEF IsTransactionTerminator, Word, Terminators
<1>5. CASE k \in {"end_work", "rollback"}
  <2>1. /\ Len(Mask[k]) = 3 /\ Mask[k][1] \in {"END", "ROLLBACK"}
        /\ Mask[k][2] \in {"WORK", "TRANSACTION"} /\ Mask[k][3] = "semi"
    BY <1>5 DEF Mask
  <2>2. IsWord(Mask[k][1]) /\ IsWord(Mask[k][2]) /\ ~IsWord(Mask[k][3])
    BY <2>1 DEF IsWord
  <2>3. NextWord(Mask[k], 0) = 1 /\ NextWord(Mask[k], 1) = 2 /\ NextWord(Mask[k], 2) = 4
    <3>1. 0 \in Nat /\ 1 \in Nat /\ 2 \in Nat /\ 0 + 1 = 1 /\ 1 + 1 = 2 /\ 2 + 1 = 3 /\ 2 + 2 = 4
      OBVIOUS
    <3>2. 0 < Len(Mask[k]) /\ 1 < Len(Mask[k])
      BY <2>1
    <3> QED BY <1>1, <2>1, <2>2, <3>1, <3>2, NextWords
  <2> QED BY <1>5, <2>1, <2>3 DEF IsTransactionTerminator, Word, Terminators
<1>6. CASE k \in {"chain", "prepared"}
  <2>1. /\ Len(Mask[k]) = 4 /\ Mask[k][1] = "COMMIT"
        /\ Mask[k][2] = (IF k = "chain" THEN "AND" ELSE "PREPARED")
    BY <1>6 DEF Mask
  <2>2. IsWord(Mask[k][1]) /\ IsWord(Mask[k][2])
    BY <2>1 DEF IsWord
  <2>3. NextWord(Mask[k], 0) = 1 /\ NextWord(Mask[k], 1) = 2
    <3>1. 0 \in Nat /\ 1 \in Nat /\ 0 + 1 = 1 /\ 1 + 1 = 2
      OBVIOUS
    <3>2. 0 < Len(Mask[k]) /\ 1 < Len(Mask[k])
      BY <2>1
    <3> QED BY <1>1, <2>1, <2>2, <3>1, <3>2, NextWords
  <2> QED BY <1>6, <2>1, <2>3 DEF IsTransactionTerminator, Word, Terminators
<1>7. CASE k = "rollback_to"
  <2>1. /\ Len(Mask[k]) = 5 /\ Mask[k][1] = "ROLLBACK" /\ Mask[k][2] = "WORK" /\ Mask[k][3] = "TO"
    BY <1>7 DEF Mask
  <2>2. IsWord(Mask[k][1]) /\ IsWord(Mask[k][2]) /\ IsWord(Mask[k][3])
    BY <2>1 DEF IsWord
  <2>3. NextWord(Mask[k], 0) = 1 /\ NextWord(Mask[k], 1) = 2 /\ NextWord(Mask[k], 2) = 3
    <3>1. 0 \in Nat /\ 1 \in Nat /\ 2 \in Nat /\ 0 + 1 = 1 /\ 1 + 1 = 2 /\ 2 + 1 = 3
      OBVIOUS
    <3>2. 0 < Len(Mask[k]) /\ 1 < Len(Mask[k]) /\ 2 < Len(Mask[k])
      BY <2>1
    <3> QED BY <1>1, <2>1, <2>2, <3>1, <3>2, NextWords
  <2> QED BY <1>7, <2>1, <2>3 DEF IsTransactionTerminator, Word, Terminators
<1> QED BY <1>2, <1>3, <1>4, <1>5, <1>6, <1>7, MaskKinds DEF Plain

LEMMA RestIsNoTerminator == ~IsTransactionTerminator(<<>>)
<1>1. <<>> \in Seq(Items) /\ Len(<<>>) = 0
  OBVIOUS
<1>2. NextWord(<<>>, 0) = 1
  <2>1. 0 \in Nat /\ 0 + 1 = 1
    OBVIOUS
  <2> QED BY <1>1, <2>1, NextWords
<1> QED BY <1>1, <1>2 DEF IsTransactionTerminator, Word

LEMMA RuleMask ==
  LET m == Mask["rule"]
  IN  /\ Len(m) = 8 /\ m[1] = "CREATE" /\ m[2] = "RULE" /\ m[3] = "lpar" /\ m[4] = "COMMIT"
      /\ m[5] = "semi" /\ m[6] = "X" /\ m[7] = "rpar" /\ m[8] = "semi"
BY DEF Mask

LEMMA EmptyBodyMask ==
  LET m == Mask["empty_body"]
  IN  /\ Len(m) = 8 /\ m[1] = "CREATE" /\ m[2] = "FUNCTION" /\ m[3] = "lpar" /\ m[4] = "rpar"
      /\ m[5] = "BEGIN" /\ m[6] = "ATOMIC" /\ m[7] = "END" /\ m[8] = "semi"
BY DEF Mask

LEMMA FunctionMask ==
  LET m == Mask["function"]
  IN  /\ Len(m) = 16 /\ m[1] = "CREATE" /\ m[2] = "FUNCTION" /\ m[3] = "lpar" /\ m[4] = "rpar"
      /\ m[5] = "BEGIN" /\ m[6] = "ATOMIC" /\ m[7] = "SELECT" /\ m[8] = "CASE"
      /\ m[9] = "X" /\ m[10] = "END" /\ m[11] = "semi" /\ m[12] = "SELECT" /\ m[13] = "X"
      /\ m[14] = "semi" /\ m[15] = "END" /\ m[16] = "semi"
BY DEF Mask
----------------------------------------------------------------------------
(* The loops                                                               *)

(* A loop that starts with a and makes g of the index and of what it has   *)
(* runs to its end.                                                        *)
Loop(f, T, a, lo, hi, g) ==
  /\ f \in [lo..hi -> T]
  /\ f[lo] = a
  /\ \A i \in lo+1..hi : f[i] = g[<<i, f[i-1]>>]

LEMMA LoopRuns ==
  ASSUME NEW T, NEW a \in T, NEW lo \in Nat, NEW hi \in Nat, lo <= hi,
         NEW g \in [(lo+1..hi) \X T -> T]
  PROVE  \E f : Loop(f, T, a, lo, hi, g)
<1> USE DEF Loop
<1> DEFINE Runs(k) == \E f : Loop(f, T, a, lo, k, g)
           B == {k \in lo..hi : ~Runs(k)}
<1>1. Runs(lo)
  <2> DEFINE h == [i \in lo..lo |-> a]
  <2>1. h \in [lo..lo -> T] /\ h[lo] = a
    OBVIOUS
  <2>2. \A i \in lo+1..lo : h[i] = g[<<i, h[i-1]>>]
    OBVIOUS
  <2> HIDE DEF h
  <2> QED BY <2>1, <2>2
<1>2. ASSUME NEW k \in lo+1..hi, Runs(k - 1) PROVE Runs(k)
  <2>1. PICK f : Loop(f, T, a, lo, k - 1, g)
    BY <1>2
  <2> DEFINE h == [i \in lo..k |-> IF i = k THEN g[<<k, f[k-1]>>] ELSE f[i]]
  <2>2. h \in [lo..k -> T]
    <3>1. k - 1 \in lo..k-1 /\ \A i \in lo..k : i # k => i \in lo..k-1
      OBVIOUS
    <3> QED BY <2>1, <3>1
  <2>3. h[lo] = a
    <3>1. lo \in lo..k /\ lo # k
      OBVIOUS
    <3> QED BY <2>1, <3>1
  <2>4. ASSUME NEW i \in lo+1..k PROVE h[i] = g[<<i, h[i-1]>>]
    <3>1. i - 1 \in lo..(k-1) /\ i - 1 # k /\ i \in lo..k /\ i - 1 \in lo..k
      OBVIOUS
    <3>2. h[i-1] = f[i-1]
      BY <3>1
    <3>3. CASE i = k
      BY <3>1, <3>2, <3>3
    <3>4. CASE i # k
      <4>1. i \in lo+1..k-1
        BY <3>4
      <4> QED BY <2>1, <3>1, <3>2, <3>4, <4>1
    <3> QED BY <3>3, <3>4
  <2> QED BY <2>2, <2>3, <2>4
<1> HIDE DEF Runs
<1>3. B = {}
  <2>0. B \subseteq Nat
    OBVIOUS
  <2>1. SUFFICES ASSUME B # {} PROVE FALSE
    OBVIOUS
  <2>2. PICK m \in B : \A j \in B : m <= j
    BY <2>0, <2>1, Least
  <2>3. m # lo /\ m - 1 \in lo..hi /\ m \in lo+1..hi
    BY <1>1, <2>2
  <2>4. Runs(m - 1)
    BY <2>2, <2>3
  <2> QED BY <1>2, <2>2, <2>3, <2>4
<1>4. Runs(hi)
  BY <1>3
<1> QED BY <1>4 DEF Runs

(* A loop that stays in T from where it starts stays in T.                 *)
LEMMA LoopStays ==
  ASSUME NEW T, NEW lo \in Nat, NEW hi \in Nat, lo <= hi, NEW f,
         f = [i \in lo..hi |-> f[i]], f[lo] \in T,
         \A i \in lo+1..hi : f[i-1] \in T => f[i] \in T
  PROVE  f \in [lo..hi -> T]
<1> DEFINE B == {i \in lo..hi : f[i] \notin T}
<1>1. SUFFICES B = {}
  OBVIOUS
<1>2. SUFFICES ASSUME B # {} PROVE FALSE
  OBVIOUS
<1>3. B \in SUBSET Nat
  OBVIOUS
<1>4. PICK m \in B : \A j \in B : m <= j
  BY <1>2, <1>3, Least
<1>5. m # lo /\ m - 1 \in lo..hi /\ m \in lo+1..hi
  BY <1>4
<1>6. f[m-1] \in T
  BY <1>4, <1>5
<1> QED BY <1>4, <1>5, <1>6

(* The text of a script, statement by statement.                           *)
Reads(t, s) ==
  /\ t \in [0..Len(s) -> Seq(Items)]
  /\ t[0] = <<>>
  /\ \A i \in 1..Len(s) : t[i] = t[i-1] \o Mask[s[i]]

LEMMA MaskOfReads ==
  ASSUME NEW s \in Seq(DOMAIN Mask)
  PROVE  \E t : Reads(t, s) /\ MaskOf(s) = t[Len(s)]
<1> DEFINE n == Len(s)
           T == Seq(Items)
           Eq(h) == h = [i \in 0..n |-> IF i = 0 THEN <<>> ELSE h[i-1] \o Mask[s[i]]]
           g == [x \in (0+1..n) \X T |-> x[2] \o Mask[s[x[1]]]]
<1>1. n \in Nat /\ \A i \in 1..n : s[i] \in DOMAIN Mask /\ Mask[s[i]] \in T
  BY MaskTypes
<1>2. <<>> \in T /\ g \in [(0+1..n) \X T -> T]
  <2>1. 0 + 1 = 1
    OBVIOUS
  <2> QED BY <1>1, <2>1
<1>3. PICK k : Loop(k, T, <<>>, 0, n, g)
  <2> HIDE DEF n, g, T
  <2>1. 0 \in Nat /\ 0 <= n
    BY <1>1
  <2> QED BY <1>1, <1>2, <2>1, LoopRuns
<1>4. k \in [0..n -> T] /\ k[0] = <<>>
  BY <1>3 DEF Loop
<1>5. \A i \in 1..n : i \in 0..n /\ i # 0 /\ i - 1 \in 0..n /\ i \in 0+1..n
  BY <1>1
<1> HIDE DEF n, T
<1>6. \A i \in 1..n : k[i] = k[i-1] \o Mask[s[i]]
  <2>1. TAKE i \in 1..n
  <2>2. k[i] = g[<<i, k[i-1]>>] /\ <<i, k[i-1]>> \in (0+1..n) \X T
    BY <1>3, <1>4, <1>5 DEF Loop
  <2> QED BY <2>2
<1>7. Eq(k)
  <2> DEFINE h == [i \in 0..n |-> IF i = 0 THEN <<>> ELSE k[i-1] \o Mask[s[i]]]
  <2>1. \A i \in 0..n : i = 0 \/ i \in 1..n
    BY <1>1
  <2>2. \A i \in 0..n : k[i] = h[i]
    BY <1>4, <1>6, <2>1
  <2>3. k = [i \in 0..n |-> k[i]] /\ h = [i \in 0..n |-> h[i]]
    BY <1>4
  <2>4. k = h
    <3> HIDE DEF h
    <3> QED BY <2>2, <2>3
  <2> QED BY <2>4
<1> DEFINE c == CHOOSE h : Eq(h)
<1>8. Eq(c)
  <2> HIDE DEF Eq
  <2> QED BY <1>7
<1>9. MaskOf(s) = c[n]
  BY DEF MaskOf, n
<1> HIDE DEF c
<1>10. c[0] = <<>> /\ \A i \in 1..n : c[i] = c[i-1] \o Mask[s[i]]
  <2>1. 0 \in 0..n
    BY <1>1
  <2>2. c[0] = <<>>
    BY <1>8, <2>1
  <2>3. ASSUME NEW i \in 1..n PROVE c[i] = c[i-1] \o Mask[s[i]]
    BY <1>5, <1>8, <2>3
  <2> QED BY <2>2, <2>3
<1>11. c \in [0..n -> T]
  <2>1. c = [i \in 0..n |-> c[i]]
    BY <1>8
  <2>2. c[0] \in T
    BY <1>2, <1>10
  <2>3. \A i \in 0+1..n : c[i-1] \in T => c[i] \in T
    <3>1. TAKE i \in 0+1..n
    <3>2. i \in 1..n
      OBVIOUS
    <3>3. Mask[s[i]] \in Seq(Items) /\ c[i] = c[i-1] \o Mask[s[i]]
      BY <1>1, <1>10, <3>2 DEF T
    <3> QED BY <3>3, ConcatProperties DEF T
  <2>4. 0 \in Nat /\ 0 <= n
    BY <1>1
  <2> QED BY <1>1, <2>1, <2>2, <2>3, <2>4, LoopStays
<1> QED BY <1>9, <1>10, <1>11 DEF Reads, n, T

Grows(t, s, i) ==
  /\ Len(t[i]) = Len(t[i-1]) + Len(Mask[s[i]])
  /\ \A x \in 1..Len(t[i-1]) : t[i][x] = t[i-1][x]
  /\ \A x \in 1..Len(Mask[s[i]]) : t[i][Len(t[i-1]) + x] = Mask[s[i]][x]

LEMMA TextGrows ==
  ASSUME NEW s \in Seq(DOMAIN Mask), NEW t, Reads(t, s)
  PROVE  /\ \A i \in 0..Len(s) : t[i] \in Seq(Items) /\ Len(t[i]) \in Nat
         /\ \A i \in 1..Len(s) : Grows(t, s, i)
<1>1. \A i \in 0..Len(s) : t[i] \in Seq(Items) /\ Len(t[i]) \in Nat
  BY DEF Reads
<1>2. ASSUME NEW i \in 1..Len(s)
      PROVE  /\ Len(t[i]) = Len(t[i-1]) + Len(Mask[s[i]])
             /\ \A x \in 1..Len(t[i-1]) : t[i][x] = t[i-1][x]
             /\ \A x \in 1..Len(Mask[s[i]]) : t[i][Len(t[i-1]) + x] = Mask[s[i]][x]
  <2> DEFINE p == t[i-1]
             m == Mask[s[i]]
  <2>1. p \in Seq(Items) /\ m \in Seq(Items) /\ t[i] = p \o m
    <3>1. i - 1 \in 0..Len(s) /\ s[i] \in DOMAIN Mask
      OBVIOUS
    <3> QED BY <1>1, <3>1, MaskTypes DEF Reads
  <2> HIDE DEF p, m
  <2>2. /\ Len(p \o m) = Len(p) + Len(m) /\ Len(p) \in Nat /\ Len(m) \in Nat
        /\ \A x \in 1..Len(p) + Len(m) :
             (p \o m)[x] = IF x <= Len(p) THEN p[x] ELSE m[x - Len(p)]
    BY <2>1, ConcatProperties
  <2>3. \A x \in 1..Len(p) : (p \o m)[x] = p[x]
    BY <2>2
  <2>4. \A x \in 1..Len(m) : (p \o m)[Len(p) + x] = m[x]
    <3>1. TAKE x \in 1..Len(m)
    <3>2. Len(p) + x \in 1..Len(p) + Len(m) /\ ~(Len(p) + x <= Len(p)) /\ Len(p) + x - Len(p) = x
      BY <2>2
    <3> QED BY <2>2, <3>2
  <2> QED BY <2>1, <2>2, <2>3, <2>4 DEF p, m
<1> QED BY <1>1, <1>2 DEF Grows

LEMMA TextFacts ==
  ASSUME NEW s \in Seq(DOMAIN Mask), NEW t, Reads(t, s)
  PROVE  /\ \A i, j \in 0..Len(s) : i <= j => Len(t[i]) <= Len(t[j])
         /\ \A i, j \in 0..Len(s) : i <= j => \A x \in 1..Len(t[i]) : t[j][x] = t[i][x]
         /\ \A i \in 1..Len(s) : \A x \in 1..Len(Mask[s[i]]) :
              t[Len(s)][Len(t[i-1]) + x] = Mask[s[i]][x]
<1> DEFINE n == Len(s)
           Ok(i, j) == Len(t[i]) <= Len(t[j]) /\ \A x \in 1..Len(t[i]) : t[j][x] = t[i][x]
<1>0. /\ \A i \in 0..n : Len(t[i]) \in Nat
      /\ \A i \in 1..n : /\ Len(t[i]) = Len(t[i-1]) + Len(Mask[s[i]])
                         /\ \A x \in 1..Len(t[i-1]) : t[i][x] = t[i-1][x]
                         /\ \A x \in 1..Len(Mask[s[i]]) : t[i][Len(t[i-1]) + x] = Mask[s[i]][x]
  <2>1. (\A i \in 0..n : Len(t[i]) \in Nat) /\ \A i \in 1..n : Grows(t, s, i)
    BY TextGrows
  <2> QED BY <2>1 DEF Grows
<1>1. n \in Nat
  OBVIOUS
<1>2. ASSUME NEW i \in 0..n PROVE \A j \in 0..n : i <= j => Ok(i, j)
  <2> DEFINE B == {j \in 0..n : i <= j /\ ~Ok(i, j)}
  <2>1. SUFFICES ASSUME B # {} PROVE FALSE
    OBVIOUS
  <2>2. PICK m \in B : \A j \in B : m <= j
    <3>1. B \in SUBSET Nat
      BY <1>1
    <3> QED BY <2>1, <3>1, Least
  <2>3. m # i
    BY <2>2, TextGrows
  <2>4. m \in 1..n /\ m - 1 \in 0..n /\ i <= m - 1
    BY <1>1, <2>2, <2>3
  <2>5. Ok(i, m - 1)
    BY <2>2, <2>4
  <2>6. Len(t[i]) \in Nat /\ Len(t[m-1]) \in Nat /\ Len(t[m]) \in Nat /\ Len(Mask[s[m]]) \in Nat
    <3>1. s[m] \in DOMAIN Mask
      BY <2>4
    <3> QED BY <2>4, <3>1, TextGrows, MaskTypes
  <2>7. Len(t[m]) = Len(t[m-1]) + Len(Mask[s[m]]) /\ \A x \in 1..Len(t[m-1]) : t[m][x] = t[m-1][x]
    BY <1>0, <2>4
  <2>8. Len(t[i]) <= Len(t[m-1]) /\ \A x \in 1..Len(t[i]) : t[m-1][x] = t[i][x]
    BY <2>5
  <2>9. Len(t[i]) <= Len(t[m])
    <3> DEFINE li == Len(t[i])
               lp == Len(t[m-1])
               lm == Len(Mask[s[m]])
    <3>1. li \in Nat /\ lp \in Nat /\ lm \in Nat /\ li <= lp /\ Len(t[m]) = lp + lm
      BY <2>6, <2>7, <2>8
    <3> HIDE DEF li, lp, lm
    <3>2. li <= lp + lm
      BY <3>1
    <3> QED BY <3>1, <3>2 DEF li
  <2>10. \A x \in 1..Len(t[i]) : t[m][x] = t[i][x]
    <3>1. \A x \in 1..Len(t[i]) : x \in 1..Len(t[m-1])
      BY <2>6, <2>8
    <3> QED BY <2>7, <2>8, <3>1
  <2> QED BY <2>2, <2>9, <2>10
<1>3. ASSUME NEW i \in 1..n, NEW x \in 1..Len(Mask[s[i]])
      PROVE  t[n][Len(t[i-1]) + x] = Mask[s[i]][x]
  <2>1. i \in 0..n /\ i - 1 \in 0..n /\ n \in 0..n /\ i <= n /\ s[i] \in DOMAIN Mask
    BY <1>1
  <2>2. Len(t[i-1]) \in Nat /\ Len(Mask[s[i]]) \in Nat
    BY <2>1, TextGrows, MaskTypes
  <2>3. Len(t[i]) = Len(t[i-1]) + Len(Mask[s[i]]) /\ t[i][Len(t[i-1]) + x] = Mask[s[i]][x]
    BY <1>0
  <2>4. Len(t[i-1]) + x \in 1..Len(t[i])
    <3> DEFINE lp == Len(t[i-1])
               lm == Len(Mask[s[i]])
    <3>1. lp \in Nat /\ lm \in Nat /\ x \in 1..lm /\ Len(t[i]) = lp + lm
      BY <2>2, <2>3
    <3> HIDE DEF lp, lm
    <3>2. lp + x \in 1..lp + lm
      BY <3>1
    <3> QED BY <3>1, <3>2 DEF lp
  <2> QED BY <1>2, <2>1, <2>3, <2>4
<1> QED BY <1>2, <1>3

(* The text of the first i statements.                                     *)
LEMMA TextOfPrefix ==
  ASSUME NEW s \in Seq(DOMAIN Mask), NEW t, Reads(t, s), NEW i \in 0..Len(s)
  PROVE  MaskOf(SubSeq(s, 1, i)) = t[i]
<1> DEFINE r == SubSeq(s, 1, i)
<1>1. r \in Seq(DOMAIN Mask) /\ Len(r) = i /\ i \in Nat /\ \A j \in 1..i : r[j] = s[j] /\ j \in 1..Len(s)
  OBVIOUS
<1> HIDE DEF r
<1>2. PICK u : Reads(u, r) /\ MaskOf(r) = u[i]
  BY <1>1, MaskOfReads
<1> DEFINE B == {j \in 0..i : u[j] # t[j]}
<1>3. B = {}
  <2>1. SUFFICES ASSUME B # {} PROVE FALSE
    OBVIOUS
  <2>2. PICK m \in B : \A j \in B : m <= j
    <3>1. B \in SUBSET Nat
      BY <1>1
    <3> QED BY <2>1, <3>1, Least
  <2>3. m # 0
    BY <1>2, <2>2 DEF Reads
  <2>4. m \in 1..i /\ m - 1 \in 0..i
    BY <1>1, <2>2, <2>3
  <2>5. u[m-1] = t[m-1]
    BY <2>2, <2>4
  <2>6. u[m] = u[m-1] \o Mask[r[m]] /\ t[m] = t[m-1] \o Mask[s[m]] /\ r[m] = s[m]
    BY <1>1, <1>2, <2>4 DEF Reads
  <2> QED BY <2>2, <2>5, <2>6
<1>4. u[i] = t[i]
  BY <1>1, <1>3
<1> QED BY <1>2, <1>4 DEF r

(* closesBody's count of what CASE has opened.                             *)
Deeper(x, d) ==
  CASE x = "CASE" -> d + 1
    [] x = "END"  -> IF d = 0 THEN 0 ELSE d - 1
    [] OTHER      -> d

LEMMA ClosesBodyCounts ==
  ASSUME NEW m \in Seq(Items)
  PROVE  \E d \in [0..Len(m) -> Nat] :
           /\ d[0] = 0
           /\ \A i \in 1..Len(m) : d[i] = Deeper(m[i], d[i-1])
           /\ ClosesBody(m) <=> \E i \in 1..Len(m) : m[i] = "END" /\ d[i-1] = 0
<1> DEFINE n == Len(m)
           Eq(h) == h = [i \in 0..n |-> IF i = 0 THEN 0 ELSE Deeper(m[i], h[i-1])]
           g == [x \in (0+1..n) \X Nat |-> Deeper(m[x[1]], x[2])]
<1>1. n \in Nat
  OBVIOUS
<1>2. \A x, d : d \in Nat => Deeper(x, d) \in Nat
  BY DEF Deeper
<1>3. g \in [(0+1..n) \X Nat -> Nat]
  BY <1>2
<1>4. PICK k : Loop(k, Nat, 0, 0, n, g)
  <2> HIDE DEF n, g
  <2>1. 0 \in Nat /\ 0 <= n
    BY <1>1
  <2> QED BY <1>1, <1>3, <2>1, LoopRuns
<1>5. k \in [0..n -> Nat] /\ k[0] = 0
  BY <1>4 DEF Loop
<1>6. \A i \in 1..n : i \in 0..n /\ i # 0 /\ i - 1 \in 0..n /\ i \in 0+1..n
  BY <1>1
<1> HIDE DEF n
<1>7. \A i \in 1..n : k[i] = Deeper(m[i], k[i-1])
  <2>1. TAKE i \in 1..n
  <2>2. k[i] = g[<<i, k[i-1]>>] /\ <<i, k[i-1]>> \in (0+1..n) \X Nat
    BY <1>4, <1>5, <1>6 DEF Loop
  <2> QED BY <2>2
<1>8. Eq(k)
  <2> DEFINE h == [i \in 0..n |-> IF i = 0 THEN 0 ELSE Deeper(m[i], k[i-1])]
  <2>1. \A i \in 0..n : i = 0 \/ i \in 1..n
    BY <1>1
  <2>2. \A i \in 0..n : k[i] = h[i]
    BY <1>5, <1>7, <2>1
  <2>3. k = [i \in 0..n |-> k[i]] /\ h = [i \in 0..n |-> h[i]]
    BY <1>5
  <2>4. k = h
    <3> HIDE DEF h
    <3> QED BY <2>2, <2>3
  <2> QED BY <2>4
<1> DEFINE c == CHOOSE h : Eq(h)
<1>9. Eq(c)
  <2> HIDE DEF Eq
  <2> QED BY <1>8
<1>10. ClosesBody(m) <=> \E i \in 1..n : m[i] = "END" /\ c[i-1] = 0
  BY DEF ClosesBody, n, Deeper
<1> HIDE DEF c
<1>11. c[0] = 0 /\ \A i \in 1..n : c[i] = Deeper(m[i], c[i-1])
  <2>1. 0 \in 0..n
    BY <1>1
  <2>2. c[0] = 0
    BY <1>9, <2>1
  <2>3. ASSUME NEW i \in 1..n PROVE c[i] = Deeper(m[i], c[i-1])
    BY <1>6, <1>9, <2>3
  <2> QED BY <2>2, <2>3
<1>12. c \in [0..n -> Nat]
  <2>1. c = [i \in 0..n |-> c[i]]
    BY <1>9
  <2>2. \A i \in 0+1..n : c[i-1] \in Nat => c[i] \in Nat
    BY <1>2, <1>11
  <2>3. 0 \in Nat /\ 0 <= n /\ c[0] \in Nat
    BY <1>1, <1>11
  <2> QED BY <1>1, <2>1, <2>2, <2>3, LoopStays
<1> QED BY <1>10, <1>11, <1>12 DEF n

(* The scan for the semicolons that end a statement.                       *)
Clean(o, ends) == [depth |-> 0, chunk |-> o + 1, open |-> FALSE, ends |-> ends]

Scans(f, m, o) ==
  /\ f = [i \in o..Len(m) |-> f[i]]
  /\ f[o] = Clean(o, <<>>)
  /\ \A i \in o+1..Len(m) : f[i] = Consume(f[i-1], m, i)

LEMMA StatementEndsScans ==
  ASSUME NEW m \in Seq(Items), NEW o \in 0..Len(m)
  PROVE  \E f : Scans(f, m, o) /\ StatementEnds(m, o + 1) = f[Len(m)].ends
<1> DEFINE n == Len(m)
           T == [depth : Int, chunk : Nat, open : BOOLEAN, ends : Seq(Nat)]
           Eq(h) == h = [i \in ((o+1) - 1)..n |->
                           IF i < o+1
                           THEN [depth |-> 0, chunk |-> o+1, open |-> FALSE, ends |-> <<>>]
                           ELSE Consume(h[i-1], m, i)]
           g == [x \in (o+1..n) \X T |-> Consume(x[2], m, x[1])]
<1>1. n \in Nat /\ o \in Nat /\ o <= n
  OBVIOUS
<1>2. ASSUME NEW s \in T, NEW i \in o+1..n PROVE Consume(s, m, i) \in T
  <2>1. i \in Nat /\ i + 1 \in Nat /\ s.depth \in Int /\ s.ends \in Seq(Nat)
    BY <1>1
  <2>2. s.depth + 1 \in Int /\ s.depth - 1 \in Int /\ Append(s.ends, i) \in Seq(Nat)
    BY <2>1, AppendProperties
  <2>3. \A e \in BOOLEAN : AtSemicolon(s, i, e) \in T
    BY <2>1, <2>2 DEF AtSemicolon
  <2>4. Observe(s.open, SubSeq(m, s.chunk, i - 1)) \in BOOLEAN
    BY DEF Observe
  <2> QED BY <2>1, <2>2, <2>3, <2>4 DEF Consume
<1>3. Clean(o, <<>>) \in T
  BY <1>1 DEF Clean
<1>4. g \in [(o+1..n) \X T -> T]
  BY <1>2
<1>5. PICK k : Loop(k, T, Clean(o, <<>>), o, n, g)
  <2> DEFINE a == Clean(o, <<>>)
  <2>1. a \in T
    BY <1>3
  <2> HIDE DEF n, g, T, a
  <2>2. \E k : Loop(k, T, a, o, n, g)
    BY <1>1, <1>4, <2>1, LoopRuns
  <2> QED BY <2>2 DEF a
<1>6. k \in [o..n -> T] /\ k[o] = Clean(o, <<>>)
  BY <1>5 DEF Loop
<1>7. \A i \in o+1..n : i \in o..n /\ ~(i < o+1) /\ i - 1 \in o..n
  BY <1>1
<1>8. (o + 1) - 1 = o /\ o < o + 1 /\ o \in o..n /\ \A i \in o..n : i < o+1 => i = o
  BY <1>1
<1> HIDE DEF n, T
<1>9. \A i \in o+1..n : k[i] = Consume(k[i-1], m, i)
  <2>1. TAKE i \in o+1..n
  <2>2. k[i] = g[<<i, k[i-1]>>] /\ <<i, k[i-1]>> \in (o+1..n) \X T
    BY <1>5, <1>6, <1>7 DEF Loop
  <2> QED BY <2>2
<1>10. Eq(k)
  <2> DEFINE h == [i \in ((o+1) - 1)..n |->
                     IF i < o+1
                     THEN [depth |-> 0, chunk |-> o+1, open |-> FALSE, ends |-> <<>>]
                     ELSE Consume(k[i-1], m, i)]
  <2>1. \A i \in o..n : i = o \/ i \in o+1..n
    BY <1>1
  <2>2. \A i \in o..n : k[i] = h[i]
    <3>1. k[o] = h[o]
      BY <1>6, <1>8 DEF Clean
    <3>2. \A i \in o+1..n : k[i] = h[i]
      BY <1>7, <1>8, <1>9
    <3> HIDE DEF h
    <3> QED BY <2>1, <3>1, <3>2
  <2>3. k = [i \in o..n |-> k[i]] /\ h = [i \in o..n |-> h[i]]
    BY <1>6, <1>8
  <2>4. k = h
    <3> HIDE DEF h
    <3> QED BY <2>2, <2>3
  <2> QED BY <2>4
<1> DEFINE c == CHOOSE h : Eq(h)
<1>11. Eq(c)
  <2> HIDE DEF Eq
  <2> QED BY <1>10
<1>12. StatementEnds(m, o + 1) = c[n].ends
  BY DEF StatementEnds, n
<1> HIDE DEF c
<1>13. c = [i \in o..n |-> c[i]]
  BY <1>8, <1>11
<1>14. c[o] = Clean(o, <<>>)
  BY <1>8, <1>11 DEF Clean
<1>15. ASSUME NEW i \in o+1..n PROVE c[i] = Consume(c[i-1], m, i)
  BY <1>7, <1>8, <1>11, <1>15
<1> QED BY <1>12, <1>13, <1>14, <1>15 DEF Scans, n

LEMMA SubSeqIs ==
  ASSUME NEW m \in Seq(Items), NEW a \in Nat \ {0}, NEW b \in Nat, b <= Len(m), a <= b + 1
  PROVE  /\ SubSeq(m, a, b) \in Seq(Items) /\ Len(SubSeq(m, a, b)) = b - a + 1
         /\ \A j \in 1..b - a + 1 : SubSeq(m, a, b)[j] = m[a + j - 1]
<1>1. a \in Int /\ b \in Int /\ \A i \in a..b : m[i] \in Items
  OBVIOUS
<1> QED BY <1>1, SubSeqProperties

(* Function bodies: none where ATOMIC does not stand, one that is closed   *)
(* again, one that stays open over its CASE ... END.                       *)
LEMMA NoBody ==
  ASSUME NEW c \in Seq(Items), \A j \in 1..Len(c) : c[j] # "ATOMIC"
  PROVE  ~OpensBody(c)
<1>1. SUFFICES ASSUME NEW i \in 1..Len(c) - 1, AtomicAt(c, i) PROVE FALSE
  BY DEF OpensBody
<1>2. i + 1 \in 1..Len(c) /\ c[i+1] = "ATOMIC"
  BY <1>1 DEF AtomicAt
<1> QED BY <1>2

LEMMA EmptyBodyCloses ==
  ASSUME NEW c \in Seq(Items), Len(c) = 7, \A j \in 1..7 : c[j] = Mask["empty_body"][j]
  PROVE  ~OpensBody(c)
<1>1. SUFFICES ASSUME NEW i \in 1..Len(c) - 1, AtomicAt(c, i), ~ClosesBody(SubSeq(c, i + 2, Len(c)))
               PROVE  FALSE
  BY DEF OpensBody
<1>2. i + 1 \in 1..7 /\ c[i+1] = "ATOMIC"
  BY <1>1 DEF AtomicAt
<1>3. i + 2 = 7 /\ c[7] = "END"
  <2>1. /\ c[1] = "CREATE" /\ c[2] = "FUNCTION" /\ c[3] = "lpar" /\ c[4] = "rpar"
        /\ c[5] = "BEGIN" /\ c[6] = "ATOMIC" /\ c[7] = "END"
    BY EmptyBodyMask
  <2> QED BY <1>2, <2>1
<1> DEFINE r == SubSeq(c, 7, 7)
<1>4. r \in Seq(Items) /\ Len(r) = 1 /\ r[1] = "END"
  <2>1. 7 \in Nat \ {0} /\ 7 \in Nat /\ 7 <= Len(c) /\ 7 <= 7 + 1
    OBVIOUS
  <2>2. r \in Seq(Items) /\ Len(r) = 7 - 7 + 1 /\ \A j \in 1..7 - 7 + 1 : r[j] = c[7 + j - 1]
    BY <2>1, SubSeqIs
  <2>3. 7 - 7 + 1 = 1 /\ 7 + 1 - 1 = 7 /\ 1 \in 1..1
    OBVIOUS
  <2> HIDE DEF r
  <2> QED BY <1>3, <2>2, <2>3
<1> HIDE DEF r
<1>5. PICK d \in [0..Len(r) -> Nat] :
        /\ d[0] = 0
        /\ ClosesBody(r) <=> \E j \in 1..Len(r) : r[j] = "END" /\ d[j-1] = 0
  BY <1>4, ClosesBodyCounts
<1>6. ClosesBody(r)
  <2>1. 1 \in 1..Len(r) /\ 1 - 1 = 0
    BY <1>4
  <2> QED BY <1>4, <1>5, <2>1
<1> QED BY <1>1, <1>3, <1>6 DEF r

LEMMA FunctionOpens ==
  ASSUME NEW c \in Seq(Items), Len(c) = 10, \A j \in 1..10 : c[j] = Mask["function"][j]
  PROVE  OpensBody(c)
<1>1. /\ c[1] = "CREATE" /\ c[2] = "FUNCTION" /\ c[3] = "lpar" /\ c[4] = "rpar"
      /\ c[5] = "BEGIN" /\ c[6] = "ATOMIC" /\ c[7] = "SELECT" /\ c[8] = "CASE"
      /\ c[9] = "X" /\ c[10] = "END"
  BY FunctionMask
<1>2. AtomicAt(c, 5) /\ \A j \in 1..5 - 1 : ~AtomicAt(c, j)
  BY <1>1 DEF AtomicAt
<1> DEFINE r == SubSeq(c, 7, 10)
<1>3. r \in Seq(Items) /\ Len(r) = 4 /\ r[1] = "SELECT" /\ r[2] = "CASE" /\ r[3] = "X" /\ r[4] = "END"
  <2>1. r \in Seq(Items) /\ Len(r) = 10 - 7 + 1 /\ \A j \in 1..10 - 7 + 1 : r[j] = c[7 + j - 1]
    <3>1. 7 \in Nat \ {0} /\ 10 \in Nat /\ 10 <= Len(c) /\ 7 <= 10 + 1
      OBVIOUS
    <3> QED BY <3>1, SubSeqIs
  <2>2. 10 - 7 + 1 = 4 /\ 7 + 1 - 1 = 7 /\ 7 + 2 - 1 = 8 /\ 7 + 3 - 1 = 9 /\ 7 + 4 - 1 = 10
    OBVIOUS
  <2>3. 1 \in 1..4 /\ 2 \in 1..4 /\ 3 \in 1..4 /\ 4 \in 1..4
    OBVIOUS
  <2> HIDE DEF r
  <2> QED BY <1>1, <2>1, <2>2, <2>3
<1> HIDE DEF r
<1>4. PICK d \in [0..Len(r) -> Nat] :
        /\ d[0] = 0
        /\ \A i \in 1..Len(r) : d[i] = Deeper(r[i], d[i-1])
        /\ ClosesBody(r) <=> \E j \in 1..Len(r) : r[j] = "END" /\ d[j-1] = 0
  BY <1>3, ClosesBodyCounts
<1>5. d[1] = Deeper("SELECT", 0) /\ d[2] = Deeper("CASE", d[1]) /\ d[3] = Deeper("X", d[2])
  <2>1. 1 \in 1..Len(r) /\ 2 \in 1..Len(r) /\ 3 \in 1..Len(r) /\ 1 - 1 = 0 /\ 2 - 1 = 1 /\ 3 - 1 = 2
    BY <1>3
  <2> QED BY <1>3, <1>4, <2>1
<1>6. d[3] = 1
  BY <1>5 DEF Deeper
<1>7. \A j \in 1..Len(r) : r[j] = "END" => j = 4
  BY <1>3
<1>8. ~ClosesBody(r)
  <2>1. 4 - 1 = 3
    OBVIOUS
  <2> QED BY <1>4, <1>6, <1>7, <2>1
<1> QED BY <1>2, <1>8 DEF OpensBody, r

(* One item of the scan.                                                   *)
Out(d, c, ends) == [depth |-> d, chunk |-> c, open |-> FALSE, ends |-> ends]
In(d, c, ends)  == [depth |-> d, chunk |-> c, open |-> TRUE, ends |-> ends]

(* END stands before a semicolon that ends a body.                         *)
Closes(c) == Word(c, NextWord(c, 0)) = "END"

LEMMA BodyEnds ==
  ASSUME NEW c \in Seq(Items), Len(c) >= 1, IsWord(c[1])
  PROVE  Closes(c) <=> c[1] = "END"
<1>1. NextWord(c, 0) = 1
  <2>1. 0 \in Nat /\ 0 + 1 = 1 /\ 0 < Len(c)
    OBVIOUS
  <2> QED BY <2>1, NextWords
<1> QED BY <1>1 DEF Closes, Word

LEMMA ConsumeOut ==
  ASSUME NEW m, NEW i, NEW d \in Int, NEW c, NEW ends
  PROVE  /\ m[i] \notin {"lpar", "rpar", "semi"} => Consume(Out(d, c, ends), m, i) = Out(d, c, ends)
         /\ m[i] = "lpar" => Consume(Out(d, c, ends), m, i) = Out(d + 1, c, ends)
         /\ m[i] = "rpar" => Consume(Out(d, c, ends), m, i) = Out(d - 1, c, ends)
         /\ m[i] = "semi" /\ d # 0 => Consume(Out(d, c, ends), m, i) = Out(d, c, ends)
         /\ m[i] = "semi" /\ d = 0 /\ ~OpensBody(SubSeq(m, c, i - 1)) =>
              Consume(Out(d, c, ends), m, i) = Out(0, i + 1, Append(ends, i))
         /\ m[i] = "semi" /\ d = 0 /\ OpensBody(SubSeq(m, c, i - 1)) =>
              Consume(Out(d, c, ends), m, i) = In(0, i + 1, ends)
<1> DEFINE s == Out(d, c, ends)
<1>1. s.depth = d /\ s.chunk = c /\ s.open = FALSE /\ s.ends = ends
  BY DEF Out
<1>2. m[i] \notin {"lpar", "rpar", "semi"} => Consume(s, m, i) = s
  BY DEF Consume
<1>3. m[i] = "lpar" => Consume(s, m, i) = Out(d + 1, c, ends)
  BY DEF Consume, Out
<1>4. m[i] = "rpar" => Consume(s, m, i) = Out(d - 1, c, ends)
  BY DEF Consume, Out
<1>5. m[i] = "semi" /\ d # 0 => Consume(s, m, i) = s
  BY <1>1 DEF Consume
<1>6. m[i] = "semi" /\ d = 0 =>
        Consume(s, m, i) = AtSemicolon(s, i, ~OpensBody(SubSeq(m, c, i - 1)))
  BY <1>1 DEF Consume, Observe
<1> HIDE DEF s
<1>7. /\ AtSemicolon(s, i, TRUE) = Out(0, i + 1, Append(ends, i))
      /\ AtSemicolon(s, i, FALSE) = In(0, i + 1, ends)
  BY <1>1 DEF AtSemicolon, Out, In
<1>8. CASE OpensBody(SubSeq(m, c, i - 1))
  BY <1>2, <1>3, <1>4, <1>5, <1>6, <1>7, <1>8 DEF s
<1>9. CASE ~OpensBody(SubSeq(m, c, i - 1))
  BY <1>2, <1>3, <1>4, <1>5, <1>6, <1>7, <1>9 DEF s
<1> QED BY <1>8, <1>9

LEMMA ConsumeIn ==
  ASSUME NEW m, NEW i, NEW c, NEW ends
  PROVE  /\ m[i] \notin {"lpar", "rpar", "semi"} => Consume(In(0, c, ends), m, i) = In(0, c, ends)
         /\ m[i] = "semi" /\ Closes(SubSeq(m, c, i - 1)) =>
              Consume(In(0, c, ends), m, i) = Out(0, i + 1, Append(ends, i))
         /\ m[i] = "semi" /\ ~Closes(SubSeq(m, c, i - 1)) =>
              Consume(In(0, c, ends), m, i) = In(0, i + 1, ends)
<1> DEFINE s == In(0, c, ends)
<1>1. s.depth = 0 /\ s.chunk = c /\ s.open = TRUE /\ s.ends = ends
  BY DEF In
<1>2. m[i] \notin {"lpar", "rpar", "semi"} => Consume(s, m, i) = s
  BY DEF Consume
<1> DEFINE k == SubSeq(m, c, i - 1)
<1>3. m[i] = "semi" => Consume(s, m, i) = AtSemicolon(s, i, Observe(s.open, k))
  BY <1>1 DEF Consume
<1>4. Observe(s.open, k) = Closes(k)
  BY <1>1 DEF Observe, Closes
<1> HIDE DEF s, k
<1>5. /\ AtSemicolon(s, i, TRUE) = Out(0, i + 1, Append(ends, i))
      /\ AtSemicolon(s, i, FALSE) = In(0, i + 1, ends)
  BY <1>1 DEF AtSemicolon, Out, In
<1>6. CASE Closes(k)
  <2>1. Observe(s.open, k) = TRUE
    BY <1>4, <1>6
  <2>2. m[i] = "semi" => Consume(s, m, i) = Out(0, i + 1, Append(ends, i))
    BY <1>3, <1>5, <2>1
  <2> QED BY <1>2, <1>6, <2>2 DEF s, k
<1>7. CASE ~Closes(k)
  <2>1. Observe(s.open, k) = FALSE
    BY <1>4, <1>7 DEF Closes
  <2>2. m[i] = "semi" => Consume(s, m, i) = In(0, i + 1, ends)
    BY <1>3, <1>5, <2>1
  <2> QED BY <1>2, <1>7, <2>2 DEF s, k
<1> QED BY <1>6, <1>7

(* The statement k stands in m after o, and the scan f runs over it.       *)
Stands(m, o, k, f) ==
  /\ o \in Nat /\ o + Len(Mask[k]) <= Len(m)
  /\ \A j \in 1..Len(Mask[k]) : m[o+j] = Mask[k][j] /\ f[o+j] = Consume(f[o+j-1], m, o + j)

(* What precedes its last semicolon.                                       *)
IsChunk(c, k, o, p, q) ==
  /\ c \in Seq(Items) /\ Len(c) = q - p + 1
  /\ \A j \in 1..q - p + 1 : c[j] = Mask[k][p - o + j - 1]

LEMMA ChunkIs ==
  ASSUME NEW m \in Seq(Items), NEW o \in Nat, NEW k \in DOMAIN Mask, NEW f, Stands(m, o, k, f),
         NEW p \in Nat, NEW q \in Nat, o < p, p <= q + 1, q <= o + Len(Mask[k])
  PROVE  IsChunk(SubSeq(m, p, q), k, o, p, q)
<1> DEFINE c == SubSeq(m, p, q)
<1>1. Len(Mask[k]) \in Nat /\ Len(m) \in Nat
  BY MaskTypes
<1>2. p \in Nat \ {0} /\ q <= Len(m)
  BY <1>1 DEF Stands
<1>3. c \in Seq(Items) /\ Len(c) = q - p + 1 /\ \A j \in 1..q - p + 1 : c[j] = m[p + j - 1]
  BY <1>2, SubSeqIs
<1>4. \A j \in 1..q - p + 1 : p + j - 1 = o + (p - o + j - 1) /\ p - o + j - 1 \in 1..Len(Mask[k])
  BY <1>1
<1>5. \A j \in 1..q - p + 1 : m[p + j - 1] = Mask[k][p - o + j - 1]
  BY <1>4 DEF Stands
<1> QED BY <1>3, <1>5 DEF IsChunk

LEMMA ScanPlain ==
  ASSUME NEW m \in Seq(Items), NEW o \in Nat, NEW k \in Plain, NEW f, Stands(m, o, k, f),
         NEW E, f[o] = Out(0, o + 1, E)
  PROVE  LET e == o + Len(Mask[k]) IN f[e] = Out(0, e + 1, Append(E, e))
<1> DEFINE L == Len(Mask[k])
           s == Out(0, o + 1, E)
           B == {j \in 0..L-1 : f[o+j] # s}
<1>1. k \in DOMAIN Mask /\ L \in Nat /\ L >= 1 /\ Mask[k][L] = "semi"
      /\ \A j \in 1..L : j < L => Mask[k][j] \notin {"lpar", "rpar", "semi", "ATOMIC"}
  BY MaskKinds, MaskTypes, PlainMasks DEF IsPlain
<1>2. \A j \in 1..L : m[o+j] = Mask[k][j] /\ f[o+j] = Consume(f[o+j-1], m, o + j)
  BY DEF Stands
<1> DEFINE n(i) == Consume(s, m, i)
           e(i) == ~OpensBody(SubSeq(m, o + 1, i - 1))
           t(i) == Out(0, i + 1, Append(E, i))
<1>3. \A i \in Nat : /\ m[i] \notin {"lpar", "rpar", "semi"} => n(i) = s
                     /\ m[i] = "semi" /\ e(i) => n(i) = t(i)
  <2>1. TAKE i \in Nat
  <2>2. 0 \in Int
    OBVIOUS
  <2> QED BY <2>2, ConsumeOut
<1>4. f[o] = s
  OBVIOUS
<1>5. L \in 1..L /\ o + L \in Nat
  BY <1>1
<1>6. o + 0 = o /\ \A j \in 1..L : o + j - 1 = o + (j - 1) /\ o + j \in Nat /\ j - 1 \in 0..L-1
  BY <1>1
<1>7. e(o + L)
  <2> DEFINE c == SubSeq(m, o + 1, o + L - 1)
  <2>1. /\ o + 1 \in Nat /\ o + L - 1 \in Nat /\ o < o + 1 /\ o + 1 <= o + L - 1 + 1 /\ o + L - 1 <= o + L
        /\ (o + L - 1) - (o + 1) + 1 = L - 1
    BY <1>1
  <2>2. c \in Seq(Items) /\ Len(c) = L - 1 /\ \A j \in 1..L - 1 : c[j] = Mask[k][(o + 1) - o + j - 1]
    <3> DEFINE p == o + 1
               q == o + L - 1
               d == SubSeq(m, p, q)
    <3>0. k \in DOMAIN Mask
      BY <1>1
    <3>1. p \in Nat /\ q \in Nat /\ o < p /\ p <= q + 1 /\ q <= o + Len(Mask[k])
      BY <2>1
    <3>3. q - p + 1 = L - 1
      BY <2>1
    <3> HIDE DEF p, q
    <3>2. IsChunk(d, k, o, p, q)
      BY <3>0, <3>1, ChunkIs
    <3> HIDE DEF d, L
    <3>4. d \in Seq(Items) /\ Len(d) = L - 1 /\ \A j \in 1..L - 1 : d[j] = Mask[k][p - o + j - 1]
      BY <3>2, <3>3 DEF IsChunk
    <3> QED BY <3>4 DEF d, p, q
  <2>3. \A j \in 1..L - 1 : (o + 1) - o + j - 1 = j /\ j \in 1..L /\ j < L
    BY <1>1
  <2>4. \A j \in 1..Len(c) : c[j] # "ATOMIC"
    <3> HIDE DEF c, L
    <3> QED BY <1>1, <2>2, <2>3
  <2> HIDE DEF c
  <2>5. ~OpensBody(c)
    BY <2>2, <2>4, NoBody
  <2> QED BY <2>5 DEF c
<1> HIDE DEF L, s, n, e, t
<1>8. B = {}
  <2>1. SUFFICES ASSUME B # {} PROVE FALSE
    OBVIOUS
  <2>2. PICK j \in B : \A x \in B : j <= x
    <3>1. B \in SUBSET Nat
      BY <1>1
    <3> QED BY <2>1, <3>1, Least
  <2>3. j # 0
    BY <1>4, <1>6, <2>2
  <2>4. j \in 1..L /\ j < L /\ j - 1 \in 0..L-1
    BY <1>1, <2>2, <2>3
  <2>5. f[o + j - 1] = s
    BY <1>6, <2>2, <2>4
  <2>6. m[o+j] \notin {"lpar", "rpar", "semi"} /\ f[o+j] = n(o + j)
    BY <1>1, <1>2, <2>4, <2>5 DEF n
  <2>7. f[o+j] = s
    BY <1>3, <1>6, <2>4, <2>6
  <2> QED BY <2>2, <2>7
<1>9. f[o + L - 1] = s
  BY <1>5, <1>6, <1>8
<1>10. m[o+L] = "semi" /\ f[o+L] = n(o + L)
  BY <1>1, <1>2, <1>5, <1>9 DEF n
<1>11. f[o+L] = t(o + L)
  BY <1>3, <1>5, <1>7, <1>10
<1> QED BY <1>11 DEF L, t

(* The scan stays as it is over items that say nothing to it.              *)
LEMMA Skips ==
  \A m, k, f : \A o, p, q \in Nat :
    /\ Stands(m, o, k, f) /\ Len(Mask[k]) \in Nat
    /\ o <= p /\ p <= q /\ q <= o + Len(Mask[k])
    /\ \A i \in p+1..q : Consume(f[p], m, i) = f[p]
    => f[q] = f[p]
<1> SUFFICES ASSUME NEW m, NEW k, NEW f, NEW o \in Nat, NEW p \in Nat, NEW q \in Nat,
                    Stands(m, o, k, f), Len(Mask[k]) \in Nat, o <= p, p <= q, q <= o + Len(Mask[k]),
                    \A i \in p+1..q : Consume(f[p], m, i) = f[p]
             PROVE  f[q] = f[p]
  OBVIOUS
<1> DEFINE B == {i \in p..q : f[i] # f[p]}
<1>1. ASSUME NEW i \in p+1..q PROVE f[i] = Consume(f[i-1], m, i)
  <2>1. i - o \in 1..Len(Mask[k]) /\ o + (i - o) = i /\ o + (i - o) - 1 = i - 1
    OBVIOUS
  <2> QED BY <2>1 DEF Stands
<1>2. \A i \in p..q : i # p => i \in p+1..q /\ i - 1 \in p..q /\ ~(i <= i - 1)
  OBVIOUS
<1>3. B = {}
  <2>1. SUFFICES ASSUME B # {} PROVE FALSE
    OBVIOUS
  <2>2. PICK i \in B : \A x \in B : i <= x
    <3>1. B \in SUBSET Nat
      OBVIOUS
    <3> QED BY <2>1, <3>1, Least
  <2>3. i # p /\ i \in p..q
    BY <2>2
  <2>4. f[i-1] = f[p]
    BY <1>2, <2>2, <2>3
  <2> QED BY <1>1, <1>2, <2>2, <2>3, <2>4
<1>4. q \in p..q
  OBVIOUS
<1> QED BY <1>3, <1>4

(* The statements with parentheses and bodies.                             *)

LEMMA ScanRule ==
  ASSUME NEW m \in Seq(Items), NEW o \in Nat, NEW f, Stands(m, o, "rule", f),
         NEW E, f[o] = Out(0, o + 1, E)
  PROVE  f[o + 8] = Out(0, o + 8 + 1, Append(E, o + 8))
<1> DEFINE k == "rule"
<1>1. k \in DOMAIN Mask /\ Len(Mask[k]) = 8 /\ Stands(m, o, k, f)
  BY RuleMask, MaskKinds
<1>2. \A j \in 1..8 : m[o+j] = Mask[k][j] /\ f[o+j] = Consume(f[o+j-1], m, o + j)
  BY <1>1 DEF Stands
<1>3. 0 \in Int /\ 1 \in Int /\ 0 + 1 = 1 /\ 1 - 1 = 0 /\ 1 # 0
  OBVIOUS
<1>4. ~OpensBody(SubSeq(m, o + 1, o + 8 - 1))
  <2> DEFINE p == o + 1
             q == o + 8 - 1
             c == SubSeq(m, p, q)
  <2>1. /\ p \in Nat /\ q \in Nat /\ o < p /\ p <= q + 1 /\ q <= o + Len(Mask[k])
        /\ q - p + 1 = 7 /\ p - o = 1
    BY <1>1
  <2> HIDE DEF p, q
  <2>0. IsChunk(c, k, o, p, q)
    BY <1>1, <2>1, ChunkIs
  <2> HIDE DEF c
  <2>2. c \in Seq(Items) /\ Len(c) = q - p + 1 /\ \A j \in 1..q - p + 1 : c[j] = Mask[k][p - o + j - 1]
    BY <2>0 DEF IsChunk
  <2>3. Len(c) = 7 /\ \A j \in 1..7 : c[j] = Mask[k][1 + j - 1]
    BY <2>1, <2>2
  <2>4. \A j \in 1..7 : 1 + j - 1 = j /\ Mask[k][j] # "ATOMIC"
    <3>1. \A j \in 1..7 : j = 1 \/ j = 2 \/ j = 3 \/ j = 4 \/ j = 5 \/ j = 6 \/ j = 7
      OBVIOUS
    <3>2. \A j \in 1..7 : Mask[k][j] # "ATOMIC"
      BY <3>1, RuleMask
    <3> QED BY <3>2
  <2>5. ~OpensBody(c)
    BY <2>2, <2>3, <2>4, NoBody
  <2> QED BY <2>5 DEF c, p, q
<1> HIDE DEF k
<1>5. f[o+2] = Out(0, o + 1, E)
  <2>1. f[o] = Out(0, o + 1, E)
    OBVIOUS
  <2>2. ASSUME NEW i \in o+1..o+2 PROVE Consume(f[o], m, i) = f[o]
    <3>1. i = o+1 \/ i = o+2
      OBVIOUS
    <3>2. \A j \in 1..2 : Mask[k][j] \notin {"lpar", "rpar", "semi"} /\ j \in 1..8
      <4>1. \A j \in 1..2 : j = 1 \/ j = 2
        OBVIOUS
      <4>2. Mask[k][1] = "CREATE" /\ Mask[k][2] = "RULE"
        BY RuleMask DEF k
      <4> QED BY <4>1, <4>2
    <3>3. m[i] \notin {"lpar", "rpar", "semi"}
      <4>1. 1 \in 1..2 /\ 2 \in 1..2
        OBVIOUS
      <4> QED BY <1>2, <3>1, <3>2, <4>1
    <3> QED BY <1>3, <2>1, <3>3, ConsumeOut
  <2>3. f[o+2] = f[o]
    <3> DEFINE p == o
               q == o+2
    <3>1. p \in Nat /\ q \in Nat /\ o <= p /\ p <= q /\ q <= o + Len(Mask[k]) /\ Len(Mask[k]) \in Nat
      BY <1>1
    <3>2. \A i \in p+1..q : Consume(f[p], m, i) = f[p]
      BY <2>2
    <3>3. Stands(m, o, k, f)
      BY <1>1
    <3> HIDE DEF p, q
    <3>4. f[q] = f[p]
      BY <3>1, <3>2, <3>3, Skips
    <3> QED BY <3>4 DEF p, q
  <2> QED BY <2>1, <2>3
<1>6. f[o+3] = Out(1, o + 1, E)
  <2>1. m[o+3] = "lpar" /\ f[o+3] = Consume(f[o+2], m, o + 3)
    <3>1. 3 \in 1..8 /\ o + 3 - 1 = o + 2 /\ Mask[k][3] = "lpar"
      BY RuleMask DEF k
    <3> QED BY <1>2, <3>1
  <2> QED BY <1>3, <1>5, <2>1, ConsumeOut
<1>7. f[o+6] = Out(1, o + 1, E)
  <2>1. f[o+3] = Out(1, o + 1, E)
    BY <1>6
  <2>2. ASSUME NEW i \in (o+3)+1..o+6 PROVE Consume(f[o+3], m, i) = f[o+3]
    <3>1. i = o+4 \/ i = o+5 \/ i = o+6
      OBVIOUS
    <3>2. \A j \in 4..6 : Mask[k][j] \notin {"lpar", "rpar"} /\ j \in 1..8
      <4>1. \A j \in 4..6 : j = 4 \/ j = 5 \/ j = 6
        OBVIOUS
      <4>2. Mask[k][4] = "COMMIT" /\ Mask[k][5] = "semi" /\ Mask[k][6] = "X"
        BY RuleMask DEF k
      <4> QED BY <4>1, <4>2
    <3>3. m[i] \notin {"lpar", "rpar"}
      <4>1. 4 \in 4..6 /\ 5 \in 4..6 /\ 6 \in 4..6
        OBVIOUS
      <4> QED BY <1>2, <3>1, <3>2, <4>1
    <3> QED BY <1>3, <2>1, <3>3, ConsumeOut
  <2>3. f[o+6] = f[o+3]
    <3> DEFINE p == o+3
               q == o+6
    <3>1. p \in Nat /\ q \in Nat /\ o <= p /\ p <= q /\ q <= o + Len(Mask[k]) /\ Len(Mask[k]) \in Nat
      BY <1>1
    <3>2. \A i \in p+1..q : Consume(f[p], m, i) = f[p]
      BY <2>2
    <3>3. Stands(m, o, k, f)
      BY <1>1
    <3> HIDE DEF p, q
    <3>4. f[q] = f[p]
      BY <3>1, <3>2, <3>3, Skips
    <3> QED BY <3>4 DEF p, q
  <2> QED BY <2>1, <2>3
<1>8. f[o+7] = Out(0, o + 1, E)
  <2>1. m[o+7] = "rpar" /\ f[o+7] = Consume(f[o+6], m, o + 7)
    <3>1. 7 \in 1..8 /\ o + 7 - 1 = o + 6 /\ Mask[k][7] = "rpar"
      BY RuleMask DEF k
    <3> QED BY <1>2, <3>1
  <2> QED BY <1>3, <1>7, <2>1, ConsumeOut
<1>9. f[o+8] = Out(0, o + 8 + 1, Append(E, o + 8))
  <2>1. m[o+8] = "semi" /\ f[o+8] = Consume(f[o+7], m, o + 8)
    <3>1. 8 \in 1..8 /\ o + 8 - 1 = o + 7 /\ Mask[k][8] = "semi"
      BY RuleMask DEF k
    <3> QED BY <1>2, <3>1
  <2> QED BY <1>3, <1>8, <2>1, <1>4, ConsumeOut
<1> QED BY <1>9

LEMMA ScanEmptyBody ==
  ASSUME NEW m \in Seq(Items), NEW o \in Nat, NEW f, Stands(m, o, "empty_body", f),
         NEW E, f[o] = Out(0, o + 1, E)
  PROVE  f[o + 8] = Out(0, o + 8 + 1, Append(E, o + 8))
<1> DEFINE k == "empty_body"
<1>1. k \in DOMAIN Mask /\ Len(Mask[k]) = 8 /\ Stands(m, o, k, f)
  BY EmptyBodyMask, MaskKinds
<1>2. \A j \in 1..8 : m[o+j] = Mask[k][j] /\ f[o+j] = Consume(f[o+j-1], m, o + j)
  BY <1>1 DEF Stands
<1>3. 0 \in Int /\ 1 \in Int /\ 0 + 1 = 1 /\ 1 - 1 = 0 /\ 1 # 0
  OBVIOUS
<1>4. ~OpensBody(SubSeq(m, o + 1, o + 8 - 1))
  <2> DEFINE p == o + 1
             q == o + 8 - 1
             c == SubSeq(m, p, q)
  <2>1. /\ p \in Nat /\ q \in Nat /\ o < p /\ p <= q + 1 /\ q <= o + Len(Mask[k])
        /\ q - p + 1 = 7 /\ p - o = 1
    BY <1>1
  <2> HIDE DEF p, q
  <2>0. IsChunk(c, k, o, p, q)
    BY <1>1, <2>1, ChunkIs
  <2> HIDE DEF c
  <2>2. c \in Seq(Items) /\ Len(c) = q - p + 1 /\ \A j \in 1..q - p + 1 : c[j] = Mask[k][p - o + j - 1]
    BY <2>0 DEF IsChunk
  <2>3. Len(c) = 7 /\ \A j \in 1..7 : c[j] = Mask[k][1 + j - 1]
    BY <2>1, <2>2
  <2>4. \A j \in 1..7 : 1 + j - 1 = j
    OBVIOUS
  <2>5. ~OpensBody(c)
    BY <2>2, <2>3, <2>4, EmptyBodyCloses
  <2> QED BY <2>5 DEF c, p, q
<1> HIDE DEF k
<1>5. f[o+2] = Out(0, o + 1, E)
  <2>1. f[o] = Out(0, o + 1, E)
    OBVIOUS
  <2>2. ASSUME NEW i \in o+1..o+2 PROVE Consume(f[o], m, i) = f[o]
    <3>1. i = o+1 \/ i = o+2
      OBVIOUS
    <3>2. \A j \in 1..2 : Mask[k][j] \notin {"lpar", "rpar", "semi"} /\ j \in 1..8
      <4>1. \A j \in 1..2 : j = 1 \/ j = 2
        OBVIOUS
      <4>2. Mask[k][1] = "CREATE" /\ Mask[k][2] = "FUNCTION"
        BY EmptyBodyMask DEF k
      <4> QED BY <4>1, <4>2
    <3>3. m[i] \notin {"lpar", "rpar", "semi"}
      <4>1. 1 \in 1..2 /\ 2 \in 1..2
        OBVIOUS
      <4> QED BY <1>2, <3>1, <3>2, <4>1
    <3> QED BY <1>3, <2>1, <3>3, ConsumeOut
  <2>3. f[o+2] = f[o]
    <3> DEFINE p == o
               q == o+2
    <3>1. p \in Nat /\ q \in Nat /\ o <= p /\ p <= q /\ q <= o + Len(Mask[k]) /\ Len(Mask[k]) \in Nat
      BY <1>1
    <3>2. \A i \in p+1..q : Consume(f[p], m, i) = f[p]
      BY <2>2
    <3>3. Stands(m, o, k, f)
      BY <1>1
    <3> HIDE DEF p, q
    <3>4. f[q] = f[p]
      BY <3>1, <3>2, <3>3, Skips
    <3> QED BY <3>4 DEF p, q
  <2> QED BY <2>1, <2>3
<1>6. f[o+3] = Out(1, o + 1, E)
  <2>1. m[o+3] = "lpar" /\ f[o+3] = Consume(f[o+2], m, o + 3)
    <3>1. 3 \in 1..8 /\ o + 3 - 1 = o + 2 /\ Mask[k][3] = "lpar"
      BY EmptyBodyMask DEF k
    <3> QED BY <1>2, <3>1
  <2> QED BY <1>3, <1>5, <2>1, ConsumeOut
<1>7. f[o+4] = Out(0, o + 1, E)
  <2>1. m[o+4] = "rpar" /\ f[o+4] = Consume(f[o+3], m, o + 4)
    <3>1. 4 \in 1..8 /\ o + 4 - 1 = o + 3 /\ Mask[k][4] = "rpar"
      BY EmptyBodyMask DEF k
    <3> QED BY <1>2, <3>1
  <2> QED BY <1>3, <1>6, <2>1, ConsumeOut
<1>8. f[o+7] = Out(0, o + 1, E)
  <2>1. f[o+4] = Out(0, o + 1, E)
    BY <1>7
  <2>2. ASSUME NEW i \in (o+4)+1..o+7 PROVE Consume(f[o+4], m, i) = f[o+4]
    <3>1. i = o+5 \/ i = o+6 \/ i = o+7
      OBVIOUS
    <3>2. \A j \in 5..7 : Mask[k][j] \notin {"lpar", "rpar", "semi"} /\ j \in 1..8
      <4>1. \A j \in 5..7 : j = 5 \/ j = 6 \/ j = 7
        OBVIOUS
      <4>2. Mask[k][5] = "BEGIN" /\ Mask[k][6] = "ATOMIC" /\ Mask[k][7] = "END"
        BY EmptyBodyMask DEF k
      <4> QED BY <4>1, <4>2
    <3>3. m[i] \notin {"lpar", "rpar", "semi"}
      <4>1. 5 \in 5..7 /\ 6 \in 5..7 /\ 7 \in 5..7
        OBVIOUS
      <4> QED BY <1>2, <3>1, <3>2, <4>1
    <3> QED BY <1>3, <2>1, <3>3, ConsumeOut
  <2>3. f[o+7] = f[o+4]
    <3> DEFINE p == o+4
               q == o+7
    <3>1. p \in Nat /\ q \in Nat /\ o <= p /\ p <= q /\ q <= o + Len(Mask[k]) /\ Len(Mask[k]) \in Nat
      BY <1>1
    <3>2. \A i \in p+1..q : Consume(f[p], m, i) = f[p]
      BY <2>2
    <3>3. Stands(m, o, k, f)
      BY <1>1
    <3> HIDE DEF p, q
    <3>4. f[q] = f[p]
      BY <3>1, <3>2, <3>3, Skips
    <3> QED BY <3>4 DEF p, q
  <2> QED BY <2>1, <2>3
<1>9. f[o+8] = Out(0, o + 8 + 1, Append(E, o + 8))
  <2>1. m[o+8] = "semi" /\ f[o+8] = Consume(f[o+7], m, o + 8)
    <3>1. 8 \in 1..8 /\ o + 8 - 1 = o + 7 /\ Mask[k][8] = "semi"
      BY EmptyBodyMask DEF k
    <3> QED BY <1>2, <3>1
  <2> QED BY <1>3, <1>8, <2>1, <1>4, ConsumeOut
<1> QED BY <1>9

LEMMA ScanFunction ==
  ASSUME NEW m \in Seq(Items), NEW o \in Nat, NEW f, Stands(m, o, "function", f),
         NEW E, f[o] = Out(0, o + 1, E)
  PROVE  f[o + 16] = Out(0, o + 16 + 1, Append(E, o + 16))
<1> DEFINE k == "function"
<1>1. k \in DOMAIN Mask /\ Len(Mask[k]) = 16 /\ Stands(m, o, k, f)
  BY FunctionMask, MaskKinds
<1>2. \A j \in 1..16 : m[o+j] = Mask[k][j] /\ f[o+j] = Consume(f[o+j-1], m, o + j)
  BY <1>1 DEF Stands
<1>3. 0 \in Int /\ 1 \in Int /\ 0 + 1 = 1 /\ 1 - 1 = 0 /\ 1 # 0
  OBVIOUS
<1>4. OpensBody(SubSeq(m, o + 1, o + 11 - 1))
  <2> DEFINE p == o + 1
             q == o + 11 - 1
             c == SubSeq(m, p, q)
  <2>1. /\ p \in Nat /\ q \in Nat /\ o < p /\ p <= q + 1 /\ q <= o + Len(Mask[k])
        /\ q - p + 1 = 10 /\ p - o = 1
    BY <1>1
  <2> HIDE DEF p, q
  <2>0. IsChunk(c, k, o, p, q)
    BY <1>1, <2>1, ChunkIs
  <2> HIDE DEF c
  <2>2. c \in Seq(Items) /\ Len(c) = q - p + 1 /\ \A j \in 1..q - p + 1 : c[j] = Mask[k][p - o + j - 1]
    BY <2>0 DEF IsChunk
  <2>3. Len(c) = 10 /\ \A j \in 1..10 : c[j] = Mask[k][1 + j - 1]
    BY <2>1, <2>2
  <2>4. \A j \in 1..10 : 1 + j - 1 = j
    OBVIOUS
  <2>5. OpensBody(c)
    BY <2>2, <2>3, <2>4, FunctionOpens
  <2> QED BY <2>5 DEF c, p, q
<1>5. ~Closes(SubSeq(m, o + 11 + 1, o + 14 - 1))
  <2> DEFINE p == o + 11 + 1
             q == o + 14 - 1
             c == SubSeq(m, p, q)
  <2>1. /\ p \in Nat /\ q \in Nat /\ o < p /\ p <= q + 1 /\ q <= o + Len(Mask[k])
        /\ q - p + 1 = 2 /\ p - o = 12
    BY <1>1
  <2> HIDE DEF p, q
  <2>0. IsChunk(c, k, o, p, q)
    BY <1>1, <2>1, ChunkIs
  <2> HIDE DEF c
  <2>2. c \in Seq(Items) /\ Len(c) = q - p + 1 /\ \A j \in 1..q - p + 1 : c[j] = Mask[k][p - o + j - 1]
    BY <2>0 DEF IsChunk
  <2>3. Len(c) = 2 /\ \A j \in 1..2 : c[j] = Mask[k][12 + j - 1]
    BY <2>1, <2>2
  <2>4. c[1] = "SELECT"
    <3>1. 12 + 1 - 1 = 12 /\ 1 \in 1..2
      OBVIOUS
    <3> QED BY <2>3, <3>1, FunctionMask
  <2>5. ~Closes(c)
    BY <2>2, <2>3, <2>4, BodyEnds DEF IsWord
  <2> QED BY <2>5 DEF c, p, q
<1>6. Closes(SubSeq(m, o + 14 + 1, o + 16 - 1))
  <2> DEFINE p == o + 14 + 1
             q == o + 16 - 1
             c == SubSeq(m, p, q)
  <2>1. /\ p \in Nat /\ q \in Nat /\ o < p /\ p <= q + 1 /\ q <= o + Len(Mask[k])
        /\ q - p + 1 = 1 /\ p - o = 15
    BY <1>1
  <2> HIDE DEF p, q
  <2>0. IsChunk(c, k, o, p, q)
    BY <1>1, <2>1, ChunkIs
  <2> HIDE DEF c
  <2>2. c \in Seq(Items) /\ Len(c) = q - p + 1 /\ \A j \in 1..q - p + 1 : c[j] = Mask[k][p - o + j - 1]
    BY <2>0 DEF IsChunk
  <2>3. Len(c) = 1 /\ \A j \in 1..1 : c[j] = Mask[k][15 + j - 1]
    BY <2>1, <2>2
  <2>4. c[1] = "END"
    <3>1. 15 + 1 - 1 = 15 /\ 1 \in 1..1
      OBVIOUS
    <3> QED BY <2>3, <3>1, FunctionMask
  <2>5. Closes(c)
    BY <2>2, <2>3, <2>4, BodyEnds DEF IsWord
  <2> QED BY <2>5 DEF c, p, q
<1> HIDE DEF k
<1>7. f[o+2] = Out(0, o + 1, E)
  <2>1. f[o] = Out(0, o + 1, E)
    OBVIOUS
  <2>2. ASSUME NEW i \in o+1..o+2 PROVE Consume(f[o], m, i) = f[o]
    <3>1. i = o+1 \/ i = o+2
      OBVIOUS
    <3>2. \A j \in 1..2 : Mask[k][j] \notin {"lpar", "rpar", "semi"} /\ j \in 1..16
      <4>1. \A j \in 1..2 : j = 1 \/ j = 2
        OBVIOUS
      <4>2. Mask[k][1] = "CREATE" /\ Mask[k][2] = "FUNCTION"
        BY FunctionMask DEF k
      <4> QED BY <4>1, <4>2
    <3>3. m[i] \notin {"lpar", "rpar", "semi"}
      <4>1. 1 \in 1..2 /\ 2 \in 1..2
        OBVIOUS
      <4> QED BY <1>2, <3>1, <3>2, <4>1
    <3> QED BY <1>3, <2>1, <3>3, ConsumeOut
  <2>3. f[o+2] = f[o]
    <3> DEFINE p == o
               q == o+2
    <3>1. p \in Nat /\ q \in Nat /\ o <= p /\ p <= q /\ q <= o + Len(Mask[k]) /\ Len(Mask[k]) \in Nat
      BY <1>1
    <3>2. \A i \in p+1..q : Consume(f[p], m, i) = f[p]
      BY <2>2
    <3>3. Stands(m, o, k, f)
      BY <1>1
    <3> HIDE DEF p, q
    <3>4. f[q] = f[p]
      BY <3>1, <3>2, <3>3, Skips
    <3> QED BY <3>4 DEF p, q
  <2> QED BY <2>1, <2>3
<1>8. f[o+3] = Out(1, o + 1, E)
  <2>1. m[o+3] = "lpar" /\ f[o+3] = Consume(f[o+2], m, o + 3)
    <3>1. 3 \in 1..16 /\ o + 3 - 1 = o + 2 /\ Mask[k][3] = "lpar"
      BY FunctionMask DEF k
    <3> QED BY <1>2, <3>1
  <2> QED BY <1>3, <1>7, <2>1, ConsumeOut
<1>9. f[o+4] = Out(0, o + 1, E)
  <2>1. m[o+4] = "rpar" /\ f[o+4] = Consume(f[o+3], m, o + 4)
    <3>1. 4 \in 1..16 /\ o + 4 - 1 = o + 3 /\ Mask[k][4] = "rpar"
      BY FunctionMask DEF k
    <3> QED BY <1>2, <3>1
  <2> QED BY <1>3, <1>8, <2>1, ConsumeOut
<1>10. f[o+10] = Out(0, o + 1, E)
  <2>1. f[o+4] = Out(0, o + 1, E)
    BY <1>9
  <2>2. ASSUME NEW i \in (o+4)+1..o+10 PROVE Consume(f[o+4], m, i) = f[o+4]
    <3>1. i = o+5 \/ i = o+6 \/ i = o+7 \/ i = o+8 \/ i = o+9 \/ i = o+10
      OBVIOUS
    <3>2. \A j \in 5..10 : Mask[k][j] \notin {"lpar", "rpar", "semi"} /\ j \in 1..16
      <4>1. \A j \in 5..10 : j = 5 \/ j = 6 \/ j = 7 \/ j = 8 \/ j = 9 \/ j = 10
        OBVIOUS
      <4>2. Mask[k][5] = "BEGIN" /\ Mask[k][6] = "ATOMIC" /\ Mask[k][7] = "SELECT" /\ Mask[k][8] = "CASE" /\ Mask[k][9] = "X" /\ Mask[k][10] = "END"
        BY FunctionMask DEF k
      <4>3. \A x \in {"BEGIN", "ATOMIC", "SELECT", "CASE", "X", "END"} : x \notin {"lpar", "rpar", "semi"}
        OBVIOUS
      <4>4. \A j \in 5..10 : j \in 1..16
        OBVIOUS
      <4> HIDE DEF k
      <4>5. \A j \in 5..10 : Mask[k][j] \in {"BEGIN", "ATOMIC", "SELECT", "CASE", "X", "END"}
        BY <4>1, <4>2
      <4> QED BY <4>3, <4>4, <4>5
    <3>3. m[i] \notin {"lpar", "rpar", "semi"}
      <4>1. PICK j \in 5..10 : i = o + j
        BY <3>1
      <4>2. m[o+j] = Mask[k][j]
        BY <1>2, <3>2
      <4> QED BY <3>2, <4>1, <4>2
    <3> QED BY <1>3, <2>1, <3>3, ConsumeOut
  <2>3. f[o+10] = f[o+4]
    <3> DEFINE p == o+4
               q == o+10
    <3>1. p \in Nat /\ q \in Nat /\ o <= p /\ p <= q /\ q <= o + Len(Mask[k]) /\ Len(Mask[k]) \in Nat
      BY <1>1
    <3>2. \A i \in p+1..q : Consume(f[p], m, i) = f[p]
      BY <2>2
    <3>3. Stands(m, o, k, f)
      BY <1>1
    <3> HIDE DEF p, q
    <3>4. f[q] = f[p]
      BY <3>1, <3>2, <3>3, Skips
    <3> QED BY <3>4 DEF p, q
  <2> QED BY <2>1, <2>3
<1>11. f[o+11] = In(0, o + 11 + 1, E)
  <2>1. m[o+11] = "semi" /\ f[o+11] = Consume(f[o+10], m, o + 11)
    <3>1. 11 \in 1..16 /\ o + 11 - 1 = o + 10 /\ Mask[k][11] = "semi"
      BY FunctionMask DEF k
    <3> QED BY <1>2, <3>1
  <2> QED BY <1>3, <1>10, <2>1, <1>4, ConsumeOut
<1>12. f[o+13] = In(0, o + 11 + 1, E)
  <2>1. f[o+11] = In(0, o + 11 + 1, E)
    BY <1>11
  <2>2. ASSUME NEW i \in (o+11)+1..o+13 PROVE Consume(f[o+11], m, i) = f[o+11]
    <3>1. i = o+12 \/ i = o+13
      OBVIOUS
    <3>2. \A j \in 12..13 : Mask[k][j] \notin {"lpar", "rpar", "semi"} /\ j \in 1..16
      <4>1. \A j \in 12..13 : j = 12 \/ j = 13
        OBVIOUS
      <4>2. Mask[k][12] = "SELECT" /\ Mask[k][13] = "X"
        BY FunctionMask DEF k
      <4> QED BY <4>1, <4>2
    <3>3. m[i] \notin {"lpar", "rpar", "semi"}
      <4>1. 12 \in 12..13 /\ 13 \in 12..13
        OBVIOUS
      <4> QED BY <1>2, <3>1, <3>2, <4>1
    <3> QED BY <1>3, <2>1, <3>3, ConsumeIn
  <2>3. f[o+13] = f[o+11]
    <3> DEFINE p == o+11
               q == o+13
    <3>1. p \in Nat /\ q \in Nat /\ o <= p /\ p <= q /\ q <= o + Len(Mask[k]) /\ Len(Mask[k]) \in Nat
      BY <1>1
    <3>2. \A i \in p+1..q : Consume(f[p], m, i) = f[p]
      BY <2>2
    <3>3. Stands(m, o, k, f)
      BY <1>1
    <3> HIDE DEF p, q
    <3>4. f[q] = f[p]
      BY <3>1, <3>2, <3>3, Skips
    <3> QED BY <3>4 DEF p, q
  <2> QED BY <2>1, <2>3
<1>13. f[o+14] = In(0, o + 14 + 1, E)
  <2>1. m[o+14] = "semi" /\ f[o+14] = Consume(f[o+13], m, o + 14)
    <3>1. 14 \in 1..16 /\ o + 14 - 1 = o + 13 /\ Mask[k][14] = "semi"
      BY FunctionMask DEF k
    <3> QED BY <1>2, <3>1
  <2> QED BY <1>3, <1>12, <2>1, <1>5, ConsumeIn
<1>14. f[o+15] = In(0, o + 14 + 1, E)
  <2>1. f[o+14] = In(0, o + 14 + 1, E)
    BY <1>13
  <2>2. ASSUME NEW i \in (o+14)+1..o+15 PROVE Consume(f[o+14], m, i) = f[o+14]
    <3>1. i = o+15
      OBVIOUS
    <3>2. \A j \in 15..15 : Mask[k][j] \notin {"lpar", "rpar", "semi"} /\ j \in 1..16
      <4>1. \A j \in 15..15 : j = 15
        OBVIOUS
      <4>2. Mask[k][15] = "END"
        BY FunctionMask DEF k
      <4> QED BY <4>1, <4>2
    <3>3. m[i] \notin {"lpar", "rpar", "semi"}
      <4>1. 15 \in 15..15
        OBVIOUS
      <4> QED BY <1>2, <3>1, <3>2, <4>1
    <3> QED BY <1>3, <2>1, <3>3, ConsumeIn
  <2>3. f[o+15] = f[o+14]
    <3> DEFINE p == o+14
               q == o+15
    <3>1. p \in Nat /\ q \in Nat /\ o <= p /\ p <= q /\ q <= o + Len(Mask[k]) /\ Len(Mask[k]) \in Nat
      BY <1>1
    <3>2. \A i \in p+1..q : Consume(f[p], m, i) = f[p]
      BY <2>2
    <3>3. Stands(m, o, k, f)
      BY <1>1
    <3> HIDE DEF p, q
    <3>4. f[q] = f[p]
      BY <3>1, <3>2, <3>3, Skips
    <3> QED BY <3>4 DEF p, q
  <2> QED BY <2>1, <2>3
<1>15. f[o+16] = Out(0, o + 16 + 1, Append(E, o + 16))
  <2>1. m[o+16] = "semi" /\ f[o+16] = Consume(f[o+15], m, o + 16)
    <3>1. 16 \in 1..16 /\ o + 16 - 1 = o + 15 /\ Mask[k][16] = "semi"
      BY FunctionMask DEF k
    <3> QED BY <1>2, <3>1
  <2> QED BY <1>3, <1>14, <2>1, <1>6, ConsumeIn
<1> QED BY <1>15

(* Every statement but end_column is cut at its last item.                 *)
LEMMA ScanKind ==
  \A m \in Seq(Items) : \A o \in Nat : \A k \in DOMAIN Mask \ {"end_column", "comment"} : \A f, E :
    Stands(m, o, k, f) /\ f[o] = Out(0, o + 1, E) =>
      f[o + Len(Mask[k])] = Out(0, o + Len(Mask[k]) + 1, Append(E, o + Len(Mask[k])))
<1> SUFFICES ASSUME NEW m \in Seq(Items), NEW o \in Nat,
                    NEW k \in DOMAIN Mask \ {"end_column", "comment"}, NEW f, NEW E,
                    Stands(m, o, k, f), f[o] = Out(0, o + 1, E)
             PROVE  f[o + Len(Mask[k])] = Out(0, o + Len(Mask[k]) + 1, Append(E, o + Len(Mask[k])))
  OBVIOUS
<1>1. CASE k \in Plain
  BY <1>1, ScanPlain
<1>2. CASE k = "rule"
  <2>1. Stands(m, o, "rule", f)
    BY <1>2
  <2>2. f[o + 8] = Out(0, o + 8 + 1, Append(E, o + 8))
    BY <2>1, ScanRule
  <2>3. Len(Mask[k]) = 8
    BY <1>2, RuleMask
  <2> QED BY <2>2, <2>3
<1>3. CASE k = "empty_body"
  <2>1. Stands(m, o, "empty_body", f)
    BY <1>3
  <2>2. f[o + 8] = Out(0, o + 8 + 1, Append(E, o + 8))
    BY <2>1, ScanEmptyBody
  <2>3. Len(Mask[k]) = 8
    BY <1>3, EmptyBodyMask
  <2> QED BY <2>2, <2>3
<1>4. CASE k = "function"
  <2>1. Stands(m, o, "function", f)
    BY <1>4
  <2>2. f[o + 16] = Out(0, o + 16 + 1, Append(E, o + 16))
    BY <2>1, ScanFunction
  <2>3. Len(Mask[k]) = 16
    BY <1>4, FunctionMask
  <2> QED BY <2>2, <2>3
<1> QED BY <1>1, <1>2, <1>3, <1>4, MaskKinds

(* Scripts of statements the splitter is meant for.                        *)
Script == Seq(DOMAIN Mask \ {"end_column"})

LEMMA ScriptTypes ==
  ASSUME NEW s \in Script
  PROVE  /\ s \in Seq(DOMAIN Mask) /\ Len(s) \in Nat /\ DOMAIN s = 1..Len(s)
         /\ \A i \in 1..Len(s) : s[i] \in DOMAIN Mask /\ s[i] # "end_column"
BY DEF Script

(* The loop over what follows h: each statement with a text adds v of it.  *)
Collects(a, s, h, v) ==
  /\ a[h] = <<>>
  /\ \A i \in h+1..Len(s) : a[i] = IF s[i] = "comment" THEN a[i-1] ELSE Append(a[i-1], v[i])

LEMMA Collecting ==
  ASSUME NEW s \in Script, NEW h \in 0..Len(s), NEW V, NEW v \in [1..Len(s) -> V]
  PROVE  \E a \in [h..Len(s) -> Seq(V)] : Collects(a, s, h, v)
<1> DEFINE n == Len(s)
           T == Seq(V)
           g == [x \in (h+1..n) \X T |-> IF s[x[1]] = "comment" THEN x[2] ELSE Append(x[2], v[x[1]])]
<1>1. n \in Nat /\ h \in Nat /\ h <= n
  BY ScriptTypes
<1>2. <<>> \in T /\ g \in [(h+1..n) \X T -> T]
  <2>1. \A i \in h+1..n : v[i] \in V
    BY <1>1
  <2>2. \A x \in (h+1..n) \X T : x[1] \in h+1..n /\ x[2] \in Seq(V)
    OBVIOUS
  <2>3. \A x \in (h+1..n) \X T : Append(x[2], v[x[1]]) \in T
    BY <2>1, <2>2, AppendProperties
  <2> QED BY <2>2, <2>3
<1>3. PICK k : Loop(k, T, <<>>, h, n, g)
  <2> HIDE DEF n, g, T
  <2> QED BY <1>1, <1>2, LoopRuns
<1>4. k \in [h..n -> T] /\ k[h] = <<>>
  BY <1>3 DEF Loop
<1>5. \A i \in h+1..n : i - 1 \in h..n
  BY <1>1
<1> HIDE DEF n, T
<1>6. \A i \in h+1..n : k[i] = IF s[i] = "comment" THEN k[i-1] ELSE Append(k[i-1], v[i])
  <2>1. TAKE i \in h+1..n
  <2>2. k[i] = g[<<i, k[i-1]>>] /\ <<i, k[i-1]>> \in (h+1..n) \X T
    BY <1>3, <1>4, <1>5 DEF Loop
  <2> QED BY <2>2
<1> QED BY <1>4, <1>6 DEF Collects, n, T

LEMMA TextStep ==
  \A s \in Seq(DOMAIN Mask) : \A t : Reads(t, s) =>
    \A i \in 1..Len(s) : Len(t[i]) = Len(t[i-1]) + Len(Mask[s[i]])
<1> SUFFICES ASSUME NEW s \in Seq(DOMAIN Mask), NEW t, Reads(t, s)
             PROVE  \A i \in 1..Len(s) : Len(t[i]) = Len(t[i-1]) + Len(Mask[s[i]])
  OBVIOUS
<1>1. \A i \in 1..Len(s) : Grows(t, s, i)
  BY TextGrows
<1> QED BY <1>1 DEF Grows

(* Where each statement stands in the script's text.                       *)
LEMMA StandsInText ==
  ASSUME NEW s \in Script, NEW t, Reads(t, s), NEW h \in 0..Len(s),
         NEW f, Scans(f, t[Len(s)], Len(t[h])), NEW i \in h+1..Len(s)
  PROVE  Stands(t[Len(s)], Len(t[i-1]), s[i], f) /\ Len(t[i]) = Len(t[i-1]) + Len(Mask[s[i]])
<1> DEFINE n == Len(s)
           m == t[n]
           o == Len(t[i-1])
           l == Len(Mask[s[i]])
<1>1. n \in Nat /\ s \in Seq(DOMAIN Mask) /\ i \in 1..n /\ i - 1 \in 0..n /\ h <= i - 1 /\ i <= n
      /\ n \in 0..n /\ i \in 0..n /\ h \in 0..n
  BY ScriptTypes
<1>2. s[i] \in DOMAIN Mask
  BY <1>1, ScriptTypes
<1>3. l \in Nat
  BY <1>2, MaskTypes
<1>4. o \in Nat /\ Len(t[h]) \in Nat /\ Len(m) \in Nat
  BY <1>1, TextGrows
<1>5. Len(t[i]) = o + l
  <2>1. \A j \in 1..Len(s) : Len(t[j]) = Len(t[j-1]) + Len(Mask[s[j]])
    BY <1>1, TextStep
  <2> QED BY <1>1, <2>1
<1>6. Len(t[i]) <= Len(m) /\ Len(t[h]) <= o
  BY <1>1, TextFacts
<1>7. \A j \in 1..l : m[o+j] = Mask[s[i]][j]
  BY <1>1, TextFacts
<1>8. \A x \in Len(t[h])+1..Len(m) : f[x] = Consume(f[x-1], m, x)
  BY DEF Scans
<1> DEFINE c == Len(t[h])
           lm == Len(m)
<1>9. \A j \in 1..l : o + j \in c+1..lm
  <2>1. c \in Nat /\ o \in Nat /\ l \in Nat /\ lm \in Nat /\ c <= o /\ o + l <= lm
    BY <1>3, <1>4, <1>5, <1>6
  <2> HIDE DEF c, o, l, lm
  <2> QED BY <2>1
<1>10. o \in Nat /\ o + l <= Len(m)
  BY <1>4, <1>5, <1>6
<1>11. \A j \in 1..l : f[o+j] = Consume(f[o+j-1], m, o + j)
  <2> HIDE DEF c, lm, o, l, m
  <2>1. \A x \in c+1..lm : f[x] = Consume(f[x-1], m, x)
    BY <1>8 DEF c, lm
  <2>2. TAKE j \in 1..l
  <2>3. o + j \in c+1..lm
    BY <1>9 DEF c, lm
  <2> DEFINE x == o + j
  <2>4. x \in c+1..lm
    BY <2>3
  <2> HIDE DEF x
  <2>5. f[x] = Consume(f[x-1], m, x)
    BY <2>1, <2>4
  <2>6. x = o + j /\ x - 1 = o + j - 1
    BY <1>3, <1>10 DEF x
  <2> QED BY <2>5, <2>6
<1>12. Stands(m, o, s[i], f)
  BY <1>7, <1>10, <1>11 DEF Stands
<1> HIDE DEF m, o, l
<1> QED BY <1>5, <1>12 DEF m, o, l, n

(* The semicolons at which the text is cut are the statements' last items. *)
LEMMA EndsOfText ==
  ASSUME NEW s \in Script, NEW t, Reads(t, s), NEW h \in 0..Len(s),
         NEW a, Collects(a, s, h, [i \in 1..Len(s) |-> Len(t[i])])
  PROVE  StatementEnds(t[Len(s)], Len(t[h]) + 1) = a[Len(s)]
<1> DEFINE n == Len(s)
           m == t[n]
           v == [i \in 1..n |-> Len(t[i])]
           o(i) == Len(t[i])
<1>1. n \in Nat /\ s \in Seq(DOMAIN Mask) /\ n \in 0..n /\ h \in h..n /\ n \in h..n /\ h \in 0..n /\ h <= n
  BY ScriptTypes
<1>2. m \in Seq(Items) /\ o(h) \in 0..Len(m)
  <2>1. m \in Seq(Items) /\ o(h) \in Nat /\ Len(m) \in Nat
    BY <1>1, TextGrows
  <2>2. o(h) <= Len(m)
    BY <1>1, TextFacts
  <2> QED BY <2>1, <2>2
<1>3. PICK f : Scans(f, m, o(h)) /\ StatementEnds(m, o(h) + 1) = f[Len(m)].ends
  BY <1>2, StatementEndsScans
<1>4. \A i \in h..n : f[o(i)] = Out(0, o(i) + 1, a[i])
  <2> DEFINE Bad == {i \in h..n : f[o(i)] # Out(0, o(i) + 1, a[i])}
  <2>1. SUFFICES ASSUME Bad # {} PROVE FALSE
    OBVIOUS
  <2>2. PICK i \in Bad : \A j \in Bad : i <= j
    <3>1. Bad \in SUBSET Nat
      BY <1>1
    <3> QED BY <2>1, <3>1, Least
  <2>3. i # h
    BY <1>3, <2>2 DEF Collects, Scans, Clean, Out
  <2>4. i \in h+1..n /\ i - 1 \in h..n /\ i - 1 \in 0..n /\ ~(i <= i - 1) /\ i \in 1..n
    BY <1>1, <2>2, <2>3
  <2>5. f[o(i-1)] = Out(0, o(i-1) + 1, a[i-1])
    BY <2>2, <2>4
  <2>6. Stands(m, o(i-1), s[i], f) /\ o(i) = o(i-1) + Len(Mask[s[i]])
    BY <1>3, <2>4, StandsInText
  <2>7. o(i-1) \in Nat /\ s[i] \in DOMAIN Mask /\ s[i] # "end_column"
    BY <1>1, <2>4, TextGrows, ScriptTypes
  <2>8. a[i] = IF s[i] = "comment" THEN a[i-1] ELSE Append(a[i-1], o(i))
    <3>1. v[i] = o(i)
      BY <2>4
    <3> QED BY <2>4, <3>1 DEF Collects
  <2>9. f[o(i)] = Out(0, o(i) + 1, a[i])
    <3>1. CASE s[i] = "comment"
      <4>1. o(i) = o(i-1)
        <5>1. Len(Mask[s[i]]) = 0
          BY <2>7, <3>1, MaskTypes
        <5> DEFINE p == o(i-1)
        <5> HIDE DEF p
        <5>2. p \in Nat /\ o(i) = p + 0
          BY <2>6, <2>7, <5>1 DEF p
        <5>3. p + 0 = p
          BY <5>2
        <5> QED BY <5>2, <5>3 DEF p
      <4> QED BY <2>5, <2>8, <3>1, <4>1
    <3>2. CASE s[i] # "comment"
      <4> DEFINE p == o(i-1)
                 k == s[i]
      <4>1. p \in Nat /\ k \in DOMAIN Mask \ {"end_column", "comment"} /\ Stands(m, p, k, f)
            /\ f[p] = Out(0, p + 1, a[i-1])
        BY <2>5, <2>6, <2>7, <3>2
      <4> HIDE DEF p, k
      <4>2. f[p + Len(Mask[k])] = Out(0, p + Len(Mask[k]) + 1, Append(a[i-1], p + Len(Mask[k])))
        BY <1>2, <4>1, ScanKind
      <4> QED BY <2>6, <2>8, <3>2, <4>2 DEF p, k
    <3> QED BY <3>1, <3>2
  <2> QED BY <2>2, <2>9
<1>5. f[Len(m)] = Out(0, Len(m) + 1, a[n])
  BY <1>1, <1>4
<1> QED BY <1>3, <1>5 DEF Out

(* What holds at lo and is passed on holds up to hi.                       *)
LEMMA Climb ==
  \A lo, hi \in Nat : \A G :
    lo <= hi /\ lo \in G /\ (\A i \in lo+1..hi : i - 1 \in G => i \in G) => lo..hi \subseteq G
<1> SUFFICES ASSUME NEW lo \in Nat, NEW hi \in Nat, NEW G, lo <= hi, lo \in G,
                    \A i \in lo+1..hi : i - 1 \in G => i \in G
             PROVE  lo..hi \subseteq G
  OBVIOUS
<1> DEFINE B == (lo..hi) \ G
<1>1. SUFFICES ASSUME B # {} PROVE FALSE
  OBVIOUS
<1>2. B \in SUBSET Nat
  OBVIOUS
<1>3. PICK m \in B : \A j \in B : m <= j
  BY <1>1, <1>2, Least
<1>4. m # lo /\ m \in lo+1..hi /\ m - 1 \in lo..hi /\ ~(m <= m - 1)
  BY <1>3
<1> QED BY <1>3, <1>4

Collected(a, s, h, v, i) ==
  /\ Len(a[i-1]) \in Nat /\ i - 1 \in h..Len(s) /\ i \in 1..Len(s)
  /\ s[i] = "comment" => a[i] = a[i-1]
  /\ s[i] # "comment" => /\ Len(a[i]) = Len(a[i-1]) + 1 /\ a[i][Len(a[i-1]) + 1] = v[i]
                         /\ \A k \in 1..Len(a[i-1]) : a[i][k] = a[i-1][k]

LEMMA CollectsStep ==
  ASSUME NEW s \in Script, NEW h \in 0..Len(s), NEW V, NEW v \in [1..Len(s) -> V],
         NEW a \in [h..Len(s) -> Seq(V)], Collects(a, s, h, v)
  PROVE  \A i \in h+1..Len(s) : Collected(a, s, h, v, i)
<1> TAKE i \in h+1..Len(s)
<1>1. i - 1 \in h..Len(s) /\ i \in 1..Len(s)
  BY ScriptTypes
<1> DEFINE w == a[i-1]
<1>2. w \in Seq(V) /\ v[i] \in V
  BY <1>1
<1>3. a[i] = IF s[i] = "comment" THEN w ELSE Append(w, v[i])
  BY DEF Collects
<1> HIDE DEF w
<1>4. Len(w) \in Nat
  BY <1>2
<1>5. /\ Len(Append(w, v[i])) = Len(w) + 1 /\ Append(w, v[i])[Len(w) + 1] = v[i]
      /\ \A k \in 1..Len(w) : Append(w, v[i])[k] = w[k]
  BY <1>2, AppendProperties
<1> QED BY <1>1, <1>3, <1>4, <1>5 DEF w, Collected

(* Two loops over the same statements collect alike.                       *)
Alike(a, p, s, h, v) ==
  \A i \in h..Len(s) : Len(a[i]) = Len(p[i]) /\ \A k \in 1..Len(p[i]) : a[i][k] = v[p[i][k]]

LEMMA CollectsAlike ==
  ASSUME NEW s \in Script, NEW h \in 0..Len(s), NEW V, NEW v \in [1..Len(s) -> V],
         NEW a \in [h..Len(s) -> Seq(V)], Collects(a, s, h, v),
         NEW p \in [h..Len(s) -> Seq(1..Len(s))], Collects(p, s, h, [i \in 1..Len(s) |-> i])
  PROVE  Alike(a, p, s, h, v)
<1> DEFINE n == Len(s)
           P(i) == Len(a[i]) = Len(p[i]) /\ \A k \in 1..Len(p[i]) : a[i][k] = v[p[i][k]]
           G == {i \in h..n : P(i)}
           id == [i \in 1..n |-> i]
<1>1. n \in Nat /\ h \in Nat /\ h <= n
  BY ScriptTypes
<1>2. h \in G
  <2>1. Len(a[h]) = 0 /\ Len(p[h]) = 0 /\ h \in h..n
    BY <1>1 DEF Collects
  <2> QED BY <2>1
<1>3. ASSUME NEW i \in h+1..n, i - 1 \in G PROVE i \in G
  <2> DEFINE L == Len(p[i-1])
  <2>1. id \in [1..n -> 1..n]
    OBVIOUS
  <2>2. /\ L \in Nat /\ i \in 1..n
        /\ s[i] = "comment" => p[i] = p[i-1]
        /\ s[i] # "comment" => /\ Len(p[i]) = L + 1 /\ p[i][L + 1] = id[i]
                               /\ \A k \in 1..L : p[i][k] = p[i-1][k]
    <3> DEFINE Ran == 1..n
    <3> HIDE DEF id, Ran
    <3>1. id \in [1..n -> Ran] /\ p \in [h..n -> Seq(Ran)] /\ Collects(p, s, h, id)
      BY <2>1 DEF id, Ran
    <3>2. \A j \in h+1..Len(s) : Collected(p, s, h, id, j)
      BY <3>1, CollectsStep
    <3>3. Collected(p, s, h, id, i)
      BY <3>2
    <3> QED BY <3>3 DEF Collected
  <2>3. /\ s[i] = "comment" => a[i] = a[i-1]
        /\ s[i] # "comment" => /\ Len(a[i]) = Len(a[i-1]) + 1 /\ a[i][Len(a[i-1]) + 1] = v[i]
                               /\ \A k \in 1..Len(a[i-1]) : a[i][k] = a[i-1][k]
    <3>1. Collected(a, s, h, v, i)
      BY CollectsStep
    <3> QED BY <3>1 DEF Collected
  <2>4. P(i - 1) /\ id[i] = i /\ i \in h..n
    BY <1>1, <1>3, <2>2
  <2>5. CASE s[i] = "comment"
    BY <2>2, <2>3, <2>4, <2>5
  <2>6. CASE s[i] # "comment"
    <3>1. /\ Len(a[i]) = L + 1 /\ a[i][L + 1] = v[i] /\ \A k \in 1..L : a[i][k] = a[i-1][k]
          /\ Len(p[i]) = L + 1 /\ p[i][L + 1] = i /\ \A k \in 1..L : p[i][k] = p[i-1][k]
      BY <2>2, <2>3, <2>4, <2>6
    <3>2. \A k \in 1..L + 1 : k = L + 1 \/ k \in 1..L
      <4>1. L \in Nat
        BY <2>2
      <4> HIDE DEF L
      <4> QED BY <4>1
    <3>3. \A k \in 1..L : a[i-1][k] = v[p[i-1][k]]
      BY <2>4
    <3> HIDE DEF L
    <3> QED BY <2>4, <3>1, <3>2, <3>3
  <2> QED BY <2>5, <2>6
<1> HIDE DEF G
<1>4. h..n \subseteq G
  BY <1>1, <1>2, <1>3, Climb
<1> QED BY <1>4 DEF G, Alike

(* The list of the statements with a text: in order, all of them, and      *)
(* nothing in between.                                                     *)
Lists(q, s, h, i, t) ==
  /\ \A k \in 1..Len(q) : q[k] \in h+1..i /\ s[q[k]] # "comment"
  /\ \A k, l \in 1..Len(q) : k < l => q[k] < q[l]
  /\ \A x \in h+1..i : s[x] # "comment" => \E k \in 1..Len(q) : q[k] = x
  /\ \A k \in 1..Len(q) : Len(t[q[k]-1]) = Len(t[IF k = 1 THEN h ELSE q[k-1]])
  /\ Len(t[i]) = Len(t[IF Len(q) = 0 THEN h ELSE q[Len(q)]])

LEMMA Listing ==
  ASSUME NEW s \in Script, NEW t, Reads(t, s), NEW h \in 0..Len(s),
         NEW p \in [h..Len(s) -> Seq(1..Len(s))], Collects(p, s, h, [i \in 1..Len(s) |-> i])
  PROVE  \A i \in h..Len(s) : Lists(p[i], s, h, i, t)
<1> DEFINE n == Len(s)
           G == {i \in h..n : Lists(p[i], s, h, i, t)}
           id == [i \in 1..n |-> i]
<1>1. n \in Nat /\ h \in Nat /\ h <= n
  BY ScriptTypes
<1>2. h \in G
  <2>1. Len(p[h]) = 0 /\ h \in h..n /\ (\A x \in h+1..h : FALSE) /\ (\A k \in 1..0 : FALSE)
    BY <1>1 DEF Collects
  <2> QED BY <2>1 DEF Lists
<1>3. ASSUME NEW i \in h+1..n, i - 1 \in G PROVE i \in G
  <2> DEFINE q == p[i-1]
             r == p[i]
             L == Len(q)
  <2>1. id \in [1..n -> 1..n]
    OBVIOUS
  <2>2. /\ L \in Nat /\ i \in 1..n
        /\ s[i] = "comment" => r = q
        /\ s[i] # "comment" => /\ Len(r) = L + 1 /\ r[L + 1] = id[i]
                               /\ \A k \in 1..L : r[k] = q[k]
    <3> DEFINE V == 1..n
    <3> HIDE DEF id, V
    <3>1. id \in [1..n -> V] /\ p \in [h..n -> Seq(V)] /\ Collects(p, s, h, id)
      BY <2>1 DEF id, V
    <3>2. \A j \in h+1..Len(s) : Collected(p, s, h, id, j)
      BY <3>1, CollectsStep
    <3>3. Collected(p, s, h, id, i)
      BY <3>2
    <3> QED BY <3>3 DEF Collected
  <2>3. Lists(q, s, h, i - 1, t) /\ id[i] = i /\ i \in h..n
    BY <1>1, <1>3, <2>2
  <2>4. \A x \in h+1..i : x = i \/ x \in h+1..i-1
    BY <1>1
  <2>5. \A x \in h+1..i-1 : x \in h+1..i /\ x < i
    BY <1>1
  <2> HIDE DEF q, r, id
  <2>6. CASE s[i] = "comment"
    <3>1. Len(t[i]) = Len(t[i-1])
      <4>1. s \in Seq(DOMAIN Mask) /\ Len(Mask[s[i]]) = 0 /\ i - 1 \in 0..Len(s)
        BY <2>2, <2>6, ScriptTypes, MaskTypes
      <4>2. Len(t[i-1]) \in Nat
        BY <4>1, TextGrows
      <4>3. Len(t[i]) = Len(t[i-1]) + Len(Mask[s[i]])
        BY <2>2, <4>1, TextStep
      <4> QED BY <4>1, <4>2, <4>3
    <3>2. r = q
      BY <2>2, <2>6
    <3> QED BY <2>3, <2>4, <2>5, <2>6, <3>1, <3>2 DEF Lists, r
  <2>7. CASE s[i] # "comment"
    <3> HIDE DEF L
    <3>1. Len(r) = L + 1 /\ r[L + 1] = i /\ \A k \in 1..L : r[k] = q[k]
      BY <2>2, <2>3, <2>7
    <3>2. \A k \in 1..L + 1 : k = L + 1 \/ k \in 1..L
      BY <2>2
    <3>3. /\ \A k \in 1..L : q[k] \in h+1..i-1 /\ s[q[k]] # "comment"
          /\ \A k, l \in 1..L : k < l => q[k] < q[l]
          /\ \A x \in h+1..i-1 : s[x] # "comment" => \E k \in 1..L : q[k] = x
          /\ \A k \in 1..L : Len(t[q[k]-1]) = Len(t[IF k = 1 THEN h ELSE q[k-1]])
          /\ Len(t[i-1]) = Len(t[IF L = 0 THEN h ELSE q[L]])
      BY <2>3 DEF Lists, L
    <3>4. \A k \in 1..L + 1 : r[k] \in h+1..i /\ s[r[k]] # "comment"
      <4>1. TAKE k \in 1..L + 1
      <4>2. CASE k = L + 1
        <5>1. i \in h+1..i
          BY <1>1
        <5> QED BY <2>7, <3>1, <4>2, <5>1
      <4>3. CASE k \in 1..L
        BY <2>5, <3>1, <3>3, <4>3
      <4> QED BY <3>2, <4>2, <4>3
    <3>5. \A k, l \in 1..L + 1 : k < l => r[k] < r[l]
      <4>1. TAKE k, l \in 1..L + 1
      <4>2. CASE l = L + 1 /\ k < l
        <5>1. k \in 1..L /\ r[k] = q[k] /\ r[l] = i
          BY <2>2, <3>1, <4>2
        <5> QED BY <2>5, <3>3, <5>1
      <4>3. CASE l # L + 1 /\ k < l
        <5>1. k \in 1..L /\ l \in 1..L
          BY <2>2, <4>3
        <5> QED BY <3>1, <3>3, <4>3, <5>1
      <4> QED BY <4>2, <4>3
    <3>6. \A x \in h+1..i : s[x] # "comment" => \E k \in 1..L + 1 : r[k] = x
      <4>1. L + 1 \in 1..L + 1 /\ \A k \in 1..L : k \in 1..L + 1
        BY <2>2
      <4> QED BY <2>4, <3>1, <3>3, <4>1
    <3>7. \A k \in 1..L + 1 : Len(t[r[k]-1]) = Len(t[IF k = 1 THEN h ELSE r[k-1]])
      <4>1. TAKE k \in 1..L + 1
      <4>2. CASE k = L + 1
        <5>1. r[k] = i /\ k - 1 = L /\ (k = 1 <=> L = 0) /\ (L # 0 => L \in 1..L)
          BY <2>2, <3>1, <4>2
        <5>2. L # 0 => r[k-1] = q[L]
          BY <3>1, <5>1
        <5> QED BY <3>3, <5>1, <5>2
      <4>3. CASE k # L + 1
        <5>1. k \in 1..L /\ r[k] = q[k] /\ (k # 1 => k - 1 \in 1..L)
          BY <2>2, <3>1, <4>3
        <5>2. k # 1 => r[k-1] = q[k-1]
          BY <3>1, <5>1
        <5> QED BY <3>3, <5>1, <5>2
      <4> QED BY <4>2, <4>3
    <3>8. Len(t[i]) = Len(t[IF Len(r) = 0 THEN h ELSE r[Len(r)]])
      BY <2>2, <3>1
    <3>9. Lists(r, s, h, i, t)
      BY <3>1, <3>4, <3>5, <3>6, <3>7, <3>8 DEF Lists
    <3> QED BY <2>3, <3>9 DEF r
  <2> QED BY <2>6, <2>7
<1> HIDE DEF G
<1>4. h..n \subseteq G
  BY <1>1, <1>2, <1>3, Climb
<1> QED BY <1>4 DEF G

LEMMA NoText ==
  ASSUME NEW k \in DOMAIN Mask
  PROVE  Mask[k] = <<>> <=> k = "comment"
<1>1. Mask[k] \in Seq(Items) /\ (Len(Mask[k]) = 0 <=> k = "comment")
  BY MaskTypes
<1> DEFINE m == Mask[k]
<1> HIDE DEF m
<1>2. m \in Seq(Items) => (m = <<>> <=> Len(m) = 0)
  OBVIOUS
<1> QED BY <1>1, <1>2 DEF m

HasEnd(s) == \E i \in 1..Len(s) : s[i] \in Terminators

LEMMA HeadIs ==
  ASSUME NEW s \in Script
  PROVE  /\ HeadLast(s) \in 0..Len(s)
         /\ ~HasEnd(s) => HeadLast(s) = Len(s)
         /\ HasEnd(s) => HeadLast(s) \in 1..Len(s) /\ s[HeadLast(s)] \in Terminators
         /\ \A i \in 1..Len(s) : s[i] \in Terminators => HeadLast(s) <= i
<1> DEFINE t == {i \in DOMAIN s : s[i] \in Terminators}
<1>1. Len(s) \in Nat /\ DOMAIN s = 1..Len(s)
  BY ScriptTypes
<1>2. HeadLast(s) = IF t = {} THEN Len(s) ELSE Min(t)
  BY DEF HeadLast
<1>3. t # {} => Min(t) \in t /\ \A j \in t : Min(t) <= j
  <2>1. t \in SUBSET Nat
    BY <1>1
  <2> HIDE DEF t
  <2> QED BY <2>1, MinIsLeast
<1>4. HasEnd(s) <=> t # {}
  BY <1>1 DEF HasEnd
<1> QED BY <1>1, <1>2, <1>3, <1>4

LEMMA TailTextsCollects ==
  ASSUME NEW s \in Script
  PROVE  LET h == HeadLast(s)
         IN  \E a \in [h..Len(s) -> Seq(Seq(Items))] :
               Collects(a, s, h, [i \in 1..Len(s) |-> Mask[s[i]]]) /\ TailTexts(s) = a[Len(s)]
<1> DEFINE n == Len(s)
           h == HeadLast(s)
           v == [i \in 1..n |-> Mask[s[i]]]
           Eq(a) == a = [i \in h..n |->
                           IF i = h THEN <<>>
                           ELSE IF Mask[s[i]] = <<>> THEN a[i-1] ELSE Append(a[i-1], Mask[s[i]])]
           T == Seq(Seq(Items))
<1>1. n \in Nat /\ h \in 0..n /\ h \in Nat /\ h <= n
  BY ScriptTypes, HeadIs
<1>2. v \in [1..n -> Seq(Items)]
  <2>1. \A i \in 1..n : Mask[s[i]] \in Seq(Items)
    BY ScriptTypes, MaskTypes
  <2> QED BY <2>1
<1>3. \A i \in 1..n : v[i] = Mask[s[i]] /\ (Mask[s[i]] = <<>> <=> s[i] = "comment")
  BY ScriptTypes, NoText
<1>4. PICK k \in [h..n -> T] : Collects(k, s, h, v)
  <2> HIDE DEF v
  <2> QED BY <1>1, <1>2, Collecting
<1>5. \A i \in h+1..n : i \in 1..n /\ i \in h..n /\ i # h /\ i - 1 \in h..n
  BY <1>1
<1>6. \A i \in h..n : i = h \/ i \in h+1..n
  <2> HIDE DEF n, h
  <2> QED BY <1>1
<1>7. k[h] = <<>> /\ \A i \in h+1..n : k[i] = IF s[i] = "comment" THEN k[i-1] ELSE Append(k[i-1], v[i])
  BY <1>4 DEF Collects
<1>8. h \in h..n
  BY <1>1
<1> HIDE DEF n, h, v, T
<1>9. Eq(k)
  <2> DEFINE g == [i \in h..n |->
                     IF i = h THEN <<>>
                     ELSE IF Mask[s[i]] = <<>> THEN k[i-1] ELSE Append(k[i-1], Mask[s[i]])]
  <2>1. \A i \in h..n : k[i] = g[i]
    <3>1. k[h] = g[h]
      BY <1>7, <1>8
    <3>2. \A i \in h+1..n : k[i] = g[i]
      BY <1>3, <1>5, <1>7
    <3> HIDE DEF g
    <3> QED BY <1>6, <3>1, <3>2
  <2>2. k = [i \in h..n |-> k[i]] /\ g = [i \in h..n |-> g[i]]
    BY <1>4
  <2>3. k = g
    <3> HIDE DEF g
    <3> QED BY <2>1, <2>2
  <2> QED BY <2>3
<1> DEFINE c == CHOOSE a : Eq(a)
<1>10. Eq(c)
  <2> HIDE DEF Eq
  <2> QED BY <1>9
<1>11. TailTexts(s) = c[n]
  BY DEF TailTexts, n, h
<1> HIDE DEF c
<1>12. c = [i \in h..n |-> c[i]] /\ c[h] = <<>>
  BY <1>8, <1>10
<1>13. \A i \in h+1..n : c[i] = IF s[i] = "comment" THEN c[i-1] ELSE Append(c[i-1], v[i])
  <2>1. TAKE i \in h+1..n
  <2>2. c[i] = IF Mask[s[i]] = <<>> THEN c[i-1] ELSE Append(c[i-1], Mask[s[i]])
    BY <1>5, <1>10
  <2> QED BY <1>3, <1>5, <2>2
<1>14. c \in [h..n -> T]
  <2>1. \A i \in h+1..n : c[i-1] \in T => c[i] \in T
    <3>1. ASSUME NEW i \in h+1..n, c[i-1] \in T PROVE c[i] \in T
      <4>1. v[i] \in Seq(Items)
        BY <1>2, <1>5
      <4>2. c[i-1] \in Seq(Seq(Items))
        BY <3>1 DEF T
      <4>3. Append(c[i-1], v[i]) \in Seq(Seq(Items))
        BY <4>1, <4>2, AppendProperties
      <4> QED BY <1>13, <3>1, <4>3 DEF T
    <3> QED BY <3>1
  <2>2. c[h] \in T
    <3>1. <<>> \in T
      BY DEF T
    <3> QED BY <1>12, <3>1
  <2> QED BY <1>1, <1>12, <2>1, <2>2, LoopStays
<1>15. Collects(c, s, h, v)
  BY <1>12, <1>13 DEF Collects, n
<1> QED BY <1>11, <1>14, <1>15 DEF n, h, v, T

(* The text between two cuts.                                              *)
LEMMA TextOfStatement ==
  ASSUME NEW s \in Script, NEW t, Reads(t, s), NEW i \in 1..Len(s)
  PROVE  SubSeq(t[Len(s)], Len(t[i-1]) + 1, Len(t[i])) = Mask[s[i]]
<1> DEFINE m == t[Len(s)]
           p == Len(t[i-1])
           q == Len(t[i])
           k == Mask[s[i]]
           l == Len(k)
<1>1. s \in Seq(DOMAIN Mask) /\ i - 1 \in 0..Len(s) /\ i \in 0..Len(s) /\ Len(s) \in 0..Len(s) /\ i <= Len(s)
      /\ s[i] \in DOMAIN Mask
  BY ScriptTypes
<1>2. m \in Seq(Items) /\ p \in Nat /\ q \in Nat /\ Len(m) \in Nat
  BY <1>1, TextGrows
<1>3. k \in Seq(Items) /\ l \in Nat
  BY <1>1, MaskTypes
<1>4. q = p + l
  BY <1>1, TextStep
<1>5. q <= Len(m)
  BY <1>1, TextFacts
<1>6. \A x \in 1..l : m[p + x] = k[x]
  BY <1>1, TextFacts
<1> DEFINE r == SubSeq(m, p + 1, q)
<1> HIDE DEF m, p, q, l
<1>7. r \in Seq(Items) /\ Len(r) = q - (p + 1) + 1 /\ \A j \in 1..q - (p + 1) + 1 : r[j] = m[p + 1 + j - 1]
  <2>1. p + 1 \in Nat \ {0} /\ q \in Nat /\ q <= Len(m) /\ p + 1 <= q + 1
    BY <1>2, <1>3, <1>4, <1>5 DEF l
  <2> QED BY <1>2, <2>1, SubSeqIs
<1>8. q - (p + 1) + 1 = l /\ \A j \in 1..l : p + 1 + j - 1 = p + j
  BY <1>2, <1>3, <1>4
<1> HIDE DEF r, k
<1>9. r \in Seq(Items) /\ k \in Seq(Items) /\ Len(r) = Len(k) /\ \A j \in 1..Len(r) : r[j] = k[j]
  BY <1>3, <1>6, <1>7, <1>8 DEF l
<1>10. r = k
  BY <1>9, SeqEqual
<1> QED BY <1>10 DEF r, k, m, p, q

LEMMA TextOfHead ==
  ASSUME NEW s \in Script, NEW t, Reads(t, s), NEW i \in 0..Len(s)
  PROVE  SubSeq(t[Len(s)], 1, Len(t[i])) = t[i]
<1> DEFINE m == t[Len(s)]
           k == t[i]
           q == Len(k)
           r == SubSeq(m, 1, q)
<1>1. s \in Seq(DOMAIN Mask) /\ Len(s) \in 0..Len(s) /\ i <= Len(s)
  BY ScriptTypes
<1>2. m \in Seq(Items) /\ k \in Seq(Items) /\ q \in Nat /\ Len(m) \in Nat
  BY <1>1, TextGrows
<1>3. q <= Len(m)
  BY <1>1, TextFacts
<1>4. \A x \in 1..q : m[x] = k[x]
  BY <1>1, TextFacts
<1> HIDE DEF m, k
<1>5. r \in Seq(Items) /\ Len(r) = q - 1 + 1 /\ \A j \in 1..q - 1 + 1 : r[j] = m[1 + j - 1]
  <2> DEFINE a == 1
  <2>1. a \in Nat \ {0} /\ q \in Nat /\ q <= Len(m) /\ a <= q + 1
    BY <1>2, <1>3
  <2> HIDE DEF a
  <2>2. /\ SubSeq(m, a, q) \in Seq(Items) /\ Len(SubSeq(m, a, q)) = q - a + 1
        /\ \A j \in 1..q - a + 1 : SubSeq(m, a, q)[j] = m[a + j - 1]
    BY <1>2, <2>1, SubSeqIs
  <2> QED BY <2>2 DEF a
<1>6. q - 1 + 1 = q /\ \A j \in 1..q : 1 + j - 1 = j
  BY <1>2
<1> HIDE DEF r
<1>7. r \in Seq(Items) /\ Len(r) = Len(k) /\ \A j \in 1..Len(r) : r[j] = k[j]
  BY <1>4, <1>5, <1>6
<1>8. r = k
  BY <1>2, <1>7, SeqEqual
<1> QED BY <1>8 DEF r, k, m

(* q lists the statements after h that have a text: the cuts the splitter  *)
(* makes from there on, and the units the contract asks for.               *)
Cuts(q, s, t, h) ==
  /\ q \in Seq(1..Len(s))
  /\ Lists(q, s, h, Len(s), t)
  /\ StatementEnds(t[Len(s)], Len(t[h]) + 1) = [k \in 1..Len(q) |-> Len(t[q[k]])]
  /\ h = HeadLast(s) => TailTexts(s) = [k \in 1..Len(q) |-> Mask[s[q[k]]]]

LEMMA Cutting ==
  ASSUME NEW s \in Script, NEW t, Reads(t, s), NEW h \in 0..Len(s)
  PROVE  \E q : Cuts(q, s, t, h)
<1> DEFINE n == Len(s)
           id == [i \in 1..n |-> i]
           lens == [i \in 1..n |-> Len(t[i])]
           masks == [i \in 1..n |-> Mask[s[i]]]
           N == 1..n
           Texts1 == Seq(Items)
<1>1. n \in Nat /\ h \in Nat /\ h <= n /\ n \in h..n /\ s \in Seq(DOMAIN Mask)
  BY ScriptTypes
<1>2. id \in [1..n -> N]
  OBVIOUS
<1>3. lens \in [1..n -> Nat]
  <2>1. \A i \in 0..n : Len(t[i]) \in Nat
    BY <1>1, TextGrows
  <2> QED BY <1>1, <2>1
<1>4. masks \in [1..n -> Texts1]
  <2>1. \A i \in 1..n : Mask[s[i]] \in Texts1
    BY ScriptTypes, MaskTypes
  <2> HIDE DEF Texts1
  <2> QED BY <2>1
<1>5. PICK p \in [h..n -> Seq(N)] : Collects(p, s, h, id)
  <2> HIDE DEF id, N
  <2> QED BY <1>2, Collecting
<1>6. PICK a \in [h..n -> Seq(Nat)] : Collects(a, s, h, lens)
  <2> HIDE DEF lens
  <2> QED BY <1>3, Collecting
<1> DEFINE q == p[n]
<1>7. q \in Seq(N)
  BY <1>1, <1>5
<1>8. Lists(q, s, h, n, t)
  BY <1>1, <1>5, Listing
<1>9. \A i \in 1..n : lens[i] = Len(t[i]) /\ masks[i] = Mask[s[i]]
  OBVIOUS
<1>10. \A k \in 1..Len(q) : q[k] \in 1..n
  BY <1>7
<1>11. StatementEnds(t[n], Len(t[h]) + 1) = [k \in 1..Len(q) |-> Len(t[q[k]])]
  <2>1. StatementEnds(t[n], Len(t[h]) + 1) = a[n]
    BY <1>6, EndsOfText
  <2>2. Len(a[n]) = Len(q) /\ \A k \in 1..Len(q) : a[n][k] = lens[q[k]]
    <3>1. Alike(a, p, s, h, lens)
      <4> HIDE DEF lens
      <4> QED BY <1>3, <1>5, <1>6, CollectsAlike DEF id, N
    <3> QED BY <1>1, <3>1 DEF Alike
  <2>3. a[n] \in Seq(Nat)
    BY <1>1, <1>6
  <2> HIDE DEF q, lens
  <2>4. \A k \in 1..Len(q) : a[n][k] = Len(t[q[k]])
    BY <1>9, <1>10, <2>2
  <2>5. a[n] = [k \in 1..Len(a[n]) |-> a[n][k]]
    BY <2>3
  <2> QED BY <2>1, <2>2, <2>4, <2>5
<1>12. h = HeadLast(s) => TailTexts(s) = [k \in 1..Len(q) |-> Mask[s[q[k]]]]
  <2>1. SUFFICES ASSUME h = HeadLast(s) PROVE TailTexts(s) = [k \in 1..Len(q) |-> Mask[s[q[k]]]]
    OBVIOUS
  <2>2. PICK b \in [h..n -> Seq(Texts1)] : Collects(b, s, h, masks) /\ TailTexts(s) = b[n]
    BY <2>1, TailTextsCollects
  <2>3. Len(b[n]) = Len(q) /\ \A k \in 1..Len(q) : b[n][k] = masks[q[k]]
    <3>1. Alike(b, p, s, h, masks)
      <4> HIDE DEF masks, Texts1
      <4> QED BY <1>4, <1>5, <2>2, CollectsAlike DEF id, N
    <3> QED BY <1>1, <3>1 DEF Alike
  <2>4. b[n] \in Seq(Texts1)
    BY <1>1, <2>2
  <2> HIDE DEF q, masks, Texts1
  <2>5. \A k \in 1..Len(q) : b[n][k] = Mask[s[q[k]]]
    BY <1>9, <1>10, <2>3
  <2>6. b[n] = [k \in 1..Len(b[n]) |-> b[n][k]]
    BY <2>4
  <2> QED BY <2>2, <2>3, <2>5, <2>6
<1>13. Cuts(q, s, t, h)
  <2> HIDE DEF q
  <2> QED BY <1>7, <1>8, <1>11, <1>12 DEF Cuts
<1> QED BY <1>13

LEMMA CutTypes ==
  ASSUME NEW s \in Script, NEW t, Reads(t, s), NEW h \in 0..Len(s), NEW q, Cuts(q, s, t, h)
  PROVE  /\ Len(q) \in Nat
         /\ \A k \in 1..Len(q) :
              /\ q[k] \in h+1..Len(s) /\ q[k] \in 1..Len(s) /\ s[q[k]] # "comment"
              /\ Len(t[q[k]-1]) \in Nat /\ Len(t[q[k]]) \in Nat
              /\ Len(t[q[k]-1]) < Len(t[q[k]])
<1>1. Len(q) \in Nat /\ Len(s) \in Nat /\ s \in Seq(DOMAIN Mask)
  BY ScriptTypes DEF Cuts
<1>2. ASSUME NEW k \in 1..Len(q)
      PROVE  /\ q[k] \in h+1..Len(s) /\ q[k] \in 1..Len(s) /\ s[q[k]] # "comment"
             /\ Len(t[q[k]-1]) \in Nat /\ Len(t[q[k]]) \in Nat
             /\ Len(t[q[k]-1]) < Len(t[q[k]])
  <2> DEFINE x == q[k]
  <2>1. x \in h+1..Len(s) /\ s[x] # "comment"
    BY DEF Cuts, Lists
  <2>2. x \in 1..Len(s) /\ x - 1 \in 0..Len(s) /\ x \in 0..Len(s)
    BY <1>1, <2>1
  <2> HIDE DEF x
  <2>3. Len(t[x-1]) \in Nat /\ Len(t[x]) \in Nat
    BY <1>1, <2>2, TextGrows
  <2>4. Len(t[x]) = Len(t[x-1]) + Len(Mask[s[x]])
    BY <1>1, <2>2, TextStep
  <2>5. Len(Mask[s[x]]) \in Nat /\ Len(Mask[s[x]]) # 0
    BY <2>1, <2>2, ScriptTypes, MaskTypes
  <2>6. Len(t[x-1]) < Len(t[x])
    <3> DEFINE a == Len(t[x-1])
               b == Len(Mask[s[x]])
    <3>1. a \in Nat /\ b \in Nat /\ b # 0 /\ Len(t[x]) = a + b
      BY <2>3, <2>4, <2>5
    <3> HIDE DEF a, b
    <3>2. a < a + b
      BY <3>1
    <3> QED BY <3>1, <3>2 DEF a
  <2> QED BY <2>1, <2>2, <2>3, <2>6 DEF x
<1> QED BY <1>1, <1>2

LEMMA StatementsAre ==
  ASSUME NEW s \in Script, NEW t, Reads(t, s), NEW h \in 0..Len(s), NEW q, Cuts(q, s, t, h)
  PROVE  Statements(t[Len(s)], Len(t[h]) + 1)
           = [k \in 1..Len(q) + 1 |->
                IF k <= Len(q) THEN <<Len(t[q[k]-1]) + 1, Len(t[q[k]])>>
                ELSE <<Len(t[Len(s)]) + 1, Len(t[Len(s)])>>]
<1> DEFINE m == t[Len(s)]
           from == Len(t[h]) + 1
           ends == [k \in 1..Len(q) |-> Len(t[q[k]])]
           g == [k \in 1..Len(q) + 1 |->
                   IF k <= Len(q) THEN <<Len(t[q[k]-1]) + 1, Len(t[q[k]])>> ELSE <<Len(m) + 1, Len(m)>>]
           f == [k \in 1..Len(ends) + 1 |->
                   <<IF k = 1 THEN from ELSE ends[k-1] + 1, IF k <= Len(ends) THEN ends[k] ELSE Len(m)>>]
<1>1. Len(q) \in Nat
  BY CutTypes
<1>2. Len(ends) = Len(q) /\ \A k \in 1..Len(q) : ends[k] = Len(t[q[k]])
  BY <1>1
<1>3. Statements(m, from) = f
  BY DEF Cuts, Statements, Ranges
<1>4. /\ \A k \in 1..Len(q) : Len(t[q[k]-1]) = Len(t[IF k = 1 THEN h ELSE q[k-1]])
      /\ Len(m) = Len(t[IF Len(q) = 0 THEN h ELSE q[Len(q)]])
  BY DEF Cuts, Lists
<1> HIDE DEF ends, m
<1>5. ASSUME NEW k \in 1..Len(q) PROVE f[k] = g[k]
  <2>1. k \in 1..Len(q) + 1 /\ k <= Len(q) /\ (k # 1 => k - 1 \in 1..Len(q))
    BY <1>1
  <2>2. (IF k = 1 THEN from ELSE ends[k-1] + 1) = Len(t[q[k]-1]) + 1
    BY <1>2, <1>4, <2>1
  <2> QED BY <1>2, <2>1, <2>2
<1>6. f[Len(q) + 1] = g[Len(q) + 1]
  <2> DEFINE k == Len(q) + 1
  <2>1. k \in 1..Len(q) + 1 /\ ~(k <= Len(q)) /\ (k = 1 <=> Len(q) = 0)
        /\ (k # 1 => k - 1 = Len(q) /\ Len(q) \in 1..Len(q))
    BY <1>1
  <2> HIDE DEF k
  <2>2. (IF k = 1 THEN from ELSE ends[k-1] + 1) = Len(m) + 1
    BY <1>2, <1>4, <2>1
  <2>3. f[k] = g[k]
    BY <1>2, <2>1, <2>2
  <2> QED BY <2>3 DEF k
<1>7. \A k \in 1..Len(q) + 1 : k \in 1..Len(q) \/ k = Len(q) + 1
  BY <1>1
<1>8. f = g
  <2>1. f = [k \in 1..Len(q) + 1 |-> f[k]] /\ g = [k \in 1..Len(q) + 1 |-> g[k]]
    BY <1>2
  <2>2. \A k \in 1..Len(q) + 1 : f[k] = g[k]
    <3> HIDE DEF f, g
    <3> QED BY <1>5, <1>6, <1>7
  <2> HIDE DEF f, g
  <2> QED BY <2>1, <2>2
<1> QED BY <1>3, <1>8 DEF m

(* The head ends where the first terminator does.                          *)
LEMMA HeadEndIs ==
  ASSUME NEW s \in Script, NEW t, Reads(t, s)
  PROVE  HeadEnd(TerminatorEnds(t[Len(s)], Statements(t[Len(s)], 1)))
           = IF HasEnd(s) THEN Len(t[HeadLast(s)]) ELSE 0
<1> DEFINE n == Len(s)
           m == t[n]
           H == HeadLast(s)
           st == Statements(m, 1)
           E == {Len(t[x]) : x \in {y \in 1..n : s[y] \in Terminators}}
<1>1. n \in Nat /\ 0 \in 0..n /\ n \in 0..n /\ s \in Seq(DOMAIN Mask)
      /\ \A x \in 1..n : x \in 0..n /\ s[x] \in DOMAIN Mask /\ s[x] # "end_column"
  BY ScriptTypes
<1>2. PICK q : Cuts(q, s, t, 0)
  BY <1>1, Cutting
<1> DEFINE g == [k \in 1..Len(q) + 1 |->
                   IF k <= Len(q) THEN <<Len(t[q[k]-1]) + 1, Len(t[q[k]])>> ELSE <<Len(m) + 1, Len(m)>>]
<1>3. st = g
  <2>1. Len(t[0]) + 1 = 1
    BY DEF Reads
  <2>2. Statements(m, Len(t[0]) + 1) = g
    BY <1>1, <1>2, StatementsAre
  <2> QED BY <2>1, <2>2
<1>4. Len(q) \in Nat /\ \A k \in 1..Len(q) : q[k] \in 1..n /\ s[q[k]] # "comment"
  BY <1>1, <1>2, CutTypes
<1>5. \A x \in 1..n : s[x] # "comment" => \E k \in 1..Len(q) : q[k] = x
  BY <1>2 DEF Cuts, Lists
<1>6. Len(m) \in Nat /\ \A x \in 0..n : Len(t[x]) \in Nat
  BY <1>1, TextGrows
<1>7. DOMAIN st = 1..Len(q) + 1
  BY <1>3
<1>8. ASSUME NEW k \in 1..Len(q)
      PROVE  st[k][2] = Len(t[q[k]]) /\ (IsTransactionTerminator(Text(m, st[k])) <=> s[q[k]] \in Terminators)
  <2>1. k \in 1..Len(q) + 1 /\ k <= Len(q)
    BY <1>4
  <2>2. st[k] = <<Len(t[q[k]-1]) + 1, Len(t[q[k]])>>
    BY <1>3, <2>1
  <2> DEFINE x == q[k]
  <2>3. x \in 1..n
    BY <1>4
  <2> HIDE DEF x, m
  <2>4. Text(m, st[k]) = Mask[s[x]]
    <3>1. SubSeq(m, Len(t[x-1]) + 1, Len(t[x])) = Mask[s[x]]
      BY <2>3, TextOfStatement DEF m
    <3> DEFINE a == Len(t[x-1]) + 1
               b == Len(t[x])
               r == st[k]
    <3>2. r = <<a, b>>
      BY <2>2 DEF x
    <3>3. SubSeq(m, a, b) = Mask[s[x]]
      BY <3>1
    <3> HIDE DEF a, b, r
    <3>4. Text(m, r) = SubSeq(m, a, b)
      BY <3>2 DEF Text
    <3>5. Text(m, r) = Mask[s[x]]
      BY <3>3, <3>4
    <3> QED BY <3>5 DEF r
  <2>5. IsTransactionTerminator(Mask[s[x]]) <=> s[x] \in Terminators
    BY <1>1, <2>3, Terminates
  <2> QED BY <2>2, <2>4, <2>5 DEF x, m
<1>9. ~IsTransactionTerminator(Text(m, st[Len(q) + 1]))
  <2>1. Len(q) + 1 \in 1..Len(q) + 1 /\ ~(Len(q) + 1 <= Len(q))
    BY <1>4
  <2>2. st[Len(q) + 1] = <<Len(m) + 1, Len(m)>>
    BY <1>3, <2>1
  <2>3. SubSeq(m, Len(m) + 1, Len(m)) = <<>>
    <3> DEFINE a == Len(m) + 1
               b == Len(m)
    <3>1. a \in Int /\ b \in Int /\ b < a
      BY <1>6
    <3> HIDE DEF a, b
    <3>2. SubSeq(m, a, b) = <<>>
      BY <3>1, SubSeqEmpty
    <3> QED BY <3>2 DEF a, b
  <2> DEFINE a == Len(m) + 1
             b == Len(m)
             r == st[Len(q) + 1]
  <2>4. r = <<a, b>> /\ SubSeq(m, a, b) = <<>>
    BY <2>2, <2>3
  <2> HIDE DEF a, b, r, m
  <2>5. Text(m, r) = <<>>
    BY <2>4 DEF Text
  <2>6. ~IsTransactionTerminator(Text(m, r))
    BY <2>5, RestIsNoTerminator
  <2> QED BY <2>6 DEF r
<1> HIDE DEF st, m
<1>10. TerminatorEnds(m, st) = E
  <2> DEFINE K == {j \in 1..Len(q) + 1 : IsTransactionTerminator(Text(m, st[j]))}
  <2>1. TerminatorEnds(m, st) = {st[k][2] : k \in K}
    BY <1>7 DEF TerminatorEnds
  <2>2. \A k \in K : k \in 1..Len(q) /\ q[k] \in 1..n /\ s[q[k]] \in Terminators /\ st[k][2] = Len(t[q[k]])
    <3>1. \A k \in 1..Len(q) + 1 : k \in 1..Len(q) \/ k = Len(q) + 1
      BY <1>4
    <3> QED BY <1>4, <1>8, <1>9, <3>1
  <2>3. \A x \in 1..n : s[x] \in Terminators => \E k \in K : st[k][2] = Len(t[x])
    <3>1. TAKE x \in 1..n
    <3>2. SUFFICES ASSUME s[x] \in Terminators PROVE \E k \in K : st[k][2] = Len(t[x])
      OBVIOUS
    <3>3. s[x] # "comment"
      BY <3>2 DEF Terminators
    <3>4. PICK k \in 1..Len(q) : q[k] = x
      BY <1>5, <3>3
    <3>5. k \in K /\ st[k][2] = Len(t[x])
      BY <1>4, <1>8, <3>2, <3>4
    <3> QED BY <3>5
  <2> HIDE DEF K
  <2> QED BY <2>1, <2>2, <2>3
<1>11. CASE ~HasEnd(s)
  <2>1. E = {}
    BY <1>11 DEF HasEnd
  <2> QED BY <1>10, <1>11, <2>1 DEF HeadEnd, st, m
<1>12. CASE HasEnd(s)
  <2>1. H \in 1..n /\ s[H] \in Terminators /\ \A x \in 1..n : s[x] \in Terminators => H <= x
    BY <1>12, HeadIs
  <2>2. Len(t[H]) \in E /\ \A e \in E : Len(t[H]) <= e
    <3>1. \A x \in 1..n : H <= x => Len(t[H]) <= Len(t[x])
      BY <1>1, <2>1, TextFacts
    <3> QED BY <2>1, <3>1
  <2>3. E \in SUBSET Nat
    BY <1>1, <1>6
  <2>4. Min(E) \in E /\ \A e \in E : Min(E) <= e
    <3> HIDE DEF E
    <3> QED BY <2>2, <2>3, MinIsLeast
  <2>5. Min(E) = Len(t[H])
    <3> DEFINE a == Min(E)
               b == Len(t[H])
    <3>1. a \in Nat /\ b \in Nat /\ a <= b /\ b <= a
      BY <2>2, <2>3, <2>4
    <3> HIDE DEF a, b
    <3>2. a = b
      BY <3>1
    <3> QED BY <3>2 DEF a, b
  <2>6. E # {}
    BY <2>2
  <2> HIDE DEF E
  <2> QED BY <1>10, <1>12, <2>5, <2>6 DEF HeadEnd, st, m
<1> QED BY <1>11, <1>12

(* The units the splitter makes: the head, then one for each statement     *)
(* that has a text.                                                        *)
TailRanges(q, t) == [k \in 1..Len(q) |-> <<Len(t[q[k]-1]) + 1, Len(t[q[k]])>>]

LEMMA UnitsAre ==
  ASSUME NEW s \in Script, NEW t, Reads(t, s), NEW q, Cuts(q, s, t, HeadLast(s))
  PROVE  SplitExecutionUnits(t[Len(s)]) = << <<1, Len(t[HeadLast(s)])>> >> \o TailRanges(q, t)
<1> DEFINE n == Len(s)
           m == t[n]
           H == HeadLast(s)
           h == Len(t[H])
           L == Len(q)
           R == TailRanges(q, t)
           U == << <<1, h>> >>
<1>1. n \in Nat /\ n \in 0..n /\ s \in Seq(DOMAIN Mask) /\ H \in 0..n
  BY ScriptTypes, HeadIs
<1>2. /\ L \in Nat
      /\ \A k \in 1..L : q[k] \in H+1..n /\ Len(t[q[k]-1]) \in Nat /\ Len(t[q[k]]) \in Nat
                         /\ Len(t[q[k]-1]) < Len(t[q[k]])
  BY <1>1, CutTypes
<1>3. Len(m) = Len(t[IF L = 0 THEN H ELSE q[L]])
  BY DEF Cuts, Lists
<1>4. m \in Seq(Items) /\ Len(m) \in Nat /\ h \in Nat
  BY <1>1, TextGrows
<1>5. L = 0 => U \o R = U
  <2>1. SUFFICES ASSUME L = 0 PROVE U \o R = U
    OBVIOUS
  <2>2. R = <<>>
    BY <2>1 DEF TailRanges
  <2>3. U \in Seq(Seq(Nat))
    <3> HIDE DEF h
    <3>1. <<1, h>> \in Seq(Nat)
      BY <1>4
    <3> QED BY <3>1
  <2> HIDE DEF U, R
  <2> QED BY <2>2, <2>3, ConcatEmptySeq
<1> HIDE DEF U, R
<1>6. SplitExecutionUnits(m) = Units(m, IF HasEnd(s) THEN h ELSE 0)
  BY HeadEndIs DEF SplitExecutionUnits
<1>7. CASE ~HasEnd(s)
  <2>1. H = n
    BY <1>7, HeadIs
  <2>2. L = 0
    BY <1>1, <1>2, <2>1
  <2>3. Units(m, 0) = << <<1, Len(m)>> >>
    BY DEF Units
  <2>4. Len(m) = h
    BY <2>1
  <2> HIDE DEF m, h
  <2>5. Units(m, 0) = U
    BY <2>3, <2>4 DEF U
  <2> QED BY <1>5, <1>6, <1>7, <2>2, <2>5 DEF m, R, U, h
<1>8. CASE HasEnd(s)
  <2>1. H \in 1..n /\ s[H] \in Terminators
    BY <1>8, HeadIs
  <2>2. h # 0
    <3>1. H - 1 \in 0..n /\ s[H] \in DOMAIN Mask /\ s[H] # "comment"
      BY <1>1, <2>1, ScriptTypes DEF Terminators
    <3> DEFINE a == Len(t[H-1])
               b == Len(Mask[s[H]])
    <3>2. h = a + b
      BY <1>1, <2>1, TextStep
    <3>3. a \in Nat
      BY <1>1, <3>1, TextGrows
    <3>4. b \in Nat /\ b # 0
      BY <3>1, MaskTypes
    <3> HIDE DEF a, b, h
    <3> QED BY <3>2, <3>3, <3>4
  <2>3. CASE L = 0
    <3>1. Len(m) = h
      BY <1>3, <2>3
    <3>2. SubSeq(m, h + 1, Len(m)) = <<>>
      <4> DEFINE a == h + 1
                 b == Len(m)
      <4>1. a \in Int /\ b \in Int /\ b < a
        BY <1>4, <3>1
      <4> HIDE DEF a, b
      <4>2. SubSeq(m, a, b) = <<>>
        BY <4>1, SubSeqEmpty
      <4> QED BY <4>2 DEF a, b
    <3>3. Units(m, h) = << <<1, Len(m)>> >>
      BY <3>2 DEF Units, IsBlank
    <3> HIDE DEF m, h
    <3>4. Units(m, h) = U
      BY <3>1, <3>3 DEF U
    <3> QED BY <1>5, <1>6, <1>8, <2>3, <3>4 DEF m, R, U, h
  <2>4. CASE L # 0
    <3>1. h < Len(m)
      <4>1. L \in 1..L
        BY <1>2, <2>4
      <4> DEFINE x == q[L]
      <4>2. x \in H+1..n /\ Len(t[x-1]) \in Nat /\ Len(t[x]) \in Nat /\ Len(t[x-1]) < Len(t[x])
        BY <1>2, <4>1
      <4>3. Len(m) = Len(t[x])
        BY <1>3, <2>4
      <4> HIDE DEF x
      <4>4. h <= Len(t[x-1])
        <5>1. x - 1 \in 0..n /\ H <= x - 1
          BY <1>1, <4>2
        <5> QED BY <1>1, <5>1, TextFacts
      <4> DEFINE a == Len(t[x-1])
                 b == Len(t[x])
      <4>5. a \in Nat /\ b \in Nat /\ a < b /\ h <= a /\ Len(m) = b
        BY <4>2, <4>3, <4>4
      <4> HIDE DEF a, b, h
      <4>6. h < b
        BY <1>4, <4>5
      <4> QED BY <4>5, <4>6
    <3>2. ~IsBlank(SubSeq(m, h + 1, Len(m)))
      <4> DEFINE a == h + 1
                 b == Len(m)
                 r == SubSeq(m, a, b)
      <4>1. a \in Nat \ {0} /\ b \in Nat /\ b <= Len(m) /\ a <= b + 1 /\ b - a + 1 # 0
        BY <1>4, <3>1
      <4> HIDE DEF a, b
      <4>2. Len(r) = b - a + 1
        BY <1>4, <4>1, SubSeqIs
      <4> HIDE DEF r
      <4>3. r # <<>>
        BY <4>1, <4>2
      <4> QED BY <4>3 DEF IsBlank, a, b, r
    <3> DEFINE st == Statements(m, h + 1)
               g == [k \in 1..L + 1 |->
                       IF k <= L THEN <<Len(t[q[k]-1]) + 1, Len(t[q[k]])>> ELSE <<Len(m) + 1, Len(m)>>]
    <3>3. st = g
      BY <1>1, StatementsAre
    <3>4. NonBlank(m, st) = R
      <4>1. L + 1 \in 1..L + 1 /\ ~(L + 1 <= L) /\ L + 1 - 1 = L
        BY <1>2
      <4>2. Len(st) = L + 1 /\ st[L + 1] = <<Len(m) + 1, Len(m)>>
        BY <1>2, <3>3, <4>1
      <4>3. SubSeq(m, Len(m) + 1, Len(m)) = <<>>
        <5> DEFINE a == Len(m) + 1
                   b == Len(m)
        <5>1. a \in Int /\ b \in Int /\ b < a
          BY <1>4
        <5> HIDE DEF a, b
        <5>2. SubSeq(m, a, b) = <<>>
          BY <5>1, SubSeqEmpty
        <5> QED BY <5>2 DEF a, b
      <4>4. NonBlank(m, st) = Front(st)
        <5> HIDE DEF st, m, L
        <5> QED BY <4>2, <4>3 DEF NonBlank, Text, IsBlank
      <4>5. Front(st) = SubSeq(st, 1, L)
        <5> HIDE DEF st
        <5>1. Len(st) - 1 = L
          BY <4>1, <4>2
        <5> HIDE DEF L
        <5> QED BY <5>1 DEF Front
      <4>6. SubSeq(st, 1, L) = R
        <5> DEFINE z == [k \in 1..L |-> st[1 + k - 1]]
        <5>1. SubSeq(st, 1, L) = z
          <6> HIDE DEF st, L
          <6>1. L - 1 + 1 = L
            BY <1>2
          <6> QED BY <1>2, <6>1
        <5>2. \A k \in 1..L : z[k] = R[k]
          <6>1. TAKE k \in 1..L
          <6>2. 1 + k - 1 = k /\ k \in 1..L + 1 /\ k <= L
            BY <1>2
          <6>3. z[k] = st[k]
            BY <6>2
          <6>4. st[k] = <<Len(t[q[k]-1]) + 1, Len(t[q[k]])>>
            BY <3>3, <6>2
          <6> QED BY <6>3, <6>4 DEF R, TailRanges
        <5>3. z = [k \in 1..L |-> z[k]] /\ R = [k \in 1..L |-> R[k]]
          BY DEF R, TailRanges
        <5>4. z = R
          <6> HIDE DEF z
          <6> QED BY <5>2, <5>3
        <5> QED BY <5>1, <5>4
      <4> QED BY <4>4, <4>5, <4>6
    <3> HIDE DEF st, m, h
    <3>5. Units(m, h) = U \o R
      BY <2>2, <3>2, <3>4 DEF Units, U, st
    <3> QED BY <1>6, <1>8, <3>5 DEF m, R, U, h
  <2> QED BY <2>3, <2>4
<1> QED BY <1>7, <1>8

(* A head put before a list.                                               *)
Joined(u, x, y) == u = [k \in 1..Len(y) + 1 |-> IF k = 1 THEN x ELSE y[k-1]]

LEMMA Joins ==
  \A V : \A x \in V, y \in Seq(V) : Joined(<<x>> \o y, x, y)
<1> SUFFICES ASSUME NEW V, NEW x \in V, NEW y \in Seq(V) PROVE Joined(<<x>> \o y, x, y)
  OBVIOUS
<1> DEFINE a == <<x>>
           u == a \o y
           L == Len(y)
<1>1. a \in Seq(V) /\ Len(a) = 1 /\ a[1] = x /\ L \in Nat
  OBVIOUS
<1> HIDE DEF a
<1>2. /\ u \in Seq(V) /\ Len(u) = 1 + L
      /\ \A k \in 1..1 + L : u[k] = IF k <= 1 THEN a[k] ELSE y[k - 1]
  <2>1. /\ u \in Seq(V) /\ Len(u) = Len(a) + Len(y)
        /\ \A k \in 1..Len(a) + Len(y) : u[k] = IF k <= Len(a) THEN a[k] ELSE y[k - Len(a)]
    BY <1>1, ConcatProperties
  <2> HIDE DEF u
  <2> QED BY <1>1, <2>1
<1> HIDE DEF u, L
<1>3. u = [k \in 1..Len(u) |-> u[k]]
  BY <1>2
<1>4. 1 + L = L + 1 /\ \A k \in 1..L + 1 : k <= 1 <=> k = 1
  BY <1>1
<1>5. \A k \in 1..L + 1 : u[k] = IF k = 1 THEN x ELSE y[k-1]
  BY <1>1, <1>2, <1>4
<1>6. u = [k \in 1..L + 1 |-> IF k = 1 THEN x ELSE y[k-1]]
  BY <1>2, <1>3, <1>4, <1>5
<1> QED BY <1>6 DEF Joined, L, u, a

(* The units, one by one.                                                  *)
UnitAt(u, k, p, e) == u[k] = <<p, e>>

Parts(u, s, q, t) ==
  /\ DOMAIN u = 1..Len(q) + 1
  /\ UnitAt(u, 1, 1, Len(t[HeadLast(s)]))
  /\ \A k \in 1..Len(q) : UnitAt(u, k + 1, Len(t[q[k]-1]) + 1, Len(t[q[k]]))

LEMMA PartsAre ==
  ASSUME NEW s \in Script, NEW t, Reads(t, s), NEW q, Cuts(q, s, t, HeadLast(s))
  PROVE  Parts(SplitExecutionUnits(t[Len(s)]), s, q, t)
<1> DEFINE n == Len(s)
           H == HeadLast(s)
           h == Len(t[H])
           L == Len(q)
           R == TailRanges(q, t)
           x == <<1, h>>
           u == SplitExecutionUnits(t[n])
           V == Nat \X Nat
<1>1. n \in Nat /\ s \in Seq(DOMAIN Mask) /\ H \in 0..n
  BY ScriptTypes, HeadIs
<1>2. /\ L \in Nat
      /\ \A k \in 1..L : Len(t[q[k]-1]) + 1 \in Nat /\ Len(t[q[k]]) \in Nat
  BY <1>1, CutTypes
<1>3. h \in Nat
  BY <1>1, TextGrows
<1>4. x \in V
  <2> HIDE DEF h
  <2> QED BY <1>3
<1>5. R \in Seq(V) /\ Len(R) = L
  <2>1. \A k \in 1..L : R[k] \in V
    BY <1>2 DEF TailRanges
  <2>2. R = [k \in 1..L |-> R[k]]
    BY DEF TailRanges
  <2> HIDE DEF R, L
  <2> QED BY <1>2, <2>1, <2>2
<1>6. u = <<x>> \o R
  BY UnitsAre
<1> HIDE DEF x, R, V, u
<1>7. Joined(u, x, R)
  BY <1>4, <1>5, <1>6, Joins
<1>8. u = [k \in 1..L + 1 |-> IF k = 1 THEN x ELSE R[k-1]]
  BY <1>5, <1>7 DEF Joined
<1>9. 1 \in 1..L + 1 /\ \A k \in 1..L : k + 1 \in 1..L + 1 /\ k + 1 # 1 /\ (k + 1) - 1 = k
  BY <1>2
<1>10. DOMAIN u = 1..L + 1 /\ u[1] = x /\ \A k \in 1..L : u[k+1] = R[k]
  BY <1>8, <1>9
<1>11. \A k \in 1..L : R[k] = <<Len(t[q[k]-1]) + 1, Len(t[q[k]])>>
  BY DEF R, TailRanges
<1> QED BY <1>10, <1>11 DEF Parts, UnitAt, x, u

(* The splitter recovers what the contract asks for, from any script of    *)
(* any length in which no function body has a column named by END.         *)
LEMMA SplitRecovers ==
  ASSUME NEW s \in Script
  PROVE  UnitTexts(s) = ExpectedUnits(s)
<1> DEFINE n == Len(s)
           H == HeadLast(s)
<1>1. n \in Nat /\ s \in Seq(DOMAIN Mask) /\ H \in 0..n
  BY ScriptTypes, HeadIs
<1>2. PICK t : Reads(t, s) /\ MaskOf(s) = t[n]
  BY <1>1, MaskOfReads
<1>3. PICK q : Cuts(q, s, t, H)
  BY <1>1, <1>2, Cutting
<1> DEFINE m == t[n]
           h == Len(t[H])
           L == Len(q)
           u == SplitExecutionUnits(m)
           T == TailTexts(s)
           V == Seq(Items)
           x == t[H]
<1>4. Parts(u, s, q, t)
  BY <1>2, <1>3, PartsAre
<1>5. L \in Nat /\ \A k \in 1..L : q[k] \in 1..n /\ s[q[k]] \in DOMAIN Mask
  BY <1>1, <1>2, <1>3, CutTypes
<1>6. MaskOf(SubSeq(s, 1, H)) = x /\ x \in V
  BY <1>1, <1>2, TextOfPrefix, TextGrows
<1>7. T = [k \in 1..L |-> Mask[s[q[k]]]]
  BY <1>3 DEF Cuts
<1>8. T \in Seq(V) /\ Len(T) = L /\ \A k \in 1..L : T[k] = Mask[s[q[k]]]
  <2>1. \A k \in 1..L : Mask[s[q[k]]] \in V
    BY <1>5, MaskTypes
  <2> HIDE DEF V, L, T
  <2> QED BY <1>5, <1>7, <2>1
<1> HIDE DEF T, V, x, u, m
<1>9. Joined(<<x>> \o T, x, T)
  BY <1>6, <1>8, Joins
<1>10. ExpectedUnits(s) = [k \in 1..L + 1 |-> IF k = 1 THEN x ELSE T[k-1]]
  BY <1>6, <1>8, <1>9 DEF ExpectedUnits, Joined, T
<1>11. UnitTexts(s) = [k \in 1..L + 1 |-> Text(m, u[k])]
  BY <1>2, <1>4 DEF UnitTexts, Texts, Parts, u, m
<1>12. Text(m, u[1]) = x
  <2>1. SubSeq(m, 1, h) = x
    BY <1>1, <1>2, TextOfHead DEF m, x
  <2> DEFINE r == u[1]
             a == 1
             b == h
  <2>2. r = <<a, b>> /\ SubSeq(m, a, b) = x
    BY <1>4, <2>1 DEF Parts, UnitAt
  <2> HIDE DEF r, a, b
  <2>3. Text(m, r) = x
    BY <2>2 DEF Text
  <2> QED BY <2>3 DEF r
<1>13. ASSUME NEW k \in 1..L PROVE Text(m, u[k+1]) = T[k]
  <2> DEFINE y == q[k]
             a == Len(t[y-1]) + 1
             b == Len(t[y])
             r == u[k+1]
  <2>1. y \in 1..n
    BY <1>5
  <2>2. SubSeq(m, a, b) = Mask[s[y]]
    <3> HIDE DEF y
    <3> QED BY <1>2, <2>1, TextOfStatement DEF m
  <2>3. r = <<a, b>>
    BY <1>4 DEF Parts, UnitAt
  <2>4. T[k] = Mask[s[y]]
    BY <1>8
  <2> HIDE DEF y, a, b, r
  <2>5. Text(m, r) = SubSeq(m, a, b)
    BY <2>3 DEF Text
  <2> QED BY <2>2, <2>4, <2>5 DEF r
<1>14. \A k \in 1..L + 1 : Text(m, u[k]) = IF k = 1 THEN x ELSE T[k-1]
  <2>1. TAKE k \in 1..L + 1
  <2>2. k = 1 \/ (k # 1 /\ k - 1 \in 1..L /\ (k - 1) + 1 = k)
    BY <1>5
  <2>3. CASE k = 1
    BY <1>12, <2>3
  <2>4. CASE k # 1
    <3> DEFINE j == k - 1
    <3>1. j \in 1..L /\ j + 1 = k
      BY <2>2, <2>4
    <3> HIDE DEF j
    <3>2. Text(m, u[j+1]) = T[j]
      BY <1>13, <3>1
    <3> QED BY <2>4, <3>1, <3>2 DEF j
  <2> QED BY <2>3, <2>4
<1> QED BY <1>10, <1>11, <1>14

(* The statements found in one unit, up to statement i of the script.      *)
Found(w, s, unit, i) ==
  /\ w \in Seq(1..Len(s))
  /\ \A k, l \in 1..Len(w) : k < l => w[k] < w[l]
  /\ \A k \in 1..Len(w) : w[k] <= i /\ Lies(s, w[k], unit)
  /\ \A x \in 1..i : Lies(s, x, unit) => \E k \in 1..Len(w) : w[k] = x

LEMMA FoundNext ==
  ASSUME NEW s \in Script, NEW unit, NEW i \in 1..Len(s), NEW w, Found(w, s, unit, i - 1)
  PROVE  Found(IF Lies(s, i, unit) THEN Append(w, i) ELSE w, s, unit, i)
<1> DEFINE n == Len(s)
           N == 1..n
           L == Len(w)
           r == Append(w, i)
<1>1. n \in Nat /\ i \in Nat /\ i \in N
  BY ScriptTypes
<1>2. w \in Seq(N) /\ L \in Nat
  BY DEF Found
<1>3. \A x \in 1..i : x = i \/ x \in 1..i-1
  BY <1>1
<1>4. \A k \in 1..L : w[k] \in Nat /\ w[k] <= i - 1
  <2>1. \A k \in 1..L : w[k] \in N
    BY <1>2
  <2> QED BY <1>1, <2>1 DEF Found
<1>5. \A k \in 1..L : w[k] <= i /\ w[k] < i
  BY <1>1, <1>4
<1>6. CASE ~Lies(s, i, unit)
  BY <1>3, <1>5, <1>6 DEF Found
<1>7. CASE Lies(s, i, unit)
  <2> HIDE DEF N
  <2>1. r \in Seq(N) /\ Len(r) = L + 1 /\ r[L + 1] = i /\ \A k \in 1..L : r[k] = w[k]
    BY <1>1, <1>2, AppendProperties
  <2> HIDE DEF r, L
  <2>2. \A k \in 1..L + 1 : k = L + 1 \/ k \in 1..L
    BY <1>2
  <2>3. L + 1 \in 1..L + 1 /\ (\A k \in 1..L : k \in 1..L + 1 /\ k < L + 1 /\ ~(L + 1 < k)) /\ ~(L + 1 < L + 1)
    BY <1>2
  <2>4. /\ \A k, l \in 1..L : k < l => w[k] < w[l]
        /\ \A k \in 1..L : Lies(s, w[k], unit)
        /\ \A x \in 1..i-1 : Lies(s, x, unit) => \E k \in 1..L : w[k] = x
    BY DEF Found, L
  <2>5. \A k, l \in 1..L + 1 : k < l => r[k] < r[l]
    BY <1>5, <2>1, <2>2, <2>3, <2>4
  <2>6. \A k \in 1..L + 1 : r[k] <= i /\ Lies(s, r[k], unit)
    <3>1. i <= i
      BY <1>1
    <3> QED BY <1>5, <1>7, <2>1, <2>2, <2>4, <3>1
  <2>7. \A x \in 1..i : Lies(s, x, unit) => \E k \in 1..L + 1 : r[k] = x
    BY <1>3, <2>1, <2>3, <2>4
  <2> QED BY <1>7, <2>1, <2>5, <2>6, <2>7 DEF Found, N, r
<1> QED BY <1>6, <1>7

LEMMA WithinFinds ==
  ASSUME NEW s \in Script, NEW unit
  PROVE  Found(Within(s, unit), s, unit, Len(s))
<1> DEFINE n == Len(s)
           N == 1..n
           T == Seq(N)
           Eq(h) == h = [i \in 0..n |->
                           IF i = 0 THEN <<>>
                           ELSE IF Lies(s, i, unit) THEN Append(h[i-1], i) ELSE h[i-1]]
           g == [x \in (0+1..n) \X T |-> IF Lies(s, x[1], unit) THEN Append(x[2], x[1]) ELSE x[2]]
<1>1. n \in Nat /\ 0 \in Nat /\ 0 <= n
  BY ScriptTypes
<1>2. <<>> \in T /\ g \in [(0+1..n) \X T -> T]
  <2>1. 0 + 1 = 1
    OBVIOUS
  <2>2. \A x \in (0+1..n) \X T : x[1] \in N /\ x[2] \in T
    BY <2>1
  <2>3. \A w \in T, i \in N : Append(w, i) \in T
    <3> HIDE DEF N
    <3> QED OBVIOUS
  <2>4. \A x \in (0+1..n) \X T : (IF Lies(s, x[1], unit) THEN Append(x[2], x[1]) ELSE x[2]) \in T
    BY <2>2, <2>3
  <2> HIDE DEF T
  <2>5. <<>> \in T
    BY DEF T
  <2> QED BY <2>4, <2>5
<1>3. PICK k : Loop(k, T, <<>>, 0, n, g)
  <2> HIDE DEF n, g, T
  <2> QED BY <1>1, <1>2, LoopRuns
<1>4. k \in [0..n -> T] /\ k[0] = <<>>
  BY <1>3 DEF Loop
<1>5. \A i \in 1..n : i \in 0..n /\ i # 0 /\ i - 1 \in 0..n /\ i \in 0+1..n
  BY <1>1
<1> HIDE DEF n, T
<1>6. \A i \in 1..n : k[i] = IF Lies(s, i, unit) THEN Append(k[i-1], i) ELSE k[i-1]
  <2>1. TAKE i \in 1..n
  <2>2. k[i] = g[<<i, k[i-1]>>] /\ <<i, k[i-1]>> \in (0+1..n) \X T
    BY <1>3, <1>4, <1>5 DEF Loop
  <2> QED BY <2>2
<1>7. Eq(k)
  <2> DEFINE h == [i \in 0..n |->
                     IF i = 0 THEN <<>>
                     ELSE IF Lies(s, i, unit) THEN Append(k[i-1], i) ELSE k[i-1]]
  <2>1. \A i \in 0..n : i = 0 \/ i \in 1..n
    BY <1>1
  <2>2. \A i \in 0..n : k[i] = h[i]
    BY <1>4, <1>6, <2>1
  <2>3. k = [i \in 0..n |-> k[i]] /\ h = [i \in 0..n |-> h[i]]
    BY <1>4
  <2>4. k = h
    <3> HIDE DEF h
    <3> QED BY <2>2, <2>3
  <2> QED BY <2>4
<1> DEFINE c == CHOOSE h : Eq(h)
<1>8. Eq(c)
  <2> HIDE DEF Eq
  <2> QED BY <1>7
<1>9. Within(s, unit) = c[n]
  BY DEF Within, n
<1> HIDE DEF c
<1>10. c[0] = <<>>
  <2>1. 0 \in 0..n
    BY <1>1
  <2> QED BY <1>8, <2>1
<1>11. ASSUME NEW i \in 1..n PROVE c[i] = IF Lies(s, i, unit) THEN Append(c[i-1], i) ELSE c[i-1]
  BY <1>5, <1>8, <1>11
<1> HIDE DEF Eq
<1> DEFINE G == {i \in 0..n : Found(c[i], s, unit, i)}
<1>12. 0 \in G
  <2> DEFINE w == c[0]
  <2>1. w = <<>>
    BY <1>10
  <2> HIDE DEF w
  <2>2. w \in Seq(1..Len(s)) /\ 1..Len(w) = {} /\ 1..0 = {}
    BY <2>1
  <2>3. Found(w, s, unit, 0)
    BY <2>2 DEF Found
  <2> QED BY <1>1, <2>3 DEF w
<1>13. ASSUME NEW i \in 0+1..n, i - 1 \in G PROVE i \in G
  <2>1. i \in 1..n /\ i \in 0..n /\ i \in 1..Len(s)
    BY <1>1 DEF n
  <2> DEFINE w == c[i-1]
  <2>2. Found(w, s, unit, i - 1)
    BY <1>13
  <2>3. c[i] = IF Lies(s, i, unit) THEN Append(w, i) ELSE w
    BY <1>11, <2>1
  <2> HIDE DEF w
  <2>4. Found(c[i], s, unit, i)
    BY <2>1, <2>2, <2>3, FoundNext
  <2> QED BY <2>1, <2>4
<1> HIDE DEF G
<1>14. 0..n \subseteq G
  BY <1>1, <1>12, <1>13, Climb
<1>15. n \in 0..n
  BY <1>1
<1>16. Found(c[n], s, unit, n)
  BY <1>14, <1>15 DEF G
<1> QED BY <1>9, <1>16 DEF n

(* A unit from the end of statement lo to the end of statement hi holds    *)
(* the statements in between.                                              *)
LEMMA LiesWhere ==
  \A s \in Script : \A t : Reads(t, s) =>
    \A lo, hi \in 0..Len(s) : \A i \in 1..Len(s) : \A unit :
      unit = <<Len(t[lo]) + 1, Len(t[hi])>> =>
        (Lies(s, i, unit) <=> i \in Seqs(s) /\ lo < i /\ i <= hi)
<1> SUFFICES ASSUME NEW s \in Script, NEW t, Reads(t, s), NEW lo \in 0..Len(s),
                    NEW hi \in 0..Len(s), NEW i \in 1..Len(s), NEW unit,
                    unit = <<Len(t[lo]) + 1, Len(t[hi])>>
             PROVE  Lies(s, i, unit) <=> i \in Seqs(s) /\ lo < i /\ i <= hi
  OBVIOUS
<1> DEFINE p == Len(t[i-1])
           e == Len(t[i])
           w == Len(Mask[s[i]])
           a == Len(t[lo])
           b == Len(t[hi])
<1>1. /\ s \in Seq(DOMAIN Mask) /\ i - 1 \in 0..Len(s) /\ i \in 0..Len(s)
      /\ DOMAIN s = 1..Len(s) /\ Len(s) \in Nat
  BY ScriptTypes
<1>2. p \in Nat /\ e \in Nat /\ a \in Nat /\ b \in Nat
  BY <1>1, TextGrows
<1>3. e = p + w
  BY <1>1, TextStep
<1>4. w \in Nat /\ (s[i] \in Statement => w # 0)
  <2>1. s[i] \in DOMAIN Mask /\ (s[i] \in Statement => s[i] # "comment")
    BY <1>1 DEF Statement
  <2> QED BY <2>1, MaskTypes
<1>5. /\ i - 1 >= lo => a <= p
      /\ i <= lo => e <= a
      /\ i <= hi => e <= b
      /\ hi <= i - 1 => b <= p
  BY <1>1, TextFacts
<1>6. MaskOf(SubSeq(s, 1, i)) = t[i]
  BY <1>1, TextOfPrefix
<1>7. Lies(s, i, unit) <=> s[i] \in Statement /\ e \in a+1..b
  <2>1. unit[1] = a + 1 /\ unit[2] = b
    OBVIOUS
  <2>2. Len(MaskOf(SubSeq(s, 1, i))) = e
    BY <1>6
  <2> HIDE DEF a, b, e
  <2> QED BY <2>1, <2>2 DEF Lies
<1>8. i \in Seqs(s) <=> s[i] \in Statement
  BY <1>1 DEF Seqs
<1> HIDE DEF p, e, w, a, b
<1>9. s[i] \in Statement => (e \in a+1..b <=> lo < i /\ i <= hi)
  BY <1>1, <1>2, <1>3, <1>4, <1>5
<1> QED BY <1>7, <1>8, <1>9

(* Units that hold what stands between their bounds, the first one the     *)
(* head and the others one statement each, have the shape of the contract. *)
Bounded(w, s, lo, hi) ==
  /\ w \in Seq(1..Len(s))
  /\ \A k, l \in 1..Len(w) : k < l => w[k] < w[l]
  /\ \A k \in 1..Len(w) : w[k] \in Seqs(s) /\ lo < w[k] /\ w[k] <= hi
  /\ \A x \in Seqs(s) : lo < x /\ x <= hi => \E k \in 1..Len(w) : w[k] = x

LEMMA Bounds ==
  \A s \in Script : \A t : Reads(t, s) =>
    \A lo, hi \in 0..Len(s) : \A unit :
      unit = <<Len(t[lo]) + 1, Len(t[hi])>> => Bounded(Within(s, unit), s, lo, hi)
<1> SUFFICES ASSUME NEW s \in Script, NEW t, Reads(t, s), NEW lo \in 0..Len(s),
                    NEW hi \in 0..Len(s), NEW unit, unit = <<Len(t[lo]) + 1, Len(t[hi])>>
             PROVE  Bounded(Within(s, unit), s, lo, hi)
  OBVIOUS
<1> DEFINE w == Within(s, unit)
<1>1. Found(w, s, unit, Len(s))
  BY WithinFinds
<1>2. \A i \in 1..Len(s) : Lies(s, i, unit) <=> i \in Seqs(s) /\ lo < i /\ i <= hi
  BY LiesWhere
<1>3. \A i \in Seqs(s) : i \in 1..Len(s)
  BY ScriptTypes DEF Seqs
<1> HIDE DEF w
<1>4. \A k \in 1..Len(w) : w[k] \in 1..Len(s)
  BY <1>1 DEF Found
<1>5. Bounded(w, s, lo, hi)
  BY <1>1, <1>2, <1>3, <1>4 DEF Found, Bounded
<1> QED BY <1>5 DEF w

Divides(s, H, L, u, lo, hi) ==
  /\ u = [k \in 1..L + 1 |-> u[k]]
  /\ \A k \in 1..L + 1 : lo[k] \in 0..Len(s) /\ hi[k] \in 0..Len(s)
  /\ \A k \in 1..L + 1 : Bounded(u[k], s, lo[k], hi[k])
  /\ lo[1] = 0 /\ hi[1] = H
  /\ \A k \in 1..L + 1 : k # 1 => hi[k] = lo[k] + 1
  /\ \A k, l \in 1..L + 1 : k < l => hi[k] <= lo[l]
  /\ \A x \in Seqs(s) : x > H => \E k \in 1..L + 1 : k # 1 /\ hi[k] = x

LEMMA ShapeOfBounds ==
  ASSUME NEW s \in Script, NEW L \in Nat, NEW u, NEW lo, NEW hi,
         Divides(s, HeadLast(s), L, u, lo, hi)
  PROVE  Shape(s, u)
<1> DEFINE D == 1..L + 1
           H == HeadLast(s)
<1> USE DEF Divides
<1>1. /\ \A x \in Seqs(s) : x \in 1..Len(s) /\ x \in Nat
      /\ Len(s) \in Nat /\ H \in Nat
  BY ScriptTypes, HeadIs DEF Seqs
<1>2. \A k \in D : lo[k] \in Nat /\ hi[k] \in Nat /\ k \in Nat
  BY <1>1
<1>3. DOMAIN u = D /\ 1 \in D
  OBVIOUS
<1>4. \A k \in D : u[k] \in Seq(1..Len(s)) /\ u[k] \in Seq(Nat) /\ Len(u[k]) \in Nat
                   /\ DOMAIN u[k] = 1..Len(u[k])
  <2>1. \A k \in D : u[k] \in Seq(1..Len(s))
    BY DEF Bounded
  <2>2. \A w \in Seq(1..Len(s)) : w \in Seq(Nat) /\ Len(w) \in Nat /\ DOMAIN w = 1..Len(w)
    OBVIOUS
  <2> QED BY <2>1, <2>2
<1>5. u \in Seq(Seq(Nat)) /\ u # <<>>
  <2> DEFINE V == Seq(Nat)
  <2>1. \A k \in D : u[k] \in V
    BY <1>4
  <2>0. u = [k \in 1..L + 1 |-> u[k]]
    OBVIOUS
  <2> HIDE DEF V, Divides
  <2>2. u \in Seq(V) /\ Len(u) = L + 1
    BY <2>0, <2>1
  <2>3. u # <<>>
    BY <2>2
  <2> QED BY <2>2, <2>3 DEF V
<1>6. ASSUME NEW k \in D, NEW j \in DOMAIN u[k]
      PROVE  /\ u[k][j] \in Seqs(s) /\ u[k][j] \in Nat /\ j \in Nat
             /\ lo[k] < u[k][j] /\ u[k][j] <= hi[k]
  <2>1. j \in 1..Len(u[k]) /\ Bounded(u[k], s, lo[k], hi[k])
    BY <1>4
  <2> QED BY <1>1, <2>1 DEF Bounded
<1>7. \A k \in D : k # 1 => H <= lo[k]
  <2>1. \A k \in D : k # 1 => 1 < k
    OBVIOUS
  <2> QED BY <1>3, <2>1
<1>8. ASSUME NEW k \in D, NEW j \in DOMAIN u[k]
      PROVE  u[k][j] \in HeadPart(s) <=> k = 1
  <2>1. u[k][j] \in HeadPart(s) <=> u[k][j] <= H
    BY <1>6 DEF HeadPart
  <2>2. CASE k = 1
    BY <1>6, <2>1, <2>2
  <2>3. CASE k # 1
    BY <1>1, <1>2, <1>6, <1>7, <2>1, <2>3
  <2> QED BY <2>2, <2>3
<1>9. ASSUME NEW k \in D, k > 1 PROVE Len(u[k]) <= 1
  <2>1. SUFFICES ASSUME ~(Len(u[k]) <= 1) PROVE FALSE
    OBVIOUS
  <2>2. 1 \in 1..Len(u[k]) /\ 2 \in 1..Len(u[k])
    <3> DEFINE len == Len(u[k])
    <3>1. len \in Nat /\ ~(len <= 1)
      BY <1>4, <2>1
    <3> HIDE DEF len
    <3> QED BY <3>1 DEF len
  <2> DEFINE a == u[k][1]
             b == u[k][2]
  <2>3. a < b
    <3>1. \A i, j \in 1..Len(u[k]) : i < j => u[k][i] < u[k][j]
      BY DEF Bounded
    <3>2. \A i, j \in 1..Len(u[k]) : i = 1 /\ j = 2 => i < j
      OBVIOUS
    <3> QED BY <2>2, <3>1, <3>2
  <2>4. a \in Nat /\ b \in Nat /\ lo[k] < a /\ b <= hi[k]
    BY <1>4, <1>6, <2>2
  <2>5. hi[k] = lo[k] + 1 /\ lo[k] \in Nat
    BY <1>2, <1>9
  <2> HIDE DEF a, b
  <2> QED BY <2>3, <2>4, <2>5
<1>10. ASSUME NEW k \in D, NEW l \in D, NEW i \in DOMAIN u[k], NEW j \in DOMAIN u[l]
       PROVE  u[k][i] < u[l][j] <=> k < l \/ (k = l /\ i < j)
  <2> DEFINE x == u[k][i]
             y == u[l][j]
  <2>1. x \in Nat /\ y \in Nat /\ i \in Nat /\ j \in Nat
        /\ lo[k] < x /\ x <= hi[k] /\ lo[l] < y /\ y <= hi[l]
    BY <1>6
  <2>2. /\ lo[k] \in Nat /\ hi[k] \in Nat /\ lo[l] \in Nat /\ hi[l] \in Nat /\ k \in Nat /\ l \in Nat
    BY <1>2
  <2>3. CASE k < l
    <3>1. hi[k] <= lo[l]
      BY <2>3
    <3> HIDE DEF x, y
    <3>2. x < y
      BY <2>1, <2>2, <3>1
    <3> QED BY <2>3, <3>2 DEF x, y
  <2>4. CASE l < k
    <3>1. hi[l] <= lo[k]
      BY <2>4
    <3> HIDE DEF x, y
    <3>2. ~(x < y) /\ ~(k < l) /\ k # l
      BY <2>1, <2>2, <2>4, <3>1
    <3> QED BY <3>2 DEF x, y
  <2>5. CASE k = l
    <3>1. i \in 1..Len(u[k]) /\ j \in 1..Len(u[k])
      BY <1>4, <2>5
    <3>2. (i < j => x < y) /\ (j < i => y < x)
      BY <2>5, <3>1 DEF Bounded
    <3>3. i = j => x = y
      BY <2>5
    <3> HIDE DEF x, y
    <3>4. x < y <=> i < j
      BY <2>1, <3>2, <3>3
    <3>5. ~(k < l)
      BY <2>2, <2>5
    <3> QED BY <2>5, <3>4, <3>5 DEF x, y
  <2> QED BY <2>2, <2>3, <2>4, <2>5
<1>11. ASSUME NEW x \in Seqs(s) PROVE \E k \in D : \E j \in DOMAIN u[k] : u[k][j] = x
  <2>1. \E k \in D : lo[k] < x /\ x <= hi[k]
    <3>1. CASE x <= H
      <4>1. 0 < x
        BY <1>1
      <4> QED BY <1>3, <3>1, <4>1
    <3>2. CASE x > H
      <4>1. PICK k \in D : k # 1 /\ hi[k] = x
        BY <3>2
      <4>2. hi[k] = lo[k] + 1 /\ lo[k] \in Nat
        BY <1>2, <4>1
      <4> QED BY <4>1, <4>2
    <3> QED BY <1>1, <3>1, <3>2
  <2>2. PICK k \in D : lo[k] < x /\ x <= hi[k]
    BY <2>1
  <2>3. \E j \in 1..Len(u[k]) : u[k][j] = x
    BY <2>2 DEF Bounded
  <2> QED BY <1>4, <2>2, <2>3
<1> HIDE DEF D
<1> QED BY <1>3, <1>5, <1>6, <1>8, <1>9, <1>10, <1>11 DEF Shape

(* The units the splitter cuts have the shape of the contract.             *)
LEMMA ShapeOfUnits ==
  ASSUME NEW s \in Script
  PROVE  Shape(s, UnitStatements(s))
<1> DEFINE n == Len(s)
           H == HeadLast(s)
<1>1. n \in Nat /\ s \in Seq(DOMAIN Mask) /\ H \in 0..n
  BY ScriptTypes, HeadIs
<1>2. PICK t : Reads(t, s) /\ MaskOf(s) = t[n]
  BY <1>1, MaskOfReads
<1>3. PICK q : Cuts(q, s, t, H)
  BY <1>1, <1>2, Cutting
<1> DEFINE L == Len(q)
           u == SplitExecutionUnits(t[n])
           w == UnitStatements(s)
           lo == [k \in 1..L + 1 |-> IF k = 1 THEN 0 ELSE q[k-1] - 1]
           hi == [k \in 1..L + 1 |-> IF k = 1 THEN H ELSE q[k-1]]
<1>4. Parts(u, s, q, t)
  BY <1>2, <1>3, PartsAre
<1>5. L \in Nat /\ \A j \in 1..L : q[j] \in H+1..n /\ q[j] \in 1..n
  BY <1>1, <1>2, <1>3, CutTypes
<1> HIDE DEF u
<1>6. w = [k \in 1..L + 1 |-> Within(s, u[k])]
  BY <1>2, <1>4 DEF UnitStatements, StatementsOf, Parts, u
<1> HIDE DEF w, n, L
<1>7. w = [k \in 1..L + 1 |-> w[k]] /\ \A k \in 1..L + 1 : w[k] = Within(s, u[k])
  BY <1>6
<1>8. 1 \in 1..L + 1 /\ \A k \in 1..L + 1 : k = 1 \/ (k # 1 /\ k - 1 \in 1..L /\ (k - 1) + 1 = k)
  BY <1>5
<1>9. lo[1] = 0 /\ hi[1] = H
  BY <1>8
<1>10. \A k \in 1..L + 1 : k # 1 => lo[k] = q[k-1] - 1 /\ hi[k] = q[k-1]
  OBVIOUS
<1> HIDE DEF lo, hi, H
<1>11. \A k \in 1..L + 1 : lo[k] \in 0..n /\ hi[k] \in 0..n
  <2>1. TAKE k \in 1..L + 1
  <2>2. CASE k = 1
    BY <1>1, <1>9, <2>2
  <2>3. CASE k # 1
    <3>1. q[k-1] \in 1..n
      BY <1>5, <1>8, <2>3
    <3> QED BY <1>1, <1>10, <2>3, <3>1
  <2> QED BY <2>2, <2>3
<1>12. ASSUME NEW k \in 1..L + 1 PROVE u[k] = <<Len(t[lo[k]]) + 1, Len(t[hi[k]])>>
  <2>1. CASE k = 1
    <3>1. u[1] = <<1, Len(t[H])>>
      BY <1>4 DEF Parts, UnitAt, H
    <3>2. Len(t[0]) + 1 = 1
      BY <1>2 DEF Reads
    <3> QED BY <1>9, <2>1, <3>1, <3>2
  <2>2. CASE k # 1
    <3> DEFINE j == k - 1
    <3>1. j \in 1..L /\ j + 1 = k
      BY <1>8, <2>2
    <3>2. lo[k] = q[j] - 1 /\ hi[k] = q[j]
      BY <1>10, <2>2
    <3> HIDE DEF j
    <3>3. UnitAt(u, j + 1, Len(t[q[j]-1]) + 1, Len(t[q[j]]))
      BY <1>4, <3>1 DEF Parts, L
    <3> QED BY <3>1, <3>2, <3>3 DEF UnitAt
  <2> QED BY <2>1, <2>2
<1>13. ASSUME NEW k \in 1..L + 1 PROVE Bounded(w[k], s, lo[k], hi[k])
  <2> DEFINE a == lo[k]
             b == hi[k]
             r == u[k]
  <2>1. a \in 0..Len(s) /\ b \in 0..Len(s) /\ r = <<Len(t[a]) + 1, Len(t[b])>>
    BY <1>11, <1>12 DEF n
  <2>2. w[k] = Within(s, r)
    BY <1>7
  <2> HIDE DEF a, b, r
  <2>3. Bounded(Within(s, r), s, a, b)
    BY <1>2, <2>1, Bounds
  <2> QED BY <2>2, <2>3 DEF a, b
<1>14. \A k \in 1..L + 1 : k # 1 => hi[k] = lo[k] + 1
  <2>1. TAKE k \in 1..L + 1
  <2>2. SUFFICES ASSUME k # 1 PROVE hi[k] = lo[k] + 1
    OBVIOUS
  <2>3. q[k-1] \in 1..n
    BY <1>5, <1>8, <2>2
  <2> QED BY <1>1, <1>10, <2>2, <2>3
<1>15. /\ \A i, j \in 1..L : i < j => q[i] < q[j]
       /\ \A x \in H+1..n : s[x] # "comment" => \E k \in 1..L : q[k] = x
  BY <1>3 DEF Cuts, Lists, H, L, n
<1>16. \A k, l \in 1..L + 1 : k < l => hi[k] <= lo[l]
  <2>1. TAKE k, l \in 1..L + 1
  <2>2. SUFFICES ASSUME k < l PROVE hi[k] <= lo[l]
    OBVIOUS
  <2> DEFINE j == l - 1
             i == k - 1
  <2>3. j \in 1..L /\ (k = 1 \/ (i \in 1..L /\ i < j /\ k # 1)) /\ l # 1
    BY <1>5, <2>2
  <2>4. lo[l] = q[j] - 1 /\ (k # 1 => hi[k] = q[i])
    BY <1>10, <2>3
  <2> HIDE DEF i, j
  <2>5. q[j] \in H+1..n
    BY <1>5, <2>3
  <2>6. CASE k = 1
    BY <1>1, <1>9, <2>4, <2>5, <2>6
  <2>7. CASE k # 1
    <3>1. q[i] < q[j] /\ q[i] \in 1..n
      BY <1>5, <1>15, <2>3, <2>7
    <3> QED BY <1>1, <2>4, <2>5, <2>7, <3>1
  <2> QED BY <2>6, <2>7
<1>17. \A x \in Seqs(s) : x > H => \E k \in 1..L + 1 : k # 1 /\ hi[k] = x
  <2>1. TAKE x \in Seqs(s)
  <2>2. SUFFICES ASSUME x > H PROVE \E k \in 1..L + 1 : k # 1 /\ hi[k] = x
    OBVIOUS
  <2>3. x \in 1..n /\ s[x] # "comment"
    BY ScriptTypes DEF Seqs, Statement, n
  <2>4. x \in H+1..n
    BY <1>1, <2>2, <2>3
  <2>5. PICK j \in 1..L : q[j] = x
    BY <1>15, <2>3, <2>4
  <2> DEFINE k == j + 1
  <2>6. k \in 1..L + 1 /\ k # 1 /\ k - 1 = j
    BY <1>5
  <2> HIDE DEF k
  <2>7. hi[k] = x
    BY <1>10, <2>5, <2>6
  <2> QED BY <2>6, <2>7
<1>18. Divides(s, H, L, w, lo, hi)
  BY <1>7, <1>9, <1>11, <1>13, <1>14, <1>16, <1>17 DEF Divides, n
<1>19. Shape(s, w)
  BY <1>5, <1>18, ShapeOfBounds DEF H
<1> QED BY <1>19 DEF w

----------------------------------------------------------------------------
(* The behaviours                                                          *)

(* MCSplitEndColumn shows the one case ClosesBody misreads: a column named *)
(* by END in a function body.  What follows is about every other script.   *)
Readable == "end_column" \notin Kinds

LEMMA ScriptsAreReadable ==
  ASSUME Readable, NEW s \in Seq(Kinds)
  PROVE  s \in Script
<1>1. \A k \in Kinds : k \in DOMAIN Mask \ {"end_column"}
  BY KindsHaveMasks DEF Readable
<1> DEFINE V == DOMAIN Mask \ {"end_column"}
<1> HIDE DEF V
<1>2. s \in Seq(V)
  <2>1. \A i \in 1..Len(s) : s[i] \in V
    BY <1>1 DEF V
  <2> QED BY <2>1
<1> QED BY <1>2 DEF Script, V

LEMMA PsqlInit ==
  ASSUME Init
  PROVE  PsqlInv
<1>1. <<>> \in Seq(Kinds) /\ Len(<<>>) = 0 /\ 0 <= MaxLen
  BY MaxLenIsNat
<1> QED BY <1>1 DEF Init, PsqlInv

LEMMA SplitStep ==
  ASSUME Readable, PsqlInv, Split
  PROVE  Running'
<1> DEFINE u == UnitStatements(script)
<1>1. /\ script \in Seq(Kinds) /\ sent = 0 /\ at = 1 /\ block = "none"
      /\ pending = {} /\ durable = {} /\ result = NoResult
  BY DEF PsqlInv, Split
<1>2. UNCHANGED <<script, sent, at, block, pending, durable, result>> /\ units' = u
  BY DEF Split
<1>3. Shape(script, u)
  BY <1>1, ScriptsAreReadable, ShapeOfUnits
<1> HIDE DEF u
<1>4. u \in Seq(Seq(Nat)) /\ u # <<>>
  BY <1>3 DEF Shape
<1>5. Executed(u, 0, 1) = {}
  <2>1. SUFFICES ASSUME NEW k \in DOMAIN u, NEW j \in DOMAIN u[k], k <= 0 \/ (k = 0 + 1 /\ j < 1)
                 PROVE  FALSE
    BY DEF Executed
  <2>2. k \in Nat /\ k >= 1 /\ j \in Nat /\ j >= 1
    BY <1>4, UnitTypes
  <2> QED BY <2>1, <2>2
<1>6. Position(u, 0, 1)
  <2>1. Len(u) \in Nat /\ 0 < Len(u) /\ 1 \in DOMAIN u
    BY <1>4
  <2>2. Len(u[1]) \in Nat
    BY <1>4, <2>1, UnitTypes
  <2>3. 1 <= Len(u[0+1]) + 1
    BY <2>2
  <2> QED BY <2>1, <2>3 DEF Position
<1>7. Block(script, u, 0, 1, "none")
  BY <1>5 DEF Block, OpenTx
<1>8. Written(script, u, 0, 1) = {}
  BY <1>5 DEF Written
<1> QED BY <1>1, <1>2, <1>3, <1>5, <1>6, <1>7, <1>8 DEF Running

LEMMA PsqlStep ==
  ASSUME Readable, PsqlInv, [Next]_vars
  PROVE  PsqlInv'
<1>1. script \in Seq(Kinds) /\ Len(script) <= MaxLen
  BY DEF PsqlInv
<1>2. CASE Author
  <2>1. PICK k \in Kinds : script' = Append(script, k)
    BY <1>2 DEF Author
  <2>2. script' \in Seq(Kinds) /\ Len(script') = Len(script) + 1
    BY <1>1, <2>1
  <2>3. Len(script) \in Nat /\ Len(script) < MaxLen
    BY <1>1, <1>2 DEF Author
  <2>4. Len(script') <= MaxLen
    BY <2>2, <2>3, MaxLenIsNat
  <2> QED BY <1>2, <2>2, <2>4 DEF Author, PsqlInv
<1>3. CASE Split
  <2>1. Running'
    BY <1>3, SplitStep
  <2> QED BY <1>1, <1>3, <2>1 DEF Split, PsqlInv
<1>4. CASE ExecStatement
  <2>1. phase = "running" /\ UNCHANGED <<script, phase>>
    BY <1>4 DEF ExecStatement, InMessage
  <2>2. Running'
    BY <1>1, <1>4, <2>1, ExecStep DEF PsqlInv
  <2> QED BY <1>1, <2>1, <2>2 DEF PsqlInv
<1>5. CASE UnitDone
  <2>1. phase = "running" /\ UNCHANGED <<script, phase>>
    BY <1>5 DEF UnitDone
  <2>2. Running'
    BY <1>1, <1>5, <2>1, DoneStep DEF PsqlInv
  <2> QED BY <1>1, <2>1, <2>2 DEF PsqlInv
<1>6. CASE UnitFailed
  <2>1. phase = "running" /\ phase' = "ended" /\ UNCHANGED script
    BY <1>6 DEF UnitFailed, InMessage
  <2>2. Ended'
    BY <1>1, <1>6, <2>1, FailedStep DEF PsqlInv
  <2> QED BY <1>1, <2>1, <2>2 DEF PsqlInv
<1>7. CASE AllSent
  <2>1. phase = "running" /\ phase' = "ended" /\ UNCHANGED script
    BY <1>7 DEF AllSent
  <2>2. Ended'
    BY <1>1, <1>7, <2>1, SentStep DEF PsqlInv
  <2> QED BY <1>1, <2>1, <2>2 DEF PsqlInv
<1>8. CASE Close
  <2>1. /\ Ended /\ phase' = "closed" /\ block' = "none" /\ pending' = {}
        /\ UNCHANGED <<script, units, sent, at, durable, result>>
    BY <1>8 DEF Close, PsqlInv
  <2>2. Ended'
    BY <2>1 DEF Ended
  <2> QED BY <1>1, <2>1, <2>2 DEF PsqlInv
<1>9. CASE UNCHANGED vars
  <2>1. Running => Running'
    BY <1>9 DEF Running, vars
  <2>2. Ended => Ended'
    BY <1>9 DEF Ended, vars
  <2> QED BY <1>1, <1>9, <2>1, <2>2 DEF PsqlInv, vars
<1> QED BY <1>2, <1>3, <1>4, <1>5, <1>6, <1>7, <1>8, <1>9 DEF Next, Closed

LEMMA PsqlAlways ==
  ASSUME Readable
  PROVE  Spec => []PsqlInv
<1>1. Init => PsqlInv
  BY PsqlInit
<1>2. PsqlInv /\ [Next]_vars => PsqlInv'
  BY PsqlStep
<1> QED BY <1>1, <1>2, PTL DEF Spec

(* Every variable keeps its type, a write is never both pending and        *)
(* durable, and ReleaseDeployLock leaves no transaction open behind it.    *)
THEOREM TypeCorrect ==
  ASSUME Readable
  PROVE  Spec => []TypeOK
<1>1. PsqlInv => TypeOK
  <2> SUFFICES ASSUME PsqlInv PROVE TypeOK
    OBVIOUS
  <2>1. script \in Seq(Kinds) /\ Len(script) <= MaxLen
    BY DEF PsqlInv
  <2>2. CASE phase = "writing"
    BY <2>1, <2>2 DEF PsqlInv, TypeOK, NoResult
  <2>3. CASE phase = "running"
    <3>1. Running /\ result = NoResult
      BY <2>3 DEF PsqlInv, Running
    <3> QED BY <2>1, <2>3, <3>1, RunningTypes DEF TypeOK, NoResult
  <2>4. CASE phase \in {"ended", "closed"}
    <3>1. durable \subseteq DOMAIN script
      BY <2>4 DEF PsqlInv, Ended, Documented, Seqs
    <3> QED BY <2>1, <2>4, <3>1 DEF PsqlInv, Ended, TypeOK
  <2> QED BY <2>2, <2>3, <2>4 DEF PsqlInv
<1> QED BY <1>1, PsqlAlways, PTL

(* SplitExecutionUnits recovers the author's statements: the head through  *)
(* the first terminator in one unit, every later statement in its own,     *)
(* whatever parentheses, function bodies and noise words stand around them.*)
THEOREM SplitCorrect ==
  ASSUME Readable
  PROVE  Spec => []SplitHonoursContract
<1>1. PsqlInv => SplitHonoursContract
  <2> SUFFICES ASSUME PsqlInv PROVE SplitHonoursContract
    OBVIOUS
  <2>1. script \in Script
    BY ScriptsAreReadable DEF PsqlInv
  <2> QED BY <2>1, SplitRecovers DEF SplitHonoursContract
<1> QED BY <1>1, PsqlAlways, PTL

(* When the session is closed, executeDeploySQL has left durable exactly   *)
(* what the execution contract says of the script, failures included, and  *)
(* a result of mode "atomic" means that nothing was applied.               *)
THEOREM DurableCorrect ==
  ASSUME Readable
  PROVE  Spec => []DurableAsDocumented
<1>1. PsqlInv => DurableAsDocumented
  <2> SUFFICES ASSUME PsqlInv PROVE DurableAsDocumented
    OBVIOUS
  <2>1. phase \in {"writing", "running"} => result.mode # "atomic"
    BY DEF PsqlInv, Running, NoResult
  <2> QED BY <2>1 DEF PsqlInv, Ended, DurableAsDocumented
<1> QED BY <1>1, PsqlAlways, PTL
----------------------------------------------------------------------------

(* What a walk makes of a line and column at a character.                  *)
Onward(c, x) == IF c = "\n" THEN <<x[1] + 1, 1>> ELSE <<x[1], x[2] + 1>>

(* w holds the line and column behind each of the first n characters.      *)
Walk(w, t, n) ==
  /\ w \in [0..n -> Nat \X Nat]
  /\ w[0] = <<1, 1>>
  /\ \A i \in 1..n : w[i] = Onward(t[i], w[i-1])

(* resolvePosition's walk.                                                 *)
LEMMA PositionWalks ==
  ASSUME NEW t, NEW p \in Nat \ {0}
  PROVE  \E w : Walk(w, t, p - 1) /\ ResolvePosition(t, p) = w[p-1]
<1> DEFINE n == p - 1
           T == Nat \X Nat
           a == <<1, 1>>
           Eq(h) == h = [i \in 0..n |-> IF i = 0 THEN <<1, 1>>
                                        ELSE IF t[i] = "\n" THEN <<h[i-1][1] + 1, 1>>
                                        ELSE <<h[i-1][1], h[i-1][2] + 1>>]
           g == [x \in (0+1..n) \X T |-> Onward(t[x[1]], x[2])]
<1>1. n \in Nat /\ a \in T
  OBVIOUS
<1>2. g \in [(0+1..n) \X T -> T]
  BY DEF Onward
<1>3. PICK k : Loop(k, T, a, 0, n, g)
  <2> HIDE DEF n, g, T, a
  <2>1. 0 \in Nat /\ 0 <= n
    BY <1>1
  <2> QED BY <1>1, <1>2, <2>1, LoopRuns
<1>4. Walk(k, t, n)
  <2>1. k \in [0..n -> T] /\ k[0] = a /\ \A i \in 0+1..n : k[i] = g[<<i, k[i-1]>>]
    <3> HIDE DEF n, g, T, a
    <3> QED BY <1>3 DEF Loop
  <2>2. ASSUME NEW i \in 1..n PROVE k[i] = Onward(t[i], k[i-1])
    <3>1. i \in 0+1..n /\ i - 1 \in 0..n
      BY <1>1
    <3>2. k[i-1] \in T
      BY <2>1, <3>1
    <3>3. <<i, k[i-1]>> \in (0+1..n) \X T
      BY <3>1, <3>2
    <3> HIDE DEF n, T
    <3> QED BY <2>1, <3>1, <3>3
  <2> QED BY <2>1, <2>2 DEF Walk
<1>5. Eq(k)
  <2>1. k = [i \in 0..n |-> k[i]]
    BY <1>4 DEF Walk
  <2>2. ASSUME NEW i \in 0..n
        PROVE  k[i] = IF i = 0 THEN <<1, 1>>
                      ELSE IF t[i] = "\n" THEN <<k[i-1][1] + 1, 1>>
                      ELSE <<k[i-1][1], k[i-1][2] + 1>>
    <3>1. CASE i = 0
      BY <1>4, <3>1 DEF Walk
    <3>2. CASE i # 0
      <4>1. i \in 1..n
        BY <1>1, <3>2
      <4> QED BY <1>4, <3>2, <4>1 DEF Walk, Onward
    <3> QED BY <3>1, <3>2
  <2> HIDE DEF n
  <2> QED BY <2>1, <2>2
<1>6. ASSUME NEW h, Eq(h) PROVE h = k
  <2>1. h[0] = <<1, 1>> /\ \A i \in 1..n : h[i] = Onward(t[i], h[i-1])
    <3>1. 0 \in 0..n /\ \A i \in 1..n : i \in 0..n /\ i # 0
      BY <1>1
    <3> HIDE DEF n
    <3> QED BY ONLY <1>6, <3>1 DEF Eq, Onward
  <2> DEFINE G == {i \in 0..n : h[i] = k[i]}
  <2>2. 0 \in G
    <3>1. 0 \in 0..n
      BY <1>1
    <3> HIDE DEF n
    <3> QED BY <1>4, <2>1, <3>1 DEF Walk
  <2>3. \A i \in 0+1..n : i - 1 \in G => i \in G
    <3> TAKE i \in 0+1..n
    <3> HAVE i - 1 \in G
    <3>1. i \in 1..n /\ i \in 0..n
      BY <1>1
    <3>2. h[i] = Onward(t[i], h[i-1]) /\ k[i] = Onward(t[i], k[i-1]) /\ h[i-1] = k[i-1]
      BY <1>4, <2>1, <3>1 DEF Walk
    <3> QED BY <3>1, <3>2
  <2>4. 0..n \subseteq G
    <3> HIDE DEF G, n
    <3>1. 0 \in Nat /\ 0 <= n
      BY <1>1
    <3> QED BY <1>1, <2>2, <2>3, <3>1, Climb
  <2>5. \A i \in 0..n : h[i] = k[i]
    BY <2>4
  <2>6. h = [i \in 0..n |-> h[i]] /\ k = [i \in 0..n |-> k[i]]
    BY <1>4, <1>6 DEF Walk
  <2> HIDE DEF n
  <2> QED BY ONLY <2>5, <2>6
<1>7. ResolvePosition(t, p) = (CHOOSE h : Eq(h))[n]
  BY DEF ResolvePosition
<1>8. (CHOOSE h : Eq(h)) = k
  <2> HIDE DEF Eq
  <2> QED BY <1>5, <1>6
<1> QED BY <1>4, <1>7, <1>8

(* The newlines among the first i characters, and the last of them.        *)
LineBreaks(t, i) == {k \in 1..i : t[k] = "\n"}
LastBreak(t, i) == IF LineBreaks(t, i) = {} THEN 0 ELSE Max(LineBreaks(t, i))

LEMMA MaxOf ==
  ASSUME NEW S \in SUBSET Nat, NEW m \in S, \A x \in S : x <= m
  PROVE  Max(S) = m
<1>1. \A y \in S : (\A x \in S : y >= x) => y = m
  OBVIOUS
<1>2. \A x \in S : m >= x
  OBVIOUS
<1>3. Max(S) \in S /\ \A y \in S : Max(S) >= y
  BY <1>2 DEF Max
<1> QED BY <1>1, <1>3

LEMMA FiniteMax ==
  ASSUME NEW n \in Nat, NEW S \in SUBSET (1..n), S # {}
  PROVE  Max(S) \in S /\ \A x \in S : x <= Max(S)
<1> DEFINE B == {n - x : x \in S}
<1>1. B \in SUBSET Nat /\ B # {}
  <2>1. \A x \in S : n - x \in Nat
    OBVIOUS
  <2>2. \E x \in S : n - x \in B
    OBVIOUS
  <2> QED BY <2>1, <2>2
<1>2. PICK b \in B : \A c \in B : b <= c
  BY <1>1, Least
<1>3. PICK m \in S : b = n - m
  BY <1>2
<1>4. \A x \in S : x <= m
  <2> TAKE x \in S
  <2>1. n - x \in B
    OBVIOUS
  <2> QED BY <1>2, <1>3, <2>1
<1>5. S \in SUBSET Nat
  OBVIOUS
<1> QED BY <1>3, <1>4, <1>5, MaxOf

(* One character more.                                                     *)
LEMMA BreaksOn ==
  ASSUME NEW t, NEW i \in Nat \ {0}
  PROVE  /\ IsFiniteSet(LineBreaks(t, i-1)) /\ IsFiniteSet(LineBreaks(t, i))
         /\ Cardinality(LineBreaks(t, i-1)) \in Nat
         /\ t[i] = "\n" => /\ Cardinality(LineBreaks(t, i)) = Cardinality(LineBreaks(t, i-1)) + 1
                           /\ LastBreak(t, i) = i
         /\ t[i] # "\n" => LineBreaks(t, i) = LineBreaks(t, i-1)
<1>1. IsFiniteSet(1..i-1)
  BY FS_Interval
<1>2. IsFiniteSet(LineBreaks(t, i-1))
  BY <1>1, FS_Subset DEF LineBreaks
<1>3. Cardinality(LineBreaks(t, i-1)) \in Nat
  BY <1>2, FS_CardinalityType
<1>4. IsFiniteSet(1..i)
  BY FS_Interval
<1>5. IsFiniteSet(LineBreaks(t, i))
  BY <1>4, FS_Subset DEF LineBreaks
<1>6. ASSUME t[i] = "\n"
      PROVE  /\ Cardinality(LineBreaks(t, i)) = Cardinality(LineBreaks(t, i-1)) + 1
             /\ LastBreak(t, i) = i
  <2>1. LineBreaks(t, i) = LineBreaks(t, i-1) \cup {i} /\ i \notin LineBreaks(t, i-1)
    BY <1>6 DEF LineBreaks
  <2>2. LineBreaks(t, i) \in SUBSET Nat /\ i \in LineBreaks(t, i) /\ \A x \in LineBreaks(t, i) : x <= i
    BY <1>6 DEF LineBreaks
  <2>3. Max(LineBreaks(t, i)) = i
    BY <2>2, MaxOf
  <2> QED BY <1>2, <2>1, <2>2, <2>3, FS_AddElement DEF LastBreak
<1>7. ASSUME t[i] # "\n" PROVE LineBreaks(t, i) = LineBreaks(t, i-1)
  BY <1>7 DEF LineBreaks
<1> QED BY <1>2, <1>3, <1>5, <1>6, <1>7

(* A walk counts the newlines, and the characters behind the last of them. *)
LEMMA WalkCounts ==
  ASSUME NEW t, NEW n \in Nat, NEW w, Walk(w, t, n), NEW i \in 0..n
  PROVE  /\ Cardinality(LineBreaks(t, i)) \in Nat
         /\ w[i] = <<Cardinality(LineBreaks(t, i)) + 1, i - LastBreak(t, i) + 1>>
<1> DEFINE G == {j \in 0..n : /\ Cardinality(LineBreaks(t, j)) \in Nat
                             /\ w[j] = <<Cardinality(LineBreaks(t, j)) + 1, j - LastBreak(t, j) + 1>>}
<1>1. 0 \in G
  <2>1. LineBreaks(t, 0) = {}
    BY DEF LineBreaks
  <2>2. Cardinality(LineBreaks(t, 0)) = 0 /\ LastBreak(t, 0) = 0
    BY <2>1, FS_EmptySet DEF LastBreak
  <2>3. w[0] = <<1, 1>>
    BY DEF Walk
  <2> QED BY <2>2, <2>3
<1>2. \A j \in 0+1..n : j - 1 \in G => j \in G
  <2> TAKE j \in 0+1..n
  <2> HAVE j - 1 \in G
  <2>1. j \in Nat \ {0} /\ j \in 1..n /\ j \in 0..n
    OBVIOUS
  <2>2. w[j] = Onward(t[j], w[j-1])
    BY <2>1 DEF Walk
  <2> DEFINE c == Cardinality(LineBreaks(t, j-1))
             l == LastBreak(t, j-1)
  <2>3. w[j-1] = <<c + 1, (j-1) - l + 1>> /\ c \in Nat
    OBVIOUS
  <2>4. CASE t[j] = "\n"
    <3>1. Cardinality(LineBreaks(t, j)) = c + 1 /\ LastBreak(t, j) = j
      BY <2>1, <2>4, BreaksOn
    <3>2. w[j] = <<c + 2, 1>>
      BY <2>2, <2>3, <2>4 DEF Onward
    <3> HIDE DEF c, l
    <3> QED BY <2>1, <2>3, <3>1, <3>2
  <2>5. CASE t[j] # "\n"
    <3>1. LineBreaks(t, j) = LineBreaks(t, j-1)
      BY <2>1, <2>5, BreaksOn
    <3>2. Cardinality(LineBreaks(t, j)) = c /\ LastBreak(t, j) = l
      BY <3>1 DEF LastBreak
    <3>3. w[j] = <<c + 1, ((j-1) - l + 1) + 1>>
      BY <2>2, <2>3, <2>5 DEF Onward
    <3>4. l \in Nat
      <4> HIDE DEF c
      <4>1. LineBreaks(t, j-1) \in SUBSET (1..j-1) /\ j - 1 \in Nat
        BY <2>1 DEF LineBreaks
      <4>2. CASE LineBreaks(t, j-1) = {}
        BY <4>2 DEF LastBreak
      <4>3. CASE LineBreaks(t, j-1) # {}
        <5>1. Max(LineBreaks(t, j-1)) \in LineBreaks(t, j-1)
          BY <4>1, <4>3, FiniteMax
        <5> QED BY <4>1, <4>3, <5>1 DEF LastBreak
      <4> QED BY <4>2, <4>3
    <3> HIDE DEF c, l
    <3>5. ((j-1) - l + 1) + 1 = j - l + 1
      BY <2>1, <3>4
    <3> QED BY <2>1, <2>3, <3>2, <3>3, <3>5
  <2> QED BY <2>4, <2>5
<1>3. 0..n \subseteq G
  <2> HIDE DEF G
  <2>1. 0 \in Nat /\ 0 <= n
    OBVIOUS
  <2> QED BY <1>1, <1>2, <2>1, Climb
<1> QED BY <1>3

(* A space for each byte, which is one for each character of ASCII text.   *)
LEMMA SpacesAre ==
  ASSUME NEW S, NEW s \in Seq(S)
  PROVE  /\ Len(Spaces(s)) \in Nat
         /\ Spaces(s) = [i \in 1..Len(Spaces(s)) |-> Space]
         /\ TwoByte \notin Range(s) => Len(Spaces(s)) = Len(s)
<1> DEFINE n == Len(s)
           marks == {k \in 1..n : s[k] = TwoByte}
           bytes == n + Cardinality(marks)
<1>1. n \in Nat /\ DOMAIN s = 1..n
  OBVIOUS
<1>2. (n + 1) - 1 = n
  BY <1>1
<1>3. ByteAt(s, Len(s) + 1) = bytes
  BY <1>2 DEF ByteAt
<1>4. IsFiniteSet(1..n) /\ marks \in SUBSET (1..n)
  <2>1. marks \in SUBSET (1..n)
    OBVIOUS
  <2> HIDE DEF n, marks
  <2>2. IsFiniteSet(1..n)
    BY <1>1, FS_Interval
  <2> QED BY <2>1, <2>2
<1>5. IsFiniteSet(marks)
  <2> HIDE DEF n, marks
  <2> QED BY <1>4, FS_Subset
<1>6. Cardinality(marks) \in Nat
  <2> HIDE DEF n, marks
  <2> QED BY <1>5, FS_CardinalityType
<1>7. ASSUME TwoByte \notin Range(s) PROVE bytes = n
  <2>1. \A k \in 1..n : s[k] \in Range(s)
    <3> HIDE DEF n
    <3> QED BY <1>1 DEF Range
  <2>2. marks = {}
    BY <1>7, <2>1
  <2>3. Cardinality(marks) = 0
    <3> HIDE DEF marks
    <3> QED BY <2>2, FS_EmptySet
  <2> HIDE DEF marks
  <2> QED BY <1>1, <2>3
<1>8. bytes \in Nat
  <2> HIDE DEF marks, n
  <2> QED BY <1>1, <1>6
<1>9. Spaces(s) = [i \in 1..bytes |-> Space]
  <2> HIDE DEF bytes, n
  <2> QED BY <1>3 DEF Spaces, n
<1>10. Len(Spaces(s)) = bytes
  <2>1. \A m \in Nat : Len([i \in 1..m |-> Space]) = m
    OBVIOUS
  <2> HIDE DEF bytes
  <2> QED BY <1>8, <1>9, <2>1
<1> HIDE DEF bytes
<1> QED BY <1>7, <1>8, <1>9, <1>10

(* The padding for the text up to end: n newlines and b spaces, as many as *)
(* the last line is long unless it holds a character of two bytes.         *)
LEMMA Padding ==
  ASSUME NEW S, NEW t \in Seq(S), NEW end \in 1..Len(t)
  PROVE  \E b \in Nat :
           /\ Cardinality(LineBreaks(t, end)) \in Nat
           /\ PadPrefix(t, end) = [i \in 1..Cardinality(LineBreaks(t, end)) |-> "\n"]
                                   \o [i \in 1..b |-> Space]
           /\ TwoByte \notin Range(LastLine(SubSeq(t, 1, end))) => b = end - LastBreak(t, end)
<1> DEFINE n == Cardinality(LineBreaks(t, end))
           pre == SubSeq(t, 1, end)
           f == LastBreak(t, end) + 1
<1>1. pre \in Seq(S) /\ Len(pre) = end /\ DOMAIN pre = 1..end /\ \A k \in 1..end : pre[k] = t[k]
  OBVIOUS
<1>2. {k \in DOMAIN pre : pre[k] = "\n"} = LineBreaks(t, end)
  <2> HIDE DEF pre
  <2> QED BY <1>1 DEF LineBreaks
<1>3. LineBreaks(t, end) \in SUBSET (1..end) /\ end \in Nat \ {0}
  BY DEF LineBreaks
<1>4. n \in Nat
  <2>1. IsFiniteSet(LineBreaks(t, end))
    BY <1>3, BreaksOn
  <2> QED BY <2>1, FS_CardinalityType
<1>5. LastBreak(t, end) \in 0..end
  <2>1. CASE LineBreaks(t, end) = {}
    BY <2>1 DEF LastBreak
  <2>2. CASE LineBreaks(t, end) # {}
    <3>1. Max(LineBreaks(t, end)) \in LineBreaks(t, end)
      BY <1>3, <2>2, FiniteMax
    <3> QED BY <1>3, <2>2, <3>1 DEF LastBreak
  <2> QED BY <2>1, <2>2
<1>6. Newlines(pre) = [i \in 1..n |-> "\n"]
  <2> HIDE DEF pre
  <2> QED BY <1>2 DEF Newlines
<1>7. LastLine(pre) = SubSeq(pre, f, end)
  <2> HIDE DEF pre
  <2> QED BY <1>1, <1>2 DEF LastLine, LastBreak
<1>8. f \in 1..end+1 /\ end - f + 1 = end - LastBreak(t, end)
  BY <1>3, <1>5
<1>9. LastLine(pre) \in Seq(S) /\ Len(LastLine(pre)) = end - LastBreak(t, end)
  <2> HIDE DEF pre, f
  <2>1. SubSeq(pre, f, end) \in Seq(S) /\ Len(SubSeq(pre, f, end)) = end - f + 1
    BY <1>1, <1>3, <1>8, SubSeqProperties
  <2> QED BY <1>7, <1>8, <2>1
<1> DEFINE b == Len(Spaces(LastLine(pre)))
<1>10. /\ b \in Nat /\ Spaces(LastLine(pre)) = [i \in 1..b |-> Space]
       /\ TwoByte \notin Range(LastLine(pre)) => b = end - LastBreak(t, end)
  <2> HIDE DEF pre
  <2> QED BY <1>9, SpacesAre
<1>11. PadPrefix(t, end) = [i \in 1..n |-> "\n"] \o [i \in 1..b |-> Space]
  <2> HIDE DEF b
  <2> QED BY <1>6, <1>10 DEF PadPrefix
<1> HIDE DEF b, n
<1> QED BY <1>4, <1>10, <1>11 DEF n

LEMMA SpaceIsNoNewline == Space # "\n"
BY DEF Space

(* The unit: the padding's newlines and spaces, then the script behind end.*)
LEMMA UnitText ==
  ASSUME NEW S, NEW t \in Seq(S), NEW end \in 1..Len(t)
  PROVE  \E n, b \in Nat :
           /\ n = Cardinality(LineBreaks(t, end))
           /\ Len(PadPrefix(t, end)) = n + b
           /\ \A k \in 1..n : TailUnit(t, end)[k] = "\n"
           /\ \A k \in n+1..n+b : TailUnit(t, end)[k] = Space
           /\ \A j \in 1..Len(t)-end : TailUnit(t, end)[n+b+j] = t[end+j]
           /\ TwoByte \notin Range(LastLine(SubSeq(t, 1, end))) => b = end - LastBreak(t, end)
<1> DEFINE n == Cardinality(LineBreaks(t, end))
           rest == SubSeq(t, end + 1, Len(t))
<1>1. PICK b \in Nat :
        /\ n \in Nat
        /\ PadPrefix(t, end) = [i \in 1..n |-> "\n"] \o [i \in 1..b |-> Space]
        /\ TwoByte \notin Range(LastLine(SubSeq(t, 1, end))) => b = end - LastBreak(t, end)
  BY Padding
<1> DEFINE pad == PadPrefix(t, end)
<1>2. /\ pad \in Seq({"\n", Space}) /\ Len(pad) = n + b
      /\ \A k \in 1..n : pad[k] = "\n"
      /\ \A k \in n+1..n+b : pad[k] = Space
  <2> DEFINE x == [i \in 1..n |-> "\n"]
             y == [i \in 1..b |-> Space]
  <2> HIDE DEF n
  <2>1. x \in Seq({"\n", Space}) /\ Len(x) = n /\ \A k \in 1..n : x[k] = "\n"
    BY <1>1
  <2>2. y \in Seq({"\n", Space}) /\ Len(y) = b /\ \A k \in 1..b : y[k] = Space
    BY <1>1
  <2> HIDE DEF x, y
  <2>3. /\ x \o y \in Seq({"\n", Space}) /\ Len(x \o y) = n + b
        /\ \A k \in 1..n+b : (x \o y)[k] = IF k <= n THEN x[k] ELSE y[k - n]
    <3>1. \A k \in 1..Len(x)+Len(y) : (x \o y)[k] = IF k <= Len(x) THEN x[k] ELSE y[k - Len(x)]
      BY <2>1, <2>2, ConcatProperties
    <3>2. x \o y \in Seq({"\n", Space}) /\ Len(x \o y) = Len(x) + Len(y)
      BY <2>1, <2>2, ConcatProperties
    <3> QED BY <2>1, <2>2, <3>1, <3>2
  <2>4. pad = x \o y
    BY <1>1 DEF x, y
  <2>5. \A k \in n+1..n+b : k \in 1..n+b /\ ~(k <= n) /\ k - n \in 1..b
    BY <1>1
  <2>6. \A k \in 1..n : k \in 1..n+b /\ k <= n
    BY <1>1
  <2> HIDE DEF pad
  <2> QED BY <2>1, <2>2, <2>3, <2>4, <2>5, <2>6
<1>3. /\ rest \in Seq(S) /\ Len(rest) = Len(t) - end
      /\ \A j \in 1..Len(t)-end : rest[j] = t[end+j]
  OBVIOUS
<1>4. TailUnit(t, end) = pad \o rest
  BY DEF TailUnit
<1> HIDE DEF pad, rest, n
<1>5. /\ \A k \in 1..n+b : (pad \o rest)[k] = pad[k]
      /\ \A j \in 1..Len(t)-end : (pad \o rest)[n+b+j] = rest[j]
  <2>1. Len(t) - end \in Nat /\ Len(pad) \in Nat
    BY <1>1, <1>2
  <2>2. \A k \in 1..Len(pad) + Len(rest) :
          (pad \o rest)[k] = IF k <= Len(pad) THEN pad[k] ELSE rest[k - Len(pad)]
    <3>1. pad \in Seq({"\n", Space} \cup S) /\ rest \in Seq({"\n", Space} \cup S)
      BY <1>2, <1>3, <1>1
    <3> QED BY <3>1, ConcatProperties
  <2>3. ASSUME NEW j \in 1..Len(t)-end PROVE (pad \o rest)[n+b+j] = rest[j]
    <3> DEFINE d == n+b+j
    <3>1. d \in 1..Len(pad) + Len(rest) /\ ~(d <= Len(pad)) /\ d - Len(pad) = j
      BY <1>1, <1>2, <1>3, <2>1, SMTT(30)
    <3> HIDE DEF d
    <3>2. (pad \o rest)[d] = rest[d - Len(pad)]
      BY <2>2, <3>1
    <3> QED BY <3>1, <3>2 DEF d
  <2> QED BY <1>1, <1>2, <1>3, <2>1, <2>2, <2>3
<1>6. (\A k \in 1..n : k \in 1..n+b) /\ (\A k \in n+1..n+b : k \in 1..n+b)
  BY <1>1
<1>7. /\ \A k \in 1..n : TailUnit(t, end)[k] = "\n"
      /\ \A k \in n+1..n+b : TailUnit(t, end)[k] = Space
      /\ \A j \in 1..Len(t)-end : TailUnit(t, end)[n+b+j] = t[end+j]
  BY <1>2, <1>3, <1>4, <1>5, <1>6
<1> QED BY <1>1, <1>2, <1>7 DEF n, pad

(* u begins with n newlines and b spaces.                                  *)
Padded(u, n, b) ==
  /\ \A k \in 1..n : u[k] = "\n"
  /\ \A k \in n+1..n+b : u[k] = Space

(* The walk through the padding.                                           *)
LEMMA WalkPads ==
  ASSUME NEW n \in Nat, NEW b \in Nat, NEW m \in Nat, n + b <= m, NEW u, NEW w, Walk(w, u, m),
         Padded(u, n, b)
  PROVE  w[n+b] = <<n + 1, b + 1>>
<1> DEFINE G == {k \in 0..n : w[k] = <<k + 1, 1>>}
           H == {k \in 0..b : w[n+k] = <<n + 1, k + 1>>}
<1>1. w[0] = <<1, 1>> /\ \A k \in 1..m : w[k] = Onward(u[k], w[k-1])
  BY DEF Walk
<1>2. 0 \in G
  BY <1>1
<1>3. \A k \in 0+1..n : k - 1 \in G => k \in G
  <2> TAKE k \in 0+1..n
  <2> HAVE k - 1 \in G
  <2>1. k \in 1..n /\ k \in 0..n /\ k \in 1..m /\ (k - 1) + 1 = k
    OBVIOUS
  <2>2. w[k] = Onward("\n", <<k, 1>>)
    BY <1>1, <2>1 DEF Padded
  <2> QED BY <2>1, <2>2 DEF Onward
<1>4. 0..n \subseteq G
  <2> HIDE DEF G
  <2>1. 0 \in Nat /\ 0 <= n
    OBVIOUS
  <2> QED BY <1>2, <1>3, <2>1, Climb
<1>5. w[n] = <<n + 1, 1>>
  <2>1. n \in 0..n
    OBVIOUS
  <2> QED BY <1>4, <2>1
<1>6. 0 \in H
  <2>1. n + 0 = n /\ 0 \in 0..b /\ 0 + 1 = 1
    OBVIOUS
  <2> QED BY <1>5, <2>1
<1>7. \A k \in 0+1..b : k - 1 \in H => k \in H
  <2> TAKE k \in 0+1..b
  <2> HAVE k - 1 \in H
  <2>1. k \in 0..b /\ n+k \in n+1..n+b /\ n+k \in 1..m /\ (n+k) - 1 = n + (k - 1) /\ (k - 1) + 1 = k
    OBVIOUS
  <2>2. w[n+k] = Onward(Space, <<n + 1, k>>)
    BY <1>1, <2>1 DEF Padded
  <2>3. Space # "\n"
    BY SpaceIsNoNewline
  <2> QED BY <2>1, <2>2, <2>3 DEF Onward
<1>8. 0..b \subseteq H
  <2> HIDE DEF H
  <2>1. 0 \in Nat /\ 0 <= b
    OBVIOUS
  <2> QED BY <1>6, <1>7, <2>1, Climb
<1> QED
  <2>1. b \in 0..b
    OBVIOUS
  <2> QED BY <1>8, <2>1

(* The n characters behind p in u are those behind q in t.                 *)
SameStretch(u, p, t, q, n) == \A j \in 1..n : u[p+j] = t[q+j]

(* Two walks over the same characters stay on the same line, and in the    *)
(* same column if they begin in one.                                       *)
LEMMA WalkAlong ==
  ASSUME NEW n \in Nat, NEW u, NEW w, NEW p \in Nat, NEW t, NEW v, NEW q \in Nat,
         NEW x, NEW y, x = p + n, y = q + n, Walk(w, u, x), Walk(v, t, y), SameStretch(u, p, t, q, n),
         w[p][1] = v[q][1]
  PROVE  /\ w[x][1] = v[y][1]
         /\ w[p][2] = v[q][2] => w[x][2] = v[y][2]
<1> DEFINE G == {j \in 0..n : /\ w[p+j][1] = v[q+j][1]
                              /\ w[p][2] = v[q][2] => w[p+j][2] = v[q+j][2]}
<1>1. 0 \in G
  <2>1. p + 0 = p /\ q + 0 = q /\ 0 \in 0..n
    OBVIOUS
  <2> QED BY <2>1
<1>2. \A j \in 0+1..n : j - 1 \in G => j \in G
  <2> TAKE j \in 0+1..n
  <2> HAVE j - 1 \in G
  <2>1. /\ j \in 1..n /\ j \in 0..n /\ p+j \in 1..p+n /\ q+j \in 1..q+n
        /\ (p+j) - 1 = p + (j - 1) /\ (q+j) - 1 = q + (j - 1)
    OBVIOUS
  <2>2. w[p+j] = Onward(u[p+j], w[p+(j-1)]) /\ v[q+j] = Onward(t[q+j], v[q+(j-1)])
    BY <2>1 DEF Walk
  <2>3. u[p+j] = t[q+j]
    BY <2>1 DEF SameStretch
  <2> QED BY <2>1, <2>2, <2>3 DEF Onward
<1>3. 0..n \subseteq G
  <2> HIDE DEF G
  <2>1. 0 \in Nat /\ 0 <= n
    OBVIOUS
  <2> QED BY <1>1, <1>2, <2>1, Climb
<1> QED
  <2>1. n \in 0..n
    OBVIOUS
  <2>2. n \in G
    BY <1>3, <2>1
  <2> QED BY <2>2

(* A position in a unit of the tail resolves where the script has it.      *)
LEMMA TailResolves ==
  ASSUME NEW S, NEW t \in Seq(S), NEW end \in 1..Len(t), NEW p \in end+1..Len(t)
  PROVE  LET got == ResolvePosition(TailUnit(t, end), Len(PadPrefix(t, end)) + p - end)
             want == ResolvePosition(t, p)
         IN  /\ got[1] = want[1]
             /\ got[2] = want[2] \/ TwoByte \in Range(LastLine(SubSeq(t, 1, end)))
<1>1. PICK n, b \in Nat :
           /\ n = Cardinality(LineBreaks(t, end))
           /\ Len(PadPrefix(t, end)) = n + b
           /\ \A k \in 1..n : TailUnit(t, end)[k] = "\n"
           /\ \A k \in n+1..n+b : TailUnit(t, end)[k] = Space
           /\ \A j \in 1..Len(t)-end : TailUnit(t, end)[n+b+j] = t[end+j]
           /\ TwoByte \notin Range(LastLine(SubSeq(t, 1, end))) => b = end - LastBreak(t, end)
  BY UnitText
<1> DEFINE u == TailUnit(t, end)
           m == (p - 1) - end
           q == n + b + p - end
<1>2. /\ end \in Nat \ {0} /\ Len(t) \in Nat /\ p \in Nat \ {0} /\ m \in Nat /\ q \in Nat \ {0}
      /\ q - 1 = (n + b) + m /\ p - 1 = end + m /\ n + b \in Nat /\ n + b <= q - 1
  BY <1>1
<1>3. PICK w : Walk(w, u, q - 1) /\ ResolvePosition(u, q) = w[q-1]
  <2> HIDE DEF u, q
  <2> QED BY <1>2, PositionWalks
<1>4. PICK v : Walk(v, t, p - 1) /\ ResolvePosition(t, p) = v[p-1]
  BY <1>2, PositionWalks
<1>5. w[n+b] = <<n + 1, b + 1>>
  <2>1. Padded(u, n, b)
    BY <1>1 DEF Padded
  <2>2. q - 1 \in Nat
    BY <1>2
  <2>3. n \in Nat /\ b \in Nat /\ n + b <= q - 1 /\ Walk(w, u, q - 1)
    BY <1>2, <1>3
  <2> HIDE DEF u, q
  <2> QED BY ONLY <2>1, <2>2, <2>3, WalkPads
<1>6. v[end] = <<n + 1, end - LastBreak(t, end) + 1>>
  <2>1. end \in 0..p-1 /\ p - 1 \in Nat
    BY <1>2
  <2> QED BY <1>1, <1>4, <2>1, WalkCounts, SMTT(30)
<1>7. SameStretch(u, n + b, t, end, m)
  <2>1. \A j \in 1..m : j \in 1..Len(t)-end
    BY <1>2
  <2> QED BY <1>1, <2>1 DEF SameStretch
<1>8. /\ w[q-1][1] = v[p-1][1]
      /\ w[n+b][2] = v[end][2] => w[q-1][2] = v[p-1][2]
  <2>1. q - 1 = (n + b) + m /\ p - 1 = end + m /\ Walk(w, u, q - 1) /\ Walk(v, t, p - 1)
    BY <1>2, <1>3, <1>4
  <2>2. w[n+b][1] = v[end][1]
    BY <1>5, <1>6
  <2>3. m \in Nat /\ n + b \in Nat /\ end \in Nat
    BY <1>2
  <2> DEFINE h == n + b
             x == q - 1
             y == p - 1
  <2>4. SameStretch(u, h, t, end, m) /\ x = h + m /\ y = end + m /\ Walk(w, u, x) /\ Walk(v, t, y)
    BY <1>7, <2>1
  <2>5. w[h][1] = v[end][1] /\ h \in Nat
    BY <2>2, <2>3
  <2> HIDE DEF u, m, h, x, y
  <2>6. w[x][1] = v[y][1] /\ (w[h][2] = v[end][2] => w[x][2] = v[y][2])
    BY ONLY <2>3, <2>4, <2>5, WalkAlong
  <2> QED BY <2>6 DEF h, x, y
<1>9. TwoByte \notin Range(LastLine(SubSeq(t, 1, end))) => w[n+b][2] = v[end][2]
  BY <1>1, <1>5, <1>6
<1>10. Len(PadPrefix(t, end)) + p - end = q
  BY <1>1
<1> HIDE DEF u, m, q
<1> QED BY <1>3, <1>4, <1>8, <1>9, <1>10 DEF u

(* A position the server reports in a unit of the tail resolves to the     *)
(* line the script has it on, and to its column unless a character of two  *)
(* bytes precedes the unit on that line.                                   *)
THEOREM PositionsHold == TextSpec => []PositionsResolve
<1>1. ASSUME text \in Seq(STRING) PROVE PositionsResolve
  <2>1. SUFFICES ASSUME NEW end \in {i \in DOMAIN text : text[i] = ";"}, NEW p \in end + 1..Len(text)
        PROVE  LET got == ResolvePosition(TailUnit(text, end), Len(PadPrefix(text, end)) + p - end)
                   want == ResolvePosition(text, p)
               IN  /\ got[1] = want[1]
                   /\ got[2] = want[2] \/ TwoByte \in Range(LastLine(SubSeq(text, 1, end)))
    BY DEF PositionsResolve
  <2>2. DOMAIN text = 1..Len(text)
    BY <1>1, LenProperties
  <2>3. end \in 1..Len(text)
    BY <2>2
  <2> QED BY <1>1, <2>3, TailResolves
<1>2. TextInit => text \in Seq(STRING)
  BY DEF TextInit
<1>3. text \in Seq(STRING) /\ [Write]_<<text, count>> => (text \in Seq(STRING))'
  <2> DEFINE T == STRING
  <2>1. Fragments \subseteq Seq(T)
    BY FragmentsAssumption
  <2> HIDE DEF T
  <2>2. text \in Seq(T) /\ [Write]_<<text, count>> => text' \in Seq(T)
    BY <2>1, ConcatProperties DEF Write
  <2> QED BY <2>2 DEF T
<1> QED BY <1>1, <1>2, <1>3, PTL DEF TextSpec

----------------------------------------------------------------------------

(* What stands for character i in the expanded text.                       *)
Part(t, calls, i) == IF i \in calls THEN Generated ELSE <<t[i]>>

(* u holds what stands for the first i characters.                         *)
Leading(u, T, t, calls) ==
  /\ u \in [0..Len(t) -> T]
  /\ u[0] = <<>>
  /\ \A i \in 1..Len(t) : u[i] = u[i-1] \o Part(t, calls, i)

(* r holds what stands for the last k characters.                          *)
Trailing(r, T, t, calls) ==
  /\ r \in [0..Len(t) -> T]
  /\ r[0] = <<>>
  /\ \A k \in 1..Len(t) : r[k] = Part(t, calls, Len(t) + 1 - k) \o r[k-1]

(* Two functions that start alike and go on alike.                         *)
StepAlike(h, k, n) ==
  /\ h = [i \in 0..n |-> h[i]] /\ k = [i \in 0..n |-> k[i]]
  /\ h[0] = k[0]
  /\ \A i \in 1..n : h[i-1] = k[i-1] => h[i] = k[i]

LEMMA LoopUnique ==
  ASSUME NEW n \in Nat, NEW h, NEW k, StepAlike(h, k, n)
  PROVE  h = k
<1> DEFINE G == {i \in 0..n : h[i] = k[i]}
<1>1. 0 \in G
  BY DEF StepAlike
<1>2. \A i \in 0+1..n : i - 1 \in G => i \in G
  <2> TAKE i \in 0+1..n
  <2>1. i \in 1..n /\ i \in 0..n
    OBVIOUS
  <2>2. h[i-1] = k[i-1] => h[i] = k[i]
    BY <2>1 DEF StepAlike
  <2> QED BY <2>1, <2>2
<1>3. 0..n \subseteq G
  <2> HIDE DEF G
  <2>1. 0 \in Nat /\ 0 <= n
    OBVIOUS
  <2> QED BY <1>1, <1>2, <2>1, Climb
<1>4. \A i \in 0..n : h[i] = k[i]
  BY <1>3
<1> QED BY <1>4 DEF StepAlike

(* The characters of a text with a macro's SQL in it.                      *)
With(S) == S \cup {"G", ";"}

LEMMA GeneratedType == \A S : Generated \in Seq(With(S))
<1> TAKE S
<1> DEFINE C == With(S)
<1>1. "G" \in C /\ ";" \in C
  BY DEF With
<1> HIDE DEF C
<1>2. \A x, y \in C : <<x, y, x>> \in Seq(C)
  OBVIOUS
<1>3. <<"G", ";", "G">> \in Seq(C)
  BY <1>1, <1>2
<1> QED BY <1>3 DEF Generated, C

LEMMA PartType ==
  ASSUME NEW S, NEW t \in Seq(S), NEW calls, NEW i \in 1..Len(t)
  PROVE  Part(t, calls, i) \in Seq(With(S))
<1> DEFINE C == With(S)
           e == t[i]
<1>1. e \in S
  BY ElementOfSeq
<1>2. e \in C
  <2> HIDE DEF e
  <2> QED BY <1>1 DEF With
<1> HIDE DEF C, e
<1>3. <<e>> \in Seq(C)
  BY <1>2
<1>4. Generated \in Seq(C)
  BY GeneratedType DEF C
<1>5. Part(t, calls, i) = Generated \/ Part(t, calls, i) = <<e>>
  BY DEF Part, e
<1> QED BY <1>3, <1>4, <1>5 DEF C

LEMMA JoinedRuns ==
  ASSUME NEW S, NEW t \in Seq(S), NEW calls
  PROVE  \E u : Leading(u, Seq(With(S)), t, calls) /\ InPlace(t, calls) = u[Len(t)]
<1> DEFINE n == Len(t)
           T == Seq(With(S))
           Eq(h) == h = [i \in 0..n |-> IF i = 0 THEN <<>>
                                        ELSE h[i-1] \o (IF i \in calls THEN Generated ELSE <<t[i]>>)]
           g == [x \in (0+1..n) \X T |-> x[2] \o Part(t, calls, x[1])]
<1>1. n \in Nat /\ <<>> \in T
  OBVIOUS
<1>2. g \in [(0+1..n) \X T -> T]
  <2>1. \A i \in 0+1..n : Part(t, calls, i) \in T
    BY PartType
  <2>2. \A x, y \in T : x \o y \in T
    OBVIOUS
  <2> HIDE DEF T, n
  <2> QED BY <2>1, <2>2
<1>3. PICK k : Loop(k, T, <<>>, 0, n, g)
  <2> HIDE DEF n, g, T
  <2>1. 0 \in Nat /\ 0 <= n
    BY <1>1
  <2> QED BY <1>1, <1>2, <2>1, LoopRuns
<1>4. Leading(k, T, t, calls)
  <2>1. k \in [0..n -> T] /\ k[0] = <<>> /\ \A i \in 0+1..n : k[i] = g[<<i, k[i-1]>>]
    <3> HIDE DEF n, g, T
    <3> QED BY <1>3 DEF Loop
  <2>2. ASSUME NEW i \in 1..n PROVE k[i] = k[i-1] \o Part(t, calls, i)
    <3>1. i \in 0+1..n /\ i - 1 \in 0..n
      BY <1>1
    <3>2. k[i-1] \in T
      BY <2>1, <3>1
    <3>3. <<i, k[i-1]>> \in (0+1..n) \X T
      BY <3>1, <3>2
    <3> HIDE DEF n, T
    <3> QED BY <2>1, <3>1, <3>3
  <2> HIDE DEF T
  <2> QED BY <2>1, <2>2 DEF Leading
<1>5. Eq(k)
  <2>1. k = [i \in 0..n |-> k[i]]
    BY <1>4 DEF Leading
  <2>2. ASSUME NEW i \in 0..n
        PROVE  k[i] = IF i = 0 THEN <<>> ELSE k[i-1] \o (IF i \in calls THEN Generated ELSE <<t[i]>>)
    <3>1. CASE i = 0
      BY <1>4, <3>1 DEF Leading
    <3>2. CASE i # 0
      <4>1. i \in 1..n
        BY <1>1, <3>2
      <4> QED BY <1>4, <3>2, <4>1 DEF Leading, Part
    <3> QED BY <3>1, <3>2
  <2> HIDE DEF n
  <2> QED BY <2>1, <2>2
<1>6. ASSUME NEW h, Eq(h) PROVE h = k
  <2>1. h[0] = <<>> /\ \A i \in 1..n : h[i] = h[i-1] \o Part(t, calls, i)
    <3>1. 0 \in 0..n /\ \A i \in 1..n : i \in 0..n /\ i # 0
      BY <1>1
    <3> HIDE DEF n
    <3> QED BY ONLY <1>6, <3>1 DEF Eq, Part
  <2>2. k[0] = <<>> /\ \A i \in 1..n : k[i] = k[i-1] \o Part(t, calls, i)
    BY <1>4 DEF Leading
  <2>3. h = [i \in 0..n |-> h[i]] /\ k = [i \in 0..n |-> k[i]]
    BY <1>4, <1>6 DEF Leading
  <2>4. \A i \in 1..n : h[i-1] = k[i-1] => h[i] = k[i]
    BY <2>1, <2>2
  <2>5. n \in Nat /\ h[0] = k[0]
    BY <1>1, <2>1, <2>2
  <2> HIDE DEF n, Eq
  <2>6. StepAlike(h, k, n)
    BY ONLY <2>3, <2>4, <2>5 DEF StepAlike
  <2> QED BY ONLY <2>5, <2>6, LoopUnique
<1>7. InPlace(t, calls) = (CHOOSE h : Eq(h))[n]
  BY DEF InPlace
<1>8. (CHOOSE h : Eq(h)) = k
  <2> HIDE DEF Eq
  <2> QED BY <1>5, <1>6
<1> HIDE DEF T
<1> QED BY <1>4, <1>7, <1>8 DEF T

LEMMA TrailingRuns ==
  ASSUME NEW S, NEW t \in Seq(S), NEW calls
  PROVE  \E r : Trailing(r, Seq(With(S)), t, calls)
<1> DEFINE n == Len(t)
           T == Seq(With(S))
           g == [x \in (0+1..n) \X T |-> Part(t, calls, n + 1 - x[1]) \o x[2]]
<1>1. n \in Nat /\ <<>> \in T
  OBVIOUS
<1>2. g \in [(0+1..n) \X T -> T]
  <2>1. \A i \in 0+1..n : Part(t, calls, n + 1 - i) \in T
    <3>1. \A i \in 0+1..n : n + 1 - i \in 1..n
      BY <1>1
    <3>2. \A i \in 1..n : Part(t, calls, i) \in T
      BY PartType
    <3> HIDE DEF n, T
    <3> QED BY <3>1, <3>2
  <2>2. \A x, y \in T : x \o y \in T
    OBVIOUS
  <2> HIDE DEF T, n
  <2> QED BY <2>1, <2>2
<1>3. PICK k : Loop(k, T, <<>>, 0, n, g)
  <2> HIDE DEF n, g, T
  <2>1. 0 \in Nat /\ 0 <= n
    BY <1>1
  <2> QED BY <1>1, <1>2, <2>1, LoopRuns
<1>4. k \in [0..n -> T] /\ k[0] = <<>> /\ \A i \in 0+1..n : k[i] = g[<<i, k[i-1]>>]
  <2> HIDE DEF n, g, T
  <2> QED BY <1>3 DEF Loop
<1>5. ASSUME NEW i \in 1..n PROVE k[i] = Part(t, calls, n + 1 - i) \o k[i-1]
  <2>1. i \in 0+1..n /\ i - 1 \in 0..n
    BY <1>1
  <2>2. k[i-1] \in T
    BY <1>4, <2>1
  <2>3. <<i, k[i-1]>> \in (0+1..n) \X T
    BY <2>1, <2>2
  <2> HIDE DEF n, T
  <2> QED BY <1>4, <2>1, <2>3
<1>6. Trailing(k, T, t, calls)
  <2> HIDE DEF T
  <2> QED BY <1>4, <1>5 DEF Trailing
<1> HIDE DEF T
<1> QED BY <1>6 DEF T

(* One splice: the rest behind position j is whatever it was.              *)
LEMMA SpliceAt ==
  ASSUME NEW C, NEW t \in Seq(C), NEW r \in Seq(C), NEW j \in 1..Len(t), Generated \in Seq(C)
  PROVE  /\ Splice(SubSeq(t, 1, j) \o r, j) = SubSeq(t, 1, j - 1) \o (Generated \o r)
         /\ SubSeq(t, 1, j) \o r = SubSeq(t, 1, j - 1) \o (<<t[j]>> \o r)
<1> DEFINE a == SubSeq(t, 1, j)
           b == SubSeq(t, 1, j - 1)
           x == a \o r
<1>1. /\ a \in Seq(C) /\ Len(a) = j /\ \A i \in 1..j : a[i] = t[i]
      /\ b \in Seq(C) /\ Len(b) = j - 1 /\ \A i \in 1..j-1 : b[i] = t[i]
  OBVIOUS
<1>2. j \in Nat /\ j >= 1 /\ t[j] \in C /\ Len(r) \in Nat
  OBVIOUS
<1> HIDE DEF a, b
<1>3. x \in Seq(C) /\ Len(x) = j + Len(r) /\ \A i \in 1..Len(x) : x[i] = IF i <= j THEN a[i] ELSE r[i - j]
  <2>1. Len(x) = Len(a) + Len(r) /\ x \in Seq(C)
    BY <1>1, ConcatProperties
  <2>2. \A i \in 1..Len(a) + Len(r) : x[i] = IF i <= Len(a) THEN a[i] ELSE r[i - Len(a)]
    BY <1>1, ConcatProperties
  <2> HIDE DEF x
  <2> QED BY ONLY <1>1, <2>1, <2>2
<1> HIDE DEF x
<1>4. SubSeq(x, 1, j - 1) = b
  <2>1. SubSeq(x, 1, j - 1) \in Seq(C) /\ Len(SubSeq(x, 1, j - 1)) = j - 1
    BY <1>2, <1>3
  <2>2. \A i \in 1..j-1 : SubSeq(x, 1, j - 1)[i] = x[i] /\ x[i] = t[i]
    BY <1>1, <1>2, <1>3
  <2> QED BY <1>1, <2>1, <2>2, SeqEqual
<1>5. SubSeq(x, j + 1, Len(x)) = r
  <2>1. SubSeq(x, j + 1, Len(x)) \in Seq(C) /\ Len(SubSeq(x, j + 1, Len(x))) = Len(r)
    <3>1. j + 1 \in Int /\ Len(x) \in Int /\ \A i \in j+1..Len(x) : x[i] \in C
      BY <1>2, <1>3
    <3>2. Len(x) - (j + 1) + 1 = Len(r) /\ (j + 1 > Len(x) => Len(r) = 0)
      BY <1>2, <1>3
    <3> QED BY ONLY <3>1, <3>2, <1>2, SubSeqProperties
  <2>2. \A i \in 1..Len(r) : SubSeq(x, j + 1, Len(x))[i] = x[j + i] /\ x[j+i] = r[i]
    BY <1>2, <1>3
  <2> QED BY <2>1, <2>2, SeqEqual
<1>6. Splice(x, j) = b \o (Generated \o r)
  <2>1. Splice(x, j) = b \o Generated \o r
    BY <1>4, <1>5 DEF Splice
  <2>2. b \o Generated \o r = b \o (Generated \o r)
    <3> DEFINE w == Generated
    <3>1. w \in Seq(C) /\ b \in Seq(C) /\ r \in Seq(C)
      BY <1>1
    <3> HIDE DEF w
    <3>2. b \o w \o r = b \o (w \o r)
      BY ONLY <3>1, ConcatAssociative, SMTT(30)
    <3> QED BY <3>2 DEF w
  <2> QED BY <2>1, <2>2
<1>7. x = b \o (<<t[j]>> \o r)
  <2>1. a = b \o <<t[j]>>
    <3>1. 1 \in 1..Len(t) /\ j \in 1..Len(t)
      BY <1>2
    <3> QED BY <3>1, SubSeqRecursiveSecond, SMTT(30) DEF a, b
  <2>2. <<t[j]>> \in Seq(C)
    BY <1>2
  <2> QED BY <1>1, <2>1, <2>2, ConcatAssociative DEF x
<1> QED BY <1>6, <1>7 DEF a, b, x

(* Replacing the calls from the last to the first puts each expansion in   *)
(* the place of its call, for any text and any set of calls.               *)
THEOREM ExpandsInPlace ==
  ASSUME NEW S, NEW t \in Seq(S), NEW calls
  PROVE  Expand(t, calls) = InPlace(t, calls)
<1> DEFINE n == Len(t)
           C == With(S)
<1>1. PICK u : Leading(u, Seq(C), t, calls) /\ InPlace(t, calls) = u[n]
  BY JoinedRuns
<1>2. PICK r : Trailing(r, Seq(C), t, calls)
  BY TrailingRuns
<1>3. n \in Nat /\ t \in Seq(C) /\ Generated \in Seq(C)
  <2>1. t \in Seq(C)
    <3>1. S \subseteq C
      BY DEF With
    <3> HIDE DEF C
    <3> QED BY <3>1, SeqMonotonic
  <2> QED BY <2>1, GeneratedType
<1> HIDE DEF C
<1>4. /\ u \in [0..n -> Seq(C)] /\ u[0] = <<>>
      /\ \A i \in 1..n : u[i] = u[i-1] \o Part(t, calls, i)
  BY <1>1 DEF Leading
<1>5. /\ r \in [0..n -> Seq(C)] /\ r[0] = <<>>
      /\ \A k \in 1..n : r[k] = Part(t, calls, n + 1 - k) \o r[k-1]
  BY <1>2 DEF Trailing
<1>6. \A i \in 1..n : Part(t, calls, i) \in Seq(C)
  BY PartType DEF C
<1>7. InPlace(t, calls) = r[n]
  <2> DEFINE G == {k \in 0..n : u[n] = u[n-k] \o r[k]}
  <2>1. 0 \in G
    <3>1. 0 \in 0..n /\ n - 0 = n /\ n \in 0..n
      BY <1>3
    <3>2. u[n] \in Seq(C)
      BY <1>4, <3>1
    <3>3. u[n] = u[n] \o <<>>
      BY <3>2
    <3> HIDE DEF n
    <3> QED BY <1>5, <3>1, <3>3
  <2>2. \A k \in 0+1..n : k - 1 \in G => k \in G
    <3> TAKE k \in 0+1..n
    <3> HAVE k - 1 \in G
    <3> DEFINE j == n + 1 - k
    <3>1. k \in 1..n /\ k \in 0..n /\ k - 1 \in 0..n /\ j \in 1..n /\ j - 1 = n - k /\ n - (k - 1) = j
          /\ j - 1 \in 0..n
      BY <1>3
    <3>2. u[n] = u[j] \o r[k-1]
      BY <3>1
    <3> HIDE DEF j, n
    <3>3. u[j] = u[j-1] \o Part(t, calls, j)
      BY <1>4, <3>1
    <3>4. r[k] = Part(t, calls, j) \o r[k-1]
      BY <1>5, <3>1 DEF j
    <3>5. u[j-1] \in Seq(C) /\ Part(t, calls, j) \in Seq(C) /\ r[k-1] \in Seq(C)
      BY <1>4, <1>5, <1>6, <3>1
    <3>6. u[j-1] \o Part(t, calls, j) \o r[k-1] = u[j-1] \o (Part(t, calls, j) \o r[k-1])
      <4> DEFINE p == Part(t, calls, j)
                 q == r[k-1]
                 v == u[j-1]
      <4>1. v \in Seq(C) /\ p \in Seq(C) /\ q \in Seq(C)
        BY <3>5
      <4> HIDE DEF p, q, v
      <4>2. v \o p \o q = v \o (p \o q)
        BY ONLY <4>1, ConcatAssociative
      <4> QED BY <4>2 DEF p, q, v
    <3>7. u[n] = u[j-1] \o r[k]
      BY <3>2, <3>3, <3>4, <3>6
    <3> QED BY <3>1, <3>7
  <2>3. 0..n \subseteq G
    <3> HIDE DEF G, n
    <3>1. 0 \in Nat /\ 0 <= n
      BY <1>3
    <3> QED BY <1>3, <2>1, <2>2, <3>1, Climb
  <2>4. n \in 0..n /\ n - n = 0
    BY <1>3
  <2>5. u[n] = <<>> \o r[n] /\ r[n] \in Seq(C)
    <3> HIDE DEF n
    <3> QED BY <1>4, <1>5, <2>3, <2>4
  <2>6. <<>> \o r[n] = r[n]
    <3> HIDE DEF n
    <3> QED BY <2>5
  <2> HIDE DEF n
  <2> QED BY <1>1, <2>5, <2>6
<1> DEFINE d == [k \in 0..n |-> SubSeq(t, 1, n - k) \o r[k]]
           Eq(h) == h = [k \in 0..n |-> IF k = 0 THEN t
                                        ELSE IF n + 1 - k \in calls THEN Splice(h[k-1], n + 1 - k)
                                        ELSE h[k-1]]
<1>8. d[0] = t
  <2>1. SubSeq(t, 1, n) = t /\ t \o <<>> = t /\ n - 0 = n /\ 0 \in 0..n
    BY <1>3
  <2> HIDE DEF n
  <2> QED BY <1>5, <2>1
<1>9. ASSUME NEW k \in 1..n
      PROVE  d[k] = IF n + 1 - k \in calls THEN Splice(d[k-1], n + 1 - k) ELSE d[k-1]
  <2> DEFINE j == n + 1 - k
  <2>1. k \in 0..n /\ k - 1 \in 0..n /\ j \in 1..n /\ j - 1 = n - k /\ n - (k - 1) = j
    BY <1>3
  <2>2. d[k] = SubSeq(t, 1, j - 1) \o r[k] /\ d[k-1] = SubSeq(t, 1, j) \o r[k-1]
    <3> HIDE DEF n, j
    <3> QED BY <2>1
  <2>3. r[k] = Part(t, calls, j) \o r[k-1] /\ r[k-1] \in Seq(C)
    <3> HIDE DEF n
    <3> QED BY <1>5, <2>1 DEF j
  <2>4. /\ Splice(SubSeq(t, 1, j) \o r[k-1], j) = SubSeq(t, 1, j - 1) \o (Generated \o r[k-1])
        /\ SubSeq(t, 1, j) \o r[k-1] = SubSeq(t, 1, j - 1) \o (<<t[j]>> \o r[k-1])
    <3> DEFINE q == r[k-1]
    <3>1. j \in 1..Len(t) /\ t \in Seq(C) /\ q \in Seq(C) /\ Generated \in Seq(C)
      BY <1>3, <2>1, <2>3
    <3> HIDE DEF n, j, d, q
    <3>2. /\ Splice(SubSeq(t, 1, j) \o q, j) = SubSeq(t, 1, j - 1) \o (Generated \o q)
          /\ SubSeq(t, 1, j) \o q = SubSeq(t, 1, j - 1) \o (<<t[j]>> \o q)
      BY ONLY <3>1, SpliceAt, ZenonT(30)
    <3> QED BY <3>2 DEF q
  <2> HIDE DEF d, n
  <2> QED BY <2>2, <2>3, <2>4 DEF Part, j
<1>10. d = [k \in 0..n |-> d[k]]
  OBVIOUS
<1>11. Eq(d)
  <2>1. ASSUME NEW k \in 0..n
        PROVE  d[k] = IF k = 0 THEN t
                      ELSE IF n + 1 - k \in calls THEN Splice(d[k-1], n + 1 - k) ELSE d[k-1]
    <3>1. k # 0 => k \in 1..n
      BY <1>3
    <3> HIDE DEF d, n
    <3> QED BY <1>8, <1>9, <3>1
  <2> HIDE DEF d, n
  <2> QED BY <1>10, <2>1
<1>12. ASSUME NEW h, Eq(h) PROVE h = d
  <2>1. 0 \in 0..n /\ \A k \in 1..n : k \in 0..n /\ k # 0
    BY <1>3
  <2>2. /\ h[0] = t
        /\ \A k \in 1..n : h[k] = IF n + 1 - k \in calls THEN Splice(h[k-1], n + 1 - k) ELSE h[k-1]
    <3> HIDE DEF d, n
    <3> QED BY ONLY <1>12, <2>1 DEF Eq
  <2>3. h = [k \in 0..n |-> h[k]]
    BY <1>12
  <2> HIDE DEF d, n, Eq
  <2>4. h[0] = d[0] /\ \A i \in 1..n : h[i-1] = d[i-1] => h[i] = d[i]
    BY <1>8, <1>9, <2>2
  <2>5. StepAlike(h, d, n)
    BY ONLY <1>10, <2>3, <2>4 DEF StepAlike
  <2> QED BY ONLY <1>3, <2>5, LoopUnique
<1>13. Expand(t, calls) = (CHOOSE h : Eq(h))[n]
  BY DEF Expand
<1>14. (CHOOSE h : Eq(h)) = d
  <2> HIDE DEF Eq, d
  <2> QED BY <1>11, <1>12
<1>15. d[n] = r[n]
  <2>1. n \in 0..n /\ n - n = 0 /\ SubSeq(t, 1, 0) = <<>>
    BY <1>3
  <2> HIDE DEF n
  <2>2. r[n] \in Seq(C)
    BY <1>5, <2>1
  <2>3. <<>> \o r[n] = r[n]
    BY <2>2
  <2> QED BY <2>1, <2>3
<1> QED BY <1>7, <1>13, <1>14, <1>15
=============================================================================
