-------------------------- MODULE TestSuiteProofs --------------------------
(***************************************************************************)
(* CALL pgmi_test() isolates every test, runs each script once and leaves  *)
(* nothing behind, for any tree of test directories and any pattern.       *)
(*                                                                         *)
(* The argument, in the order of the module: the byte order of the sort    *)
(* keys is a strict order, so the row numbers list every visit once; the   *)
(* keys of nested directories continue each other and those of others part *)
(* at a byte, so the visits nest; the savepoint stack holds the savepoints *)
(* of the open directories from the outside in, each name once; so every   *)
(* row, every visit and the whole plan do what they should; the state of   *)
(* the transaction is then a function of the position in the script.       *)
(***************************************************************************)
EXTENDS TestSuite, FiniteSetTheorems, SequenceTheorems, WellFoundedInduction, TLAPS

(* A set of naturals that is not empty has a least member.                 *)
LEMMA Least ==
  ASSUME NEW B \in SUBSET Nat, B # {}
  PROVE  \E m \in B : \A j \in B : m <= j
<1>1. PICK m \in B : \A j \in B : ~(<<j, m>> \in OpToRel(<, Nat))
  BY NatLessThanWellFounded, WFMin
<1>2. \A j \in B : ~(j < m)
  BY <1>1 DEF OpToRel
<1> QED BY <1>2

(* What holds at lo and goes from i - 1 to i holds up to hi.               *)
LEMMA Climb ==
  \A lo, hi \in Nat : \A G :
    lo <= hi /\ lo \in G /\ (\A i \in lo+1..hi : i - 1 \in G => i \in G) => lo..hi \subseteq G
<1> SUFFICES ASSUME NEW lo \in Nat, NEW hi \in Nat, NEW G, lo <= hi, lo \in G,
                    \A i \in lo+1..hi : i - 1 \in G => i \in G
             PROVE  lo..hi \subseteq G
  OBVIOUS
<1> DEFINE B == (lo..hi) \ G
<1>1. SUFFICES ASSUME B # {} PROVE FALSE
  OBVIOUS
<1>2. B \in SUBSET Nat
  OBVIOUS
<1>3. PICK m \in B : \A j \in B : m <= j
  BY <1>1, <1>2, Least
<1>4. m # lo /\ m \in lo+1..hi /\ m - 1 \in lo..hi /\ ~(m <= m - 1)
  BY <1>3
<1> QED BY <1>3, <1>4

----------------------------------------------------------------------------
(* The order of sort keys                                                  *)

(* The byte order is a strict order.                                       *)
LEMMA LessIrreflexive ==
  ASSUME NEW s \in Seq(Nat)
  PROVE  ~ByteLess(s, s)
<1>1. \A i \in 1..Len(s) : s[i] \in Nat
  OBVIOUS
<1> QED BY <1>1 DEF ByteLess

(* The two ways of being less.                                             *)
Shorter(a, b) == Len(a) < Len(b) /\ \A i \in 1..Len(a) : a[i] = b[i]

(* They differ first at i, where s is less.                                *)
Differ(a, b, i) ==
  /\ i \in 1..Len(a) /\ i <= Len(b) /\ a[i] < b[i]
  /\ \A j \in 1..i-1 : a[j] = b[j]

(* A proper start, or less where they first differ.                        *)
LEMMA LessIs ==
  ASSUME NEW s, NEW t
  PROVE  ByteLess(s, t) <=> Shorter(s, t) \/ \E i : Differ(s, t, i)
BY DEF ByteLess, Shorter, Differ

(* The byte order is transitive.                                           *)
LEMMA LessTransitive ==
  ASSUME NEW s \in Seq(Nat), NEW t \in Seq(Nat), NEW u \in Seq(Nat),
         ByteLess(s, t), ByteLess(t, u)
  PROVE  ByteLess(s, u)
<1>1. /\ Len(s) \in Nat /\ Len(t) \in Nat /\ Len(u) \in Nat
      /\ \A i \in 1..Len(s) : s[i] \in Nat
      /\ \A i \in 1..Len(t) : t[i] \in Nat
      /\ \A i \in 1..Len(u) : u[i] \in Nat
  OBVIOUS
<1>2. ASSUME Shorter(s, t), Shorter(t, u) PROVE Shorter(s, u)
  BY <1>1, <1>2 DEF Shorter
<1>3. ASSUME NEW i, Shorter(s, t), Differ(t, u, i) PROVE ByteLess(s, u)
  <2>0. i \in Nat /\ i >= 1
    BY <1>1, <1>3 DEF Differ
  <2>1. CASE i <= Len(s)
    <3>1. i \in 1..Len(s) /\ i <= Len(u) /\ s[i] < u[i]
      BY <1>1, <1>3, <2>0, <2>1 DEF Shorter, Differ
    <3>2. ASSUME NEW j \in 1..i-1 PROVE s[j] = u[j]
      <4>1. j \in 1..Len(s) /\ j \in 1..Len(t)
        BY <1>1, <2>0, <2>1, <1>3 DEF Shorter
      <4> QED BY <4>1, <1>3 DEF Shorter, Differ
    <3> QED BY <3>1, <3>2, LessIs DEF Differ
  <2>2. CASE Len(s) < i
    <3>1. Len(s) < Len(u)
      BY <1>1, <1>3, <2>0, <2>2 DEF Differ
    <3>2. ASSUME NEW j \in 1..Len(s) PROVE s[j] = u[j]
      <4>1. j \in 1..i-1
        BY <1>1, <2>0, <2>2
      <4> QED BY <4>1, <1>3 DEF Shorter, Differ
    <3> QED BY <3>1, <3>2, LessIs DEF Shorter
  <2> QED BY <1>1, <2>0, <2>1, <2>2
<1>4. ASSUME NEW i, Differ(s, t, i), Shorter(t, u) PROVE ByteLess(s, u)
  <2>1. i \in 1..Len(s) /\ i \in 1..Len(t) /\ i \in Nat /\ i <= Len(u)
    BY <1>1, <1>4 DEF Shorter, Differ
  <2>2. s[i] < u[i]
    BY <1>4, <2>1 DEF Shorter, Differ
  <2>3. ASSUME NEW j \in 1..i-1 PROVE s[j] = u[j]
    <3>1. j \in 1..Len(t)
      BY <1>1, <2>1
    <3> QED BY <3>1, <1>4 DEF Shorter, Differ
  <2> QED BY <2>1, <2>2, <2>3, LessIs DEF Differ
<1>5. ASSUME NEW i, NEW k, Differ(s, t, i), Differ(t, u, k) PROVE ByteLess(s, u)
  <2>0. /\ i \in 1..Len(s) /\ i \in 1..Len(t) /\ i \in Nat
        /\ k \in 1..Len(t) /\ k \in Nat /\ k <= Len(u)
    BY <1>1, <1>5 DEF Differ
  <2>1. CASE i <= k
    <3>1. s[i] < t[i] /\ t[i] <= u[i] /\ s[i] \in Nat /\ t[i] \in Nat /\ u[i] \in Nat
      <4>1. i \in 1..Len(u)
        BY <1>1, <2>0, <2>1
      <4>2. i = k \/ i \in 1..k-1
        BY <2>0, <2>1
      <4>3. s[i] \in Nat /\ t[i] \in Nat /\ u[i] \in Nat
        BY <1>1, <2>0, <4>1
      <4>4. s[i] < t[i]
        BY <1>5 DEF Differ
      <4>5. t[i] <= u[i]
        <5>1. CASE i = k
          <6>1. t[i] < u[i]
            BY <1>5, <5>1 DEF Differ
          <6> QED BY <4>3, <6>1
        <5>2. CASE i \in 1..k-1
          <6>1. t[i] = u[i]
            BY <1>5, <5>2 DEF Differ
          <6> QED BY <4>3, <6>1
        <5> QED BY <4>2, <5>1, <5>2
      <4> QED BY <4>3, <4>4, <4>5
    <3>2. ASSUME NEW j \in 1..i-1 PROVE s[j] = u[j]
      <4>1. j \in 1..k-1
        BY <2>0, <2>1
      <4> QED BY <4>1, <1>5 DEF Differ
    <3>3. s[i] < u[i]
      BY <3>1
    <3>4. i <= Len(u)
      BY <1>1, <2>0, <2>1
    <3> QED BY <2>0, <3>2, <3>3, <3>4, LessIs DEF Differ
  <2>2. CASE k < i
    <3>1. k \in 1..Len(s) /\ k \in 1..i-1
      BY <1>1, <2>0, <2>2
    <3>2. s[k] < u[k]
      BY <3>1, <1>5 DEF Differ
    <3>3. ASSUME NEW j \in 1..k-1 PROVE s[j] = u[j]
      <4>1. j \in 1..i-1
        BY <2>0, <2>2
      <4> QED BY <4>1, <1>5 DEF Differ
    <3> QED BY <2>0, <3>1, <3>2, <3>3, LessIs DEF Differ
  <2> QED BY <2>0, <2>1, <2>2
<1> QED BY <1>2, <1>3, <1>4, <1>5, LessIs

(* Sequences that differ somewhere differ at a first place, and keep their *)
(* order whatever follows.                                                 *)
LEMMA FirstDifference ==
  ASSUME NEW s \in Seq(Nat), NEW t \in Seq(Nat),
         NEW k \in 1..Len(s), k <= Len(t), s[k] # t[k]
  PROVE  \E i : Differ(s, t, i) \/ Differ(t, s, i)
<1>1. /\ Len(s) \in Nat /\ Len(t) \in Nat
      /\ \A i \in 1..Len(s) : s[i] \in Nat
      /\ \A i \in 1..Len(t) : t[i] \in Nat
  OBVIOUS
<1>2. PICK B : B = {i \in 1..k : s[i] # t[i]}
  OBVIOUS
<1>3. B \in SUBSET Nat /\ k \in B
  BY <1>1, <1>2
<1>4. PICK i \in B : \A j \in B : i <= j
  BY <1>3, Least
<1>5. i \in 1..k /\ i \in 1..Len(s) /\ i \in 1..Len(t) /\ s[i] # t[i]
  BY <1>1, <1>2, <1>4
<1>6. ASSUME NEW j \in 1..i-1 PROVE s[j] = t[j]
  <2>1. j \in 1..k /\ ~(i <= j)
    BY <1>5
  <2> QED BY <2>1, <1>2, <1>4
<1>7. s[i] < t[i] \/ t[i] < s[i]
  BY <1>1, <1>5
<1>8. i <= Len(s) /\ i <= Len(t)
  BY <1>1, <1>5
<1>9. \A j \in 1..i-1 : t[j] = s[j]
  BY <1>6
<1>10. CASE s[i] < t[i]
  BY <1>5, <1>6, <1>8, <1>10 DEF Differ
<1>11. CASE t[i] < s[i]
  BY <1>5, <1>9, <1>8, <1>11 DEF Differ
<1> QED BY <1>7, <1>10, <1>11

(* Counting the smaller members numbers a finite ordered set from 1 on.    *)
StrictOrder(R, S) ==
  /\ \A v \in S : <<v, v>> \notin R
  /\ \A u, v, w \in S : <<u, v>> \in R /\ <<v, w>> \in R => <<u, w>> \in R
  /\ \A v, w \in S : v # w => <<v, w>> \in R \/ <<w, v>> \in R

(* Members of S numbered by how many are less.                             *)
Numbers(number, S, R) == number = [v \in S |-> Cardinality({w \in S : <<w, v>> \in R}) + 1]

(* row_number over a strict order: every number once, in that order.       *)
LEMMA Numbering ==
  ASSUME NEW S, IsFiniteSet(S), NEW R, StrictOrder(R, S), NEW number, Numbers(number, S, R)
  PROVE  /\ Cardinality(S) \in Nat
         /\ number \in [S -> 1..Cardinality(S)]
         /\ \A v, w \in S : <<v, w>> \in R <=> number[v] < number[w]
         /\ \A v, w \in S : number[v] = number[w] => v = w
         /\ \A k \in 1..Cardinality(S) : \E v \in S : number[v] = k
<1> USE DEF StrictOrder, Numbers
<1> DEFINE Below(v) == {w \in S : <<w, v>> \in R}
           n == Cardinality(S)
<1>1. n \in Nat
  BY FS_CardinalityType
<1>2. ASSUME NEW v \in S
      PROVE  /\ IsFiniteSet(Below(v)) /\ Cardinality(Below(v)) \in Nat
             /\ Cardinality(Below(v)) < n
  <2>1. Below(v) \subseteq S /\ Below(v) # S
    OBVIOUS
  <2> HIDE DEF Below
  <2> QED BY <2>1, FS_Subset, FS_CardinalityType
<1>3. ASSUME NEW v \in S, NEW w \in S, <<v, w>> \in R
      PROVE  Cardinality(Below(v)) < Cardinality(Below(w))
  <2>1. Below(v) \subseteq Below(w) /\ Below(v) # Below(w)
    BY <1>3
  <2>2. IsFiniteSet(Below(w))
    BY <1>2
  <2> HIDE DEF Below
  <2> QED BY <2>1, <2>2, FS_Subset, FS_CardinalityType
<1>4. \A v \in S : number[v] = Cardinality(Below(v)) + 1
  OBVIOUS
<1> HIDE DEF Below
<1>5. number \in [S -> 1..n]
  BY <1>1, <1>2, <1>4
<1>6. \A v, w \in S : <<v, w>> \in R => number[v] < number[w]
  BY <1>2, <1>3, <1>4
<1>7. ASSUME NEW v \in S, NEW w \in S, <<v, w>> \notin R PROVE ~(number[v] < number[w])
  <2>1. v = w \/ <<w, v>> \in R
    BY <1>7
  <2>2. number[v] = number[w] \/ number[w] < number[v]
    BY <1>6, <2>1
  <2>3. number[v] \in 1..n /\ number[w] \in 1..n
    BY <1>5
  <2>4. ASSUME NEW a \in 1..n, NEW b \in 1..n, a = b \/ b < a PROVE ~(a < b)
    BY <1>1, <2>4
  <2> QED BY <2>2, <2>3, <2>4
<1>8. ASSUME NEW v \in S, NEW w \in S, v # w PROVE number[v] # number[w]
  <2>1. <<v, w>> \in R \/ <<w, v>> \in R
    BY <1>8
  <2>2. number[v] \in 1..n /\ number[w] \in 1..n
    BY <1>5
  <2>3. number[v] < number[w] \/ number[w] < number[v]
    BY <1>6, <2>1
  <2>4. ASSUME NEW a \in 1..n, NEW b \in 1..n, a < b \/ b < a PROVE a # b
    BY <1>1, <2>4
  <2> QED BY <2>2, <2>3, <2>4
<1>9. number \in Surjection(S, 1..n)
  <2>1. number \in Injection(S, 1..n)
    BY ONLY <1>5, <1>8 DEF Injection, IsInjective
  <2>2. IsFiniteSet(1..n) /\ Cardinality(1..n) = n
    BY <1>1, FS_Interval
  <2> QED BY <2>1, <2>2, FS_Injection
<1>10. \A k \in 1..n : \E v \in S : number[v] = k
  BY <1>9 DEF Surjection
<1> QED BY <1>1, <1>5, <1>6, <1>7, <1>8, <1>10

----------------------------------------------------------------------------
(* Loops                                                                   *)

(* A loop that starts with a and makes g of the index and of what it has   *)
(* runs to its end.                                                        *)
Loop(f, T, a, lo, hi, g) ==
  /\ f \in [lo..hi -> T]
  /\ f[lo] = a
  /\ \A i \in lo+1..hi : f[i] = g[<<i, f[i-1]>>]

(* Such a loop exists whatever its body.                                   *)
LEMMA LoopRuns ==
  ASSUME NEW T, NEW a \in T, NEW lo \in Nat, NEW hi \in Nat, lo <= hi,
         NEW g \in [(lo+1..hi) \X T -> T]
  PROVE  \E f : Loop(f, T, a, lo, hi, g)
<1> USE DEF Loop
<1> DEFINE Runs(k) == \E f : Loop(f, T, a, lo, k, g)
           B == {k \in lo..hi : ~Runs(k)}
<1>1. Runs(lo)
  <2> DEFINE h == [i \in lo..lo |-> a]
  <2>1. h \in [lo..lo -> T] /\ h[lo] = a
    OBVIOUS
  <2>2. \A i \in lo+1..lo : h[i] = g[<<i, h[i-1]>>]
    OBVIOUS
  <2> HIDE DEF h
  <2> QED BY <2>1, <2>2
<1>2. ASSUME NEW k \in lo+1..hi, Runs(k - 1) PROVE Runs(k)
  <2>1. PICK f : Loop(f, T, a, lo, k - 1, g)
    BY <1>2
  <2> DEFINE h == [i \in lo..k |-> IF i = k THEN g[<<k, f[k-1]>>] ELSE f[i]]
  <2>2. h \in [lo..k -> T]
    <3>1. k - 1 \in lo..k-1 /\ \A i \in lo..k : i # k => i \in lo..k-1
      OBVIOUS
    <3> QED BY <2>1, <3>1
  <2>3. h[lo] = a
    <3>1. lo \in lo..k /\ lo # k
      OBVIOUS
    <3> QED BY <2>1, <3>1
  <2>4. ASSUME NEW i \in lo+1..k PROVE h[i] = g[<<i, h[i-1]>>]
    <3>1. i - 1 \in lo..(k-1) /\ i - 1 # k /\ i \in lo..k /\ i - 1 \in lo..k
      OBVIOUS
    <3>2. h[i-1] = f[i-1]
      BY <3>1
    <3>3. CASE i = k
      BY <3>1, <3>2, <3>3
    <3>4. CASE i # k
      <4>1. i \in lo+1..k-1
        BY <3>4
      <4> QED BY <2>1, <3>1, <3>2, <3>4, <4>1
    <3> QED BY <3>3, <3>4
  <2> QED BY <2>2, <2>3, <2>4
<1> HIDE DEF Runs
<1>3. B = {}
  <2>0. B \subseteq Nat
    OBVIOUS
  <2>1. SUFFICES ASSUME B # {} PROVE FALSE
    OBVIOUS
  <2>2. PICK m \in B : \A j \in B : m <= j
    BY <2>0, <2>1, Least
  <2>3. m # lo /\ m - 1 \in lo..hi /\ m \in lo+1..hi
    BY <1>1, <2>2
  <2>4. Runs(m - 1)
    BY <2>2, <2>3
  <2> QED BY <1>2, <2>2, <2>3, <2>4
<1>4. Runs(hi)
  BY <1>3
<1> QED BY <1>4 DEF Runs

(* A loop that stays in T from where it starts stays in T.                 *)
LEMMA LoopStays ==
  ASSUME NEW T, NEW lo \in Nat, NEW hi \in Nat, lo <= hi, NEW f,
         f = [i \in lo..hi |-> f[i]], f[lo] \in T,
         \A i \in lo+1..hi : f[i-1] \in T => f[i] \in T
  PROVE  f \in [lo..hi -> T]
<1> DEFINE B == {i \in lo..hi : f[i] \notin T}
<1>1. SUFFICES B = {}
  OBVIOUS
<1>2. SUFFICES ASSUME B # {} PROVE FALSE
  OBVIOUS
<1>3. B \in SUBSET Nat
  OBVIOUS
<1>4. PICK m \in B : \A j \in B : m <= j
  BY <1>2, <1>3, Least
<1>5. m # lo /\ m - 1 \in lo..hi /\ m \in lo+1..hi
  BY <1>4
<1>6. f[m-1] \in T
  BY <1>4, <1>5
<1> QED BY <1>4, <1>5, <1>6

(* Two loops that go on alike from the same start agree.                   *)
LEMMA Alike ==
  ASSUME NEW f, NEW h, NEW m \in Nat, f[0] = h[0],
         \A i \in 1..m : f[i-1] = h[i-1] => f[i] = h[i]
  PROVE  \A i \in 0..m : f[i] = h[i]
<1> DEFINE G == {i \in 0..m : f[i] = h[i]}
<1>1. 0 \in Nat /\ 0 <= m /\ 0 \in G
  OBVIOUS
<1>2. \A i \in 0+1..m : i - 1 \in G => i \in G
  OBVIOUS
<1>3. 0..m \subseteq G
  <2> HIDE DEF G
  <2> QED BY <1>1, <1>2, Climb
<1> QED BY <1>3

----------------------------------------------------------------------------
(* Paths as bytes                                                          *)

(* Sequences of segments, a segment a sequence of bytes.                   *)
Paths == Seq(Seq(Nat))

(* A directory is a path of at least one segment, none with a slash.       *)
LEMMA DirIsPath ==
  ASSUME NEW d \in Dirs
  PROVE  /\ d \in Paths /\ Len(d) \in Nat /\ Len(d) >= 1
         /\ \A i \in 1..Len(d) : d[i] \in Seq(Nat) /\ \A j \in 1..Len(d[i]) : d[i][j] # Slash
<1>1. d \in Seq(Seq(Nat)) /\ d # <<>>
  BY DirsAssumption
<1>2. Len(d) \in Nat /\ Len(d) >= 1
  BY <1>1, EmptySeq
<1>3. ASSUME NEW i \in 1..Len(d) PROVE d[i] \in Seq(Nat) /\ \A j \in 1..Len(d[i]) : d[i][j] # Slash
  <2>1. i \in DOMAIN d /\ d[i] \in Seq(Nat)
    BY <1>1
  <2>2. DOMAIN d[i] = 1..Len(d[i])
    BY <2>1
  <2> QED BY <2>1, <2>2, DirsAssumption
<1> QED BY <1>1, <1>2, <1>3 DEF Paths

(* The bytes of a concatenation.                                           *)
LEMMA Joined ==
  ASSUME NEW S, NEW s \in Seq(S), NEW t \in Seq(S)
  PROVE  /\ s \o t \in Seq(S) /\ Len(s) \in Nat /\ Len(t) \in Nat /\ Len(s \o t) = Len(s) + Len(t)
         /\ \A k \in 1..Len(s) : (s \o t)[k] = s[k]
         /\ \A k \in 1..Len(t) : (s \o t)[Len(s) + k] = t[k]
<1>1. /\ s \o t \in Seq(S) /\ Len(s \o t) = Len(s) + Len(t) /\ Len(s) \in Nat /\ Len(t) \in Nat
      /\ \A x \in 1..Len(s) + Len(t) :
           (s \o t)[x] = IF x <= Len(s) THEN s[x] ELSE t[x - Len(s)]
  BY ConcatProperties
<1>2. \A k \in 1..Len(s) : (s \o t)[k] = s[k]
  BY <1>1
<1>3. ASSUME NEW k \in 1..Len(t) PROVE (s \o t)[Len(s) + k] = t[k]
  <2>1. Len(s) + k \in 1..Len(s) + Len(t) /\ ~(Len(s) + k <= Len(s)) /\ Len(s) + k - Len(s) = k
    BY <1>1
  <2> QED BY <1>1, <2>1
<1> QED BY <1>1, <1>2, <1>3

(* Concatenation is associative and stays in S.                            *)
LEMMA Regroup ==
  ASSUME NEW S, NEW s \in Seq(S), NEW t \in Seq(S), NEW u \in Seq(S)
  PROVE  s \o t \o u = s \o (t \o u) /\ t \o u \in Seq(S) /\ s \o t \o u \in Seq(S)
<1>1. t \o u \in Seq(S)
  BY ConcatProperties
<1>2. s \o (t \o u) \in Seq(S)
  BY <1>1, ConcatProperties
<1>3. s \o t \o u = s \o (t \o u)
  BY ConcatAssociative
<1> QED BY <1>1, <1>2, <1>3

(* Regroup for texts, quantified.                                          *)
LEMMA RegroupBytes ==
  \A s, t, u \in Seq(Nat) : /\ s \o t \o u = s \o (t \o u) /\ t \o u \in Seq(Nat)
                            /\ s \o t \o u \in Seq(Nat)
<1> TAKE s, t, u \in Seq(Nat)
<1>1. s \in Seq(Nat) /\ t \in Seq(Nat) /\ u \in Seq(Nat)
  OBVIOUS
<1> QED BY ONLY <1>1, Regroup

(* The first segments of a path.                                           *)
LEMMA PathStart ==
  ASSUME NEW p \in Paths, NEW i \in 0..Len(p)
  PROVE  /\ SubSeq(p, 1, i) \in Paths /\ Len(SubSeq(p, 1, i)) = i
         /\ \A j \in 1..i : SubSeq(p, 1, i)[j] = p[j]
         /\ \A j \in 0..i : SubSeq(SubSeq(p, 1, i), 1, j) = SubSeq(p, 1, j)
<1>1. /\ SubSeq(p, 1, i) \in Seq(Seq(Nat)) /\ Len(SubSeq(p, 1, i)) = i
      /\ \A j \in 1..i : SubSeq(p, 1, i)[j] = p[j]
  <2>1. p \in Seq(Seq(Nat)) /\ Len(p) \in Nat /\ i \in Int
    BY DEF Paths
  <2>2. \A j \in 1..i : p[j] \in Seq(Nat)
    BY <2>1
  <2> QED BY <2>1, <2>2, SubSeqProperties
<1>2. ASSUME NEW j \in 0..i PROVE SubSeq(SubSeq(p, 1, i), 1, j) = SubSeq(p, 1, j)
  <2> DEFINE s == SubSeq(p, 1, i)
             q == SubSeq(s, 1, j)
             r == SubSeq(p, 1, j)
  <2>1. \A k \in 1..j : k \in 1..i /\ s[k] = p[k] /\ s[k] \in Seq(Nat)
    BY <1>1
  <2> HIDE DEF s
  <2>2. q \in Seq(Seq(Nat)) /\ Len(q) = j /\ \A k \in 1..j : q[k] = s[k]
    BY <2>1, SubSeqProperties
  <2>3. r \in Seq(Seq(Nat)) /\ Len(r) = j /\ \A k \in 1..j : r[k] = p[k]
    <3>1. \A k \in 1..j : p[k] \in Seq(Nat)
      BY <2>1
    <3> QED BY <3>1, SubSeqProperties
  <2> HIDE DEF q, r
  <2>4. Len(q) = Len(r) /\ \A k \in 1..Len(q) : q[k] = r[k]
    BY <2>1, <2>2, <2>3
  <2>5. q = r
    BY <2>2, <2>3, <2>4, SeqEqual
  <2> QED BY <2>5 DEF s, q, r
<1> QED BY <1>1, <1>2 DEF Paths

(* t holds the bytes after each segment of p.                              *)
PathBuilt(t, p) ==
  /\ t \in [0..Len(p) -> Seq(Nat)] /\ t[0] = <<Dot, Slash>>
  /\ \A i \in 1..Len(p) : t[i] = t[i-1] \o p[i] \o <<Slash>>

(* PathBytes computes what its loop builds.                                *)
LEMMA PathLoop ==
  ASSUME NEW p \in Paths
  PROVE  \E t : PathBuilt(t, p) /\ PathBytes(p) = t[Len(p)]
<1> DEFINE n == Len(p)
           T == Seq(Nat)
           a == <<Dot, Slash>>
           Eq(h) == h = [i \in 0..n |-> IF i = 0 THEN a ELSE h[i-1] \o p[i] \o <<Slash>>]
           g == [z \in (0+1..n) \X T |-> z[2] \o p[z[1]] \o <<Slash>>]
<1>1. n \in Nat /\ a \in T
  BY DEF Paths, Dot, Slash
<1>2. \A i \in 1..n : \A x \in T : x \o p[i] \o <<Slash>> \in T
  <2>1. ASSUME NEW i \in 1..n, NEW x \in T PROVE x \o p[i] \o <<Slash>> \in T
    <3>1. p[i] \in Seq(Nat) /\ <<Slash>> \in Seq(Nat)
      BY DEF Paths, Slash
    <3> QED BY <3>1, ConcatProperties
  <2> QED BY <2>1
<1>3. PICK k : Loop(k, T, a, 0, n, g)
  <2>1. 0 \in Nat /\ 0 <= n /\ 0 + 1 = 1
    BY <1>1
  <2>2. g \in [(0+1..n) \X T -> T]
    BY <1>2, <2>1
  <2> HIDE DEF g, T, n, a
  <2> QED BY <1>1, <2>1, <2>2, LoopRuns
<1>4. k \in [0..n -> T] /\ k[0] = a
  BY <1>3 DEF Loop
<1>5. \A i \in 1..n : i \in 0..n /\ i # 0 /\ i - 1 \in 0..n /\ i \in 0+1..n
  BY <1>1
<1> HIDE DEF n, T, a
<1>6. \A i \in 1..n : k[i] = k[i-1] \o p[i] \o <<Slash>>
  <2>1. TAKE i \in 1..n
  <2>2. k[i] = g[<<i, k[i-1]>>] /\ <<i, k[i-1]>> \in (0+1..n) \X T
    BY <1>3, <1>4, <1>5 DEF Loop
  <2> QED BY <2>2
<1>7. Eq(k)
  <2> DEFINE h == [i \in 0..n |-> IF i = 0 THEN a ELSE k[i-1] \o p[i] \o <<Slash>>]
  <2>1. \A i \in 0..n : i = 0 \/ i \in 1..n
    BY <1>1
  <2>2. \A i \in 0..n : k[i] = h[i]
    BY <1>4, <1>6, <2>1
  <2>3. k = [i \in 0..n |-> k[i]] /\ h = [i \in 0..n |-> h[i]]
    BY <1>4
  <2>4. k = h
    <3> HIDE DEF h
    <3> QED BY <2>2, <2>3
  <2> QED BY <2>4
<1> DEFINE c == CHOOSE h : Eq(h)
<1>8. Eq(c)
  <2> HIDE DEF Eq
  <2> QED BY <1>7
<1>9. PathBytes(p) = c[n]
  BY DEF PathBytes, n, a
<1> HIDE DEF c
<1>10. c[0] = a /\ \A i \in 1..n : c[i] = c[i-1] \o p[i] \o <<Slash>>
  <2>1. 0 \in 0..n
    BY <1>1
  <2>2. c[0] = a
    BY <1>8, <2>1
  <2>3. ASSUME NEW i \in 1..n PROVE c[i] = c[i-1] \o p[i] \o <<Slash>>
    BY <1>5, <1>8, <2>3
  <2> QED BY <2>2, <2>3
<1>11. c \in [0..n -> T]
  <2>1. c = [i \in 0..n |-> c[i]]
    BY <1>8
  <2>2. c[0] \in T
    BY <1>1, <1>10
  <2>3. \A i \in 0+1..n : c[i-1] \in T => c[i] \in T
    <3>1. TAKE i \in 0+1..n
    <3>2. i \in 1..n
      OBVIOUS
    <3>3. c[i] = c[i-1] \o p[i] \o <<Slash>>
      BY <1>10, <3>2
    <3> QED BY <1>2, <3>2, <3>3
  <2>4. 0 \in Nat /\ 0 <= n
    BY <1>1
  <2> QED BY <1>1, <2>1, <2>2, <2>3, <2>4, LoopStays
<1>12. PathBuilt(c, p)
  BY <1>10, <1>11 DEF PathBuilt, n, T, a
<1> QED BY <1>9, <1>12 DEF n

(* The path of i segments, and of one more.                                *)
LEMMA PathGrows ==
  ASSUME NEW p \in Paths
  PROVE  /\ PathBytes(SubSeq(p, 1, 0)) = <<Dot, Slash>>
         /\ \A i \in 0..Len(p) : PathBytes(SubSeq(p, 1, i)) \in Seq(Nat)
         /\ \A i \in 1..Len(p) : PathBytes(SubSeq(p, 1, i))
                                  = PathBytes(SubSeq(p, 1, i-1)) \o p[i] \o <<Slash>>
         /\ \A i \in 0..Len(p)-1 : PathBytes(SubSeq(p, 1, i+1))
                                    = PathBytes(SubSeq(p, 1, i)) \o p[i+1] \o <<Slash>>
<1>0. Len(p) \in Nat
  BY DEF Paths
<1>7. PICK t : PathBuilt(t, p)
  BY PathLoop
<1>1. /\ t \in [0..Len(p) -> Seq(Nat)] /\ t[0] = <<Dot, Slash>>
      /\ \A i \in 1..Len(p) : t[i] = t[i-1] \o p[i] \o <<Slash>>
  BY <1>7 DEF PathBuilt
<1>2. ASSUME NEW i \in 0..Len(p) PROVE PathBytes(SubSeq(p, 1, i)) = t[i]
  <2> DEFINE q == SubSeq(p, 1, i)
  <2>1. q \in Paths /\ Len(q) = i /\ \A j \in 1..i : q[j] = p[j]
    BY PathStart
  <2> HIDE DEF q
  <2>8. PICK u : PathBuilt(u, q) /\ PathBytes(q) = u[Len(q)]
    BY <2>1, PathLoop
  <2>7. /\ u[0] = <<Dot, Slash>> /\ PathBytes(q) = u[Len(q)]
        /\ \A j \in 1..Len(q) : u[j] = u[j-1] \o q[j] \o <<Slash>>
    BY <2>8 DEF PathBuilt
  <2>2. /\ u[0] = <<Dot, Slash>> /\ PathBytes(q) = u[i]
        /\ \A j \in 1..i : u[j] = u[j-1] \o q[j] \o <<Slash>>
    BY <2>1, <2>7
  <2>3. i \in Nat /\ \A j \in 1..i : j \in 1..Len(p)
    BY <1>0
  <2>4. \A j \in 1..i : u[j-1] = t[j-1] => u[j] = t[j]
    BY <1>1, <2>1, <2>2, <2>3
  <2>5. u[0] = t[0]
    BY <1>1, <2>2
  <2>6. \A j \in 0..i : u[j] = t[j]
    BY <2>3, <2>4, <2>5, Alike
  <2> QED BY <2>2, <2>3, <2>6 DEF q
<1>3. \A i \in 1..Len(p) : i \in 0..Len(p) /\ i - 1 \in 0..Len(p) /\ 0 \in 0..Len(p)
  BY <1>0
<1>4. 0 \in 0..Len(p)
  BY <1>0
<1>5. \A i \in 0..Len(p)-1 : i \in 0..Len(p) /\ i + 1 \in 0..Len(p) /\ i + 1 \in 1..Len(p) /\ i + 1 - 1 = i
  BY <1>0
<1>6. ASSUME NEW i \in 0..Len(p)-1
      PROVE  PathBytes(SubSeq(p, 1, i+1)) = PathBytes(SubSeq(p, 1, i)) \o p[i+1] \o <<Slash>>
  <2>2. PICK j : j = i + 1
    OBVIOUS
  <2>3. j \in 1..Len(p) /\ j - 1 = i
    BY <1>5, <2>2
  <2>4. t[j] = t[j-1] \o p[j] \o <<Slash>>
    BY <1>1, <2>3
  <2>1. t[i+1] = t[i] \o p[i+1] \o <<Slash>>
    BY <2>2, <2>3, <2>4
  <2> QED BY <1>2, <1>5, <2>1
<1> QED BY <1>1, <1>2, <1>3, <1>4, <1>6

(* t is s and what r adds, the first byte added a dot.                     *)
Starts(s, t) == \E r \in Seq(Nat) : t = s \o r

(* t goes on after s with a dot, as the next path of a key does.           *)
Continues(s, t) == \E r \in Seq(Nat) : Len(r) >= 1 /\ r[1] = Dot /\ t = s \o r

(* What is appended twice still starts with s.                             *)
LEMMA StartsOn ==
  \A s, r, q \in Seq(Nat) : Starts(s, (s \o r) \o q)
<1> TAKE s, r, q \in Seq(Nat)
<1>1. s \o r \o q = s \o (r \o q) /\ r \o q \in Seq(Nat)
  BY RegroupBytes
<1> QED BY <1>1 DEF Starts

(* Starts is transitive.                                                   *)
LEMMA StartsTransitive ==
  ASSUME NEW s \in Seq(Nat), NEW t \in Seq(Nat), NEW u \in Seq(Nat), Starts(s, t), Starts(t, u)
  PROVE  Starts(s, u)
<1>1. PICK r \in Seq(Nat) : t = s \o r
  BY DEF Starts
<1>2. PICK q \in Seq(Nat) : u = t \o q
  BY DEF Starts
<1>3. u = (s \o r) \o q
  BY <1>1, <1>2
<1> QED BY <1>3, StartsOn

(* Starts is reflexive.                                                    *)
LEMMA StartsReflexive ==
  ASSUME NEW s \in Seq(Nat)
  PROVE  Starts(s, s)
<1>1. s = s \o <<>> /\ <<>> \in Seq(Nat)
  BY ConcatEmptySeq
<1> QED BY <1>1 DEF Starts

(* What starts a text agrees with it byte by byte.                         *)
LEMMA StartsAlike ==
  ASSUME NEW s \in Seq(Nat), NEW t \in Seq(Nat), Starts(s, t)
  PROVE  Len(s) <= Len(t) /\ \A k \in 1..Len(s) : t[k] = s[k]
<1>1. PICK r \in Seq(Nat) : t = s \o r
  BY DEF Starts
<1>2. /\ Len(t) = Len(s) + Len(r) /\ Len(s) \in Nat /\ Len(r) \in Nat
      /\ \A k \in 1..Len(s) + Len(r) : t[k] = IF k <= Len(s) THEN s[k] ELSE r[k - Len(s)]
  BY <1>1, ConcatProperties
<1>3. \A k \in 1..Len(s) : k \in 1..Len(s) + Len(r) /\ k <= Len(s)
  BY <1>2
<1> QED BY <1>2, <1>3

(* The path of i segments starts the path of more.                         *)
LEMMA PathStarts ==
  ASSUME NEW p \in Paths, NEW i \in 0..Len(p), NEW j \in 0..Len(p), i <= j
  PROVE  Starts(PathBytes(SubSeq(p, 1, i)), PathBytes(SubSeq(p, 1, j)))
<1> DEFINE b == [k \in 0..Len(p) |-> PathBytes(SubSeq(p, 1, k))]
           G == {k \in i..Len(p) : Starts(b[i], b[k])}
<1>0. Len(p) \in Nat /\ i <= Len(p)
  BY DEF Paths
<1>1. /\ b \in [0..Len(p) -> Seq(Nat)]
      /\ \A k \in 1..Len(p) : b[k] = b[k-1] \o p[k] \o <<Slash>>
  <2>1. \A k \in 1..Len(p) : k \in 0..Len(p) /\ k - 1 \in 0..Len(p)
    BY <1>0
  <2> QED BY <2>1, PathGrows
<1>2. b[i] = PathBytes(SubSeq(p, 1, i)) /\ b[j] = PathBytes(SubSeq(p, 1, j))
  OBVIOUS
<1> HIDE DEF b
<1>3. i \in G
  <2>1. i \in i..Len(p) /\ b[i] \in Seq(Nat)
    BY <1>0, <1>1
  <2> QED BY <2>1, StartsReflexive
<1>4. ASSUME NEW k \in i+1..Len(p), k - 1 \in G PROVE k \in G
  <2>1. k \in 1..Len(p) /\ k - 1 \in 0..Len(p) /\ k \in i..Len(p) /\ k \in 0..Len(p)
    BY <1>0
  <2>7. p[k] \in Seq(Nat) /\ <<Slash>> \in Seq(Nat)
    BY <2>1 DEF Paths, Slash
  <2>2. b[k-1] \in Seq(Nat) /\ b[k] \in Seq(Nat) /\ b[i] \in Seq(Nat)
    BY <1>1, <2>1
  <2>8. b[k-1] \o p[k] \o <<Slash>> = b[k-1] \o (p[k] \o <<Slash>>) /\ p[k] \o <<Slash>> \in Seq(Nat)
    <3> DEFINE u == b[k-1]
               w == p[k]
               v == <<Slash>>
    <3>1. u \in Seq(Nat) /\ w \in Seq(Nat) /\ v \in Seq(Nat)
      BY <2>2, <2>7
    <3> HIDE DEF u, v, w
    <3>2. u \o w \o v = u \o (w \o v) /\ w \o v \in Seq(Nat)
      BY ONLY <3>1, RegroupBytes
    <3> QED BY <3>2 DEF u, v, w
  <2>3. b[k] = b[k-1] \o (p[k] \o <<Slash>>) /\ p[k] \o <<Slash>> \in Seq(Nat)
    BY <1>1, <2>1, <2>8
  <2>4. Starts(b[k-1], b[k])
    BY <2>3 DEF Starts
  <2>5. Starts(b[i], b[k-1])
    BY <1>4
  <2>6. Starts(b[i], b[k])
    BY <2>2, <2>4, <2>5, StartsTransitive
  <2> QED BY <2>1, <2>6
<1>5. i..Len(p) \subseteq G
  <2> HIDE DEF G
  <2>1. i \in Nat /\ Len(p) \in Nat
    BY <1>0
  <2> QED BY <1>0, <1>3, <1>4, <2>1, Climb
<1>6. j \in i..Len(p)
  BY <1>0
<1> QED BY <1>2, <1>5, <1>6

(* They differ at a byte.                                                  *)
Apart(s, t) == \E k \in 1..Len(s) : k <= Len(t) /\ s[k] # t[k]

(* Paths that part at a segment part at a byte.                            *)
LEMMA PathsPart ==
  ASSUME NEW p \in Dirs, NEW q \in Dirs, NEW m \in Nat, m < Len(p), m < Len(q),
         SubSeq(p, 1, m) = SubSeq(q, 1, m), p[m+1] # q[m+1],
         NEW i \in m+1..Len(p), NEW j \in m+1..Len(q)
  PROVE  Apart(PathBytes(SubSeq(p, 1, i)), PathBytes(SubSeq(q, 1, j)))
<1> DEFINE P == PathBytes(SubSeq(p, 1, m))
           a == p[m+1]
           b == q[m+1]
           s == PathBytes(SubSeq(p, 1, i))
           t == PathBytes(SubSeq(q, 1, j))
<1>1. /\ p \in Paths /\ q \in Paths /\ Len(p) \in Nat /\ Len(q) \in Nat
      /\ a \in Seq(Nat) /\ b \in Seq(Nat) /\ a # b
      /\ \A k \in 1..Len(a) : a[k] # Slash
      /\ \A k \in 1..Len(b) : b[k] # Slash
  <2>1. m + 1 \in 1..Len(p) /\ m + 1 \in 1..Len(q)
    BY DirIsPath
  <2> QED BY <2>1, DirIsPath
<1>2. /\ m \in 0..Len(p) /\ m \in 0..Len(q) /\ m + 1 \in 0..Len(p) /\ m + 1 \in 0..Len(q)
      /\ m \in 0..Len(p)-1 /\ m \in 0..Len(q)-1
      /\ i \in 0..Len(p) /\ j \in 0..Len(q) /\ m + 1 <= i /\ m + 1 <= j
  BY <1>1
<1>3. P \in Seq(Nat) /\ s \in Seq(Nat) /\ t \in Seq(Nat)
  BY <1>1, <1>2, PathGrows
<1> DEFINE x == P \o a \o <<Slash>>
           y == P \o b \o <<Slash>>
<1>4. PathBytes(SubSeq(p, 1, m+1)) = x /\ PathBytes(SubSeq(q, 1, m+1)) = y
  BY <1>1, <1>2, PathGrows
<1>5. Starts(x, s) /\ Starts(y, t)
  BY <1>1, <1>2, <1>4, PathStarts
<1> HIDE DEF P, a, b, s, t
<1>6. /\ x \in Seq(Nat) /\ y \in Seq(Nat) /\ Len(P) \in Nat /\ Len(a) \in Nat /\ Len(b) \in Nat
      /\ Len(x) = Len(P) + Len(a) + 1 /\ Len(y) = Len(P) + Len(b) + 1
      /\ \A k \in 1..Len(a) : x[Len(P) + k] = a[k]
      /\ \A k \in 1..Len(b) : y[Len(P) + k] = b[k]
      /\ x[Len(P) + Len(a) + 1] = Slash
      /\ y[Len(P) + Len(b) + 1] = Slash
  <2>1. ASSUME NEW c \in Seq(Nat)
        PROVE  /\ P \o c \o <<Slash>> \in Seq(Nat) /\ Len(P) \in Nat /\ Len(c) \in Nat
               /\ Len(P \o c \o <<Slash>>) = Len(P) + Len(c) + 1
               /\ \A k \in 1..Len(c) : (P \o c \o <<Slash>>)[Len(P) + k] = c[k]
               /\ (P \o c \o <<Slash>>)[Len(P) + Len(c) + 1] = Slash
    <3> DEFINE u == P \o c
               v == <<Slash>>
    <3>1. /\ u \in Seq(Nat) /\ Len(u) = Len(P) + Len(c) /\ Len(P) \in Nat /\ Len(c) \in Nat
          /\ \A k \in 1..Len(c) : u[Len(P) + k] = c[k]
      BY <1>3, Joined
    <3>2. v \in Seq(Nat) /\ Len(v) = 1 /\ v[1] = Slash
      BY DEF Slash
    <3> HIDE DEF u, v
    <3>3. /\ u \o v \in Seq(Nat) /\ Len(u \o v) = Len(u) + Len(v)
          /\ \A k \in 1..Len(u) : (u \o v)[k] = u[k]
          /\ \A k \in 1..Len(v) : (u \o v)[Len(u) + k] = v[k]
      <4>1. u \in Seq(Nat) /\ v \in Seq(Nat)
        BY <3>1, <3>2
      <4> QED BY ONLY <4>1, Joined
    <3>4. \A k \in 1..Len(c) : (u \o v)[Len(P) + k] = c[k]
      <4>1. TAKE k \in 1..Len(c)
      <4>2. Len(P) + k \in 1..Len(u)
        BY <3>1
      <4> QED BY <3>1, <3>3, <4>2
    <3>5. (u \o v)[Len(P) + Len(c) + 1] = Slash
      <4>1. 1 \in 1..Len(v)
        BY <3>2
      <4>2. (u \o v)[Len(u) + 1] = Slash
        BY <3>2, <3>3, <4>1
      <4> QED BY <3>1, <4>2
    <3>6. Len(u \o v) = Len(P) + Len(c) + 1
      BY <3>1, <3>2, <3>3
    <3> QED BY <3>1, <3>3, <3>4, <3>5, <3>6 DEF u, v
  <2> QED BY <1>1, <2>1
<1> HIDE DEF x, y
<1>13. ASSUME NEW k \in Nat, k >= 1
       PROVE  /\ k <= Len(a) + 1 => Len(P) + k \in 1..Len(x)
              /\ k <= Len(b) + 1 => Len(P) + k \in 1..Len(y) /\ Len(P) + k <= Len(y)
  <2>1. Len(P) \in Nat /\ Len(a) \in Nat /\ Len(b) \in Nat
    BY <1>6
  <2>2. Len(x) = Len(P) + Len(a) + 1 /\ Len(y) = Len(P) + Len(b) + 1
    BY <1>6
  <2> QED BY <1>13, <2>1, <2>2
<1>7. \E k \in 1..Len(x) : k <= Len(y) /\ x[k] # y[k]
  <2>1. CASE \E k \in 1..Len(a) : k <= Len(b) /\ a[k] # b[k]
    <3>1. PICK k \in 1..Len(a) : k <= Len(b) /\ a[k] # b[k]
      BY <2>1
    <3>3. Len(a) \in Nat /\ Len(b) \in Nat
      BY <1>6
    <3>4. k \in Nat /\ k >= 1 /\ k <= Len(a) + 1 /\ k <= Len(b) + 1 /\ k \in 1..Len(b)
      BY <3>1, <3>3
    <3>2. k \in 1..Len(b) /\ Len(P) + k \in 1..Len(x) /\ Len(P) + k <= Len(y)
      BY <1>13, <3>4
    <3> QED BY <1>6, <3>1, <3>2
  <2>2. CASE \A k \in 1..Len(a) : k <= Len(b) => a[k] = b[k]
    <3>1. Len(a) # Len(b)
      BY <1>1, <1>6, <2>2, SeqEqual
    <3>2. CASE Len(a) < Len(b)
      <4>0. Len(P) \in Nat /\ Len(a) \in Nat /\ Len(b) \in Nat
        BY <1>6
      <4>3. Len(a) + 1 \in Nat /\ Len(a) + 1 >= 1 /\ Len(a) + 1 <= Len(a) + 1 /\ Len(a) + 1 <= Len(b) + 1
            /\ Len(a) + 1 \in 1..Len(b) /\ Len(P) + (Len(a) + 1) = Len(P) + Len(a) + 1
        BY <4>0, <3>2
      <4>1. /\ Len(a) + 1 \in 1..Len(b) /\ Len(P) + Len(a) + 1 \in 1..Len(x)
            /\ Len(P) + Len(a) + 1 <= Len(y) /\ Len(P) + (Len(a) + 1) = Len(P) + Len(a) + 1
        BY <1>13, <4>3
      <4>2. y[Len(P) + (Len(a) + 1)] = b[Len(a) + 1] /\ b[Len(a) + 1] # Slash
        BY <1>1, <1>6, <4>1
      <4> QED BY <1>6, <4>1, <4>2
    <3>3. CASE Len(b) < Len(a)
      <4>0. Len(P) \in Nat /\ Len(a) \in Nat /\ Len(b) \in Nat
        BY <1>6
      <4>3. Len(b) + 1 \in Nat /\ Len(b) + 1 >= 1 /\ Len(b) + 1 <= Len(a) + 1 /\ Len(b) + 1 <= Len(b) + 1
            /\ Len(b) + 1 \in 1..Len(a) /\ Len(P) + (Len(b) + 1) = Len(P) + Len(b) + 1
        BY <4>0, <3>3
      <4>1. /\ Len(b) + 1 \in 1..Len(a) /\ Len(P) + Len(b) + 1 \in 1..Len(x)
            /\ Len(P) + Len(b) + 1 <= Len(y) /\ Len(P) + (Len(b) + 1) = Len(P) + Len(b) + 1
        BY <1>13, <4>3
      <4>2. x[Len(P) + (Len(b) + 1)] = a[Len(b) + 1] /\ a[Len(b) + 1] # Slash
        BY <1>1, <1>6, <4>1
      <4> QED BY <1>6, <4>1, <4>2
    <3> QED BY <1>6, <3>1, <3>2, <3>3
  <2> QED BY <2>1, <2>2
<1>8. PICK k \in 1..Len(x) : k <= Len(y) /\ x[k] # y[k]
  BY <1>7
<1>9. /\ Len(x) <= Len(s) /\ \A z \in 1..Len(x) : s[z] = x[z]
      /\ Len(y) <= Len(t) /\ \A z \in 1..Len(y) : t[z] = y[z]
  BY <1>3, <1>5, <1>6, StartsAlike
<1>10. k \in 1..Len(s) /\ k <= Len(t) /\ k \in 1..Len(y)
  <2>2. x \in Seq(Nat) /\ y \in Seq(Nat)
    BY <1>6
  <2>1. Len(x) \in Nat /\ Len(y) \in Nat /\ Len(s) \in Nat /\ Len(t) \in Nat
    BY <1>3, <2>2
  <2> QED BY <1>8, <1>9, <2>1
<1>11. s[k] # t[k]
  BY <1>8, <1>9, <1>10
<1>12. Apart(s, t)
  BY <1>10, <1>11 DEF Apart
<1> QED BY <1>12 DEF s, t

----------------------------------------------------------------------------
(* Chains of parents                                                       *)

(* The maximum of a bounded set of naturals.                               *)
LEMMA MaxIs ==
  ASSUME NEW S \in SUBSET Nat, S # {}, NEW n \in Nat, \A x \in S : x <= n
  PROVE  Max(S) \in S /\ \A y \in S : y <= Max(S)
<1> DEFINE B == {n - x : x \in S}
<1>1. B \in SUBSET Nat /\ B # {}
  <2>1. \A x \in S : x \in Nat /\ x <= n
    OBVIOUS
  <2>2. \A x \in S : n - x \in Nat
    BY <2>1
  <2> QED BY <2>2
<1>2. PICK m \in B : \A j \in B : m <= j
  <2> HIDE DEF B
  <2> QED BY <1>1, Least
<1>3. PICK x \in S : m = n - x
  BY <1>2
<1>4. ASSUME NEW y \in S PROVE x >= y
  <2>1. m <= n - y
    BY <1>2
  <2> QED BY <1>3, <2>1
<1>5. \E z \in S : \A y \in S : z >= y
  BY <1>4
<1>6. Max(S) \in S /\ \A y \in S : Max(S) >= y
  BY <1>5 DEF Max
<1> QED BY <1>6

(* c holds, after each segment of d, the chain of registered prefixes.     *)
Chained(c, d) ==
  /\ c \in [0..Len(d) -> Seq(Registered)]
  /\ c[0] = <<>>
  /\ \A i \in 1..Len(d) : c[i] = IF SubSeq(d, 1, i) \in Registered
                                 THEN Append(c[i-1], SubSeq(d, 1, i)) ELSE c[i-1]

(* Every directory has the chain of its registered prefixes.               *)
LEMMA ChainExists ==
  ASSUME NEW d \in Dirs
  PROVE  \E c : Chained(c, d)
<1> DEFINE n == Len(d)
           T == Seq(Registered)
           g == [z \in (0+1..n) \X T |-> IF SubSeq(d, 1, z[1]) \in Registered
                                         THEN Append(z[2], SubSeq(d, 1, z[1])) ELSE z[2]]
<1>1. n \in Nat /\ <<>> \in T /\ 0 \in Nat /\ 0 <= n /\ 0 + 1 = 1
  <2>1. <<>> \in T
    BY EmptySeq
  <2> QED BY <2>1, DirIsPath
<1>2. g \in [(0+1..n) \X T -> T]
  <2>1. \A R \in {Registered} : \A x \in R, s \in Seq(R) : Append(s, x) \in Seq(R)
    OBVIOUS
  <2> QED BY <2>1
<1> HIDE DEF n, T, g
<1>3. PICK k : Loop(k, T, <<>>, 0, n, g)
  BY <1>1, <1>2, LoopRuns
<1>4. ASSUME NEW i \in 1..n
      PROVE  k[i] = IF SubSeq(d, 1, i) \in Registered
                    THEN Append(k[i-1], SubSeq(d, 1, i)) ELSE k[i-1]
  <2>1. i \in 0+1..n /\ i - 1 \in 0..n
    BY <1>1
  <2>2. k[i] = g[<<i, k[i-1]>>] /\ <<i, k[i-1]>> \in (0+1..n) \X T
    BY <1>3, <2>1 DEF Loop
  <2> QED BY <2>2 DEF g
<1>5. Chained(k, d)
  BY <1>1, <1>3, <1>4 DEF Loop, Chained, n, T
<1> QED BY <1>5

(* Directories with the same first segments have the same first links.     *)
LEMMA ChainsAgree ==
  ASSUME NEW d \in Dirs, NEW e \in Dirs, NEW c, NEW b, Chained(c, d), Chained(b, e),
         NEW m \in 0..Len(d), m <= Len(e), SubSeq(d, 1, m) = SubSeq(e, 1, m)
  PROVE  \A i \in 0..m : c[i] = b[i]
<1>1. m \in Nat /\ d \in Paths /\ e \in Paths /\ Len(d) \in Nat /\ Len(e) \in Nat
  BY DirIsPath
<1>2. \A i \in 1..m : i \in 1..Len(d) /\ i \in 1..Len(e) /\ i \in 0..m /\ m \in 0..Len(e)
  BY <1>1
<1>3. ASSUME NEW i \in 1..m PROVE SubSeq(d, 1, i) = SubSeq(e, 1, i)
  <2>1. SubSeq(SubSeq(d, 1, m), 1, i) = SubSeq(d, 1, i)
    BY <1>1, <1>2, PathStart
  <2>2. SubSeq(SubSeq(e, 1, m), 1, i) = SubSeq(e, 1, i)
    BY <1>1, <1>2, PathStart
  <2> QED BY <2>1, <2>2
<1>4. \A i \in 1..m : c[i-1] = b[i-1] => c[i] = b[i]
  BY <1>2, <1>3 DEF Chained
<1>5. c[0] = b[0]
  BY DEF Chained
<1>6. m \in Nat
  BY <1>1
<1> QED BY ONLY <1>4, <1>5, <1>6, Alike

(* The chain stays as it is where no prefix is registered.                 *)
LEMMA ChainRests ==
  ASSUME NEW d \in Dirs, NEW c, Chained(c, d), NEW m \in 0..Len(d), NEW k \in m..Len(d),
         \A i \in m+1..k : SubSeq(d, 1, i) \notin Registered
  PROVE  c[k] = c[m]
<1> DEFINE G == {i \in m..k : c[i] = c[m]}
<1>1. m \in Nat /\ k \in Nat /\ m <= k /\ Len(d) \in Nat /\ k <= Len(d)
  BY DirIsPath
<1>2. m \in G
  BY <1>1
<1>3. ASSUME NEW i \in m+1..k, i - 1 \in G PROVE i \in G
  <2>1. i \in 1..Len(d) /\ i \in m..k
    BY <1>1
  <2>2. c[i] = c[i-1]
    BY <2>1 DEF Chained
  <2> QED BY <1>3, <2>1, <2>2
<1>4. m..k \subseteq G
  <2> HIDE DEF G
  <2> QED BY <1>1, <1>2, <1>3, Climb
<1>5. k \in m..k
  BY <1>1
<1> QED BY <1>4, <1>5

(* The chain holds the registered prefixes and nothing else.               *)
LEMMA ChainHolds ==
  ASSUME NEW d \in Dirs, NEW c, Chained(c, d)
  PROVE  \A i \in 0..Len(d) : \A x :
           Contains(c[i], x) <=> x \in Registered /\ \E j \in 1..i : x = SubSeq(d, 1, j)
<1> DEFINE Ok(i) == \A x : Contains(c[i], x) <=> x \in Registered /\ \E j \in 1..i : x = SubSeq(d, 1, j)
           G == {i \in 0..Len(d) : Ok(i)}
<1>1. Len(d) \in Nat /\ 0 \in Nat /\ 0 <= Len(d)
  BY DirIsPath
<1>2. 0 \in G
  <2>1. 0 \in 0..Len(d) /\ c[0] = <<>> /\ Len(<<>>) = 0
    BY <1>1 DEF Chained
  <2>2. Ok(0)
    BY <2>1 DEF Contains
  <2> QED BY <2>1, <2>2
<1>3. ASSUME NEW i \in 0+1..Len(d), i - 1 \in G PROVE i \in G
  <2> DEFINE w == c[i-1]
             p == SubSeq(d, 1, i)
  <2>1. i \in 1..Len(d) /\ i \in 0..Len(d) /\ i - 1 \in 0..Len(d)
    BY <1>1
  <2>2. w \in Seq(Registered) /\ c[i] = IF p \in Registered THEN Append(w, p) ELSE w
    BY <2>1 DEF Chained
  <2>3. Ok(i - 1)
    BY <1>3
  <2>4. \A j \in 1..i : j = i \/ j \in 1..i-1
    OBVIOUS
  <2>5. i \in 1..i /\ \A j \in 1..i-1 : j \in 1..i
    BY <2>1
  <2>6. CASE p \notin Registered
    <3>1. c[i] = c[i-1]
      BY <2>2, <2>6
    <3>2. ASSUME NEW x
          PROVE  Contains(c[i], x) <=> x \in Registered /\ \E j \in 1..i : x = SubSeq(d, 1, j)
      <4>1. Contains(c[i], x) <=> x \in Registered /\ \E j \in 1..i-1 : x = SubSeq(d, 1, j)
        BY <2>3, <3>1
      <4> QED BY <2>4, <2>5, <2>6, <4>1
    <3> QED BY <2>1, <3>2
  <2>7. CASE p \in Registered
    <3> HIDE DEF w
    <3>1. /\ Len(Append(w, p)) = Len(w) + 1 /\ Append(w, p)[Len(w) + 1] = p /\ Len(w) \in Nat
          /\ \A k \in 1..Len(w) : Append(w, p)[k] = w[k]
      BY <2>2, <2>7, AppendProperties, LenProperties
    <3>2. ASSUME NEW x PROVE Contains(Append(w, p), x) <=> Contains(w, x) \/ x = p
      <4>1. \A k \in 1..Len(w) + 1 : k = Len(w) + 1 \/ k \in 1..Len(w)
        BY <3>1
      <4>2. Len(w) + 1 \in 1..Len(w) + 1 /\ \A k \in 1..Len(w) : k \in 1..Len(w) + 1
        BY <3>1
      <4> QED BY <3>1, <4>1, <4>2 DEF Contains
    <3>3. ASSUME NEW x
          PROVE  Contains(c[i], x) <=> x \in Registered /\ \E j \in 1..i : x = SubSeq(d, 1, j)
      <4>1. Contains(w, x) <=> x \in Registered /\ \E j \in 1..i-1 : x = SubSeq(d, 1, j)
        BY <2>3 DEF w
      <4>2. Contains(c[i], x) <=> Contains(w, x) \/ x = p
        BY <2>2, <2>7, <3>2
      <4> QED BY <2>4, <2>5, <2>7, <4>1, <4>2
    <3> QED BY <2>1, <3>3
  <2> QED BY <2>6, <2>7
<1>4. 0..Len(d) \subseteq G
  <2> HIDE DEF G
  <2> QED BY <1>1, <1>2, <1>3, Climb
<1> QED BY <1>4

(* All segments of a path are the path.                                    *)
LEMMA WholePath ==
  ASSUME NEW d \in Dirs
  PROVE  SubSeq(d, 1, Len(d)) = d
<1>1. d \in Seq(Seq(Nat))
  BY DirIsPath DEF Paths
<1> QED BY <1>1, SubSeqFull

(* The nearest registered ancestor and the chain that ends in it.          *)
LEMMA ParentChain ==
  ASSUME NEW d \in Registered, NEW c, Chained(c, d)
  PROVE  /\ Parent(d) = NoDir => c[Len(d)] = <<d>>
         /\ Parent(d) # NoDir =>
              /\ Parent(d) \in Registered /\ Len(Parent(d)) < Len(d)
              /\ \A b : Chained(b, Parent(d)) => c[Len(d)] = Append(b[Len(Parent(d))], d)
<1> DEFINE up == {i \in 1..Len(d) - 1 : SubSeq(d, 1, i) \in Registered}
           n == Len(d)
<1>1. d \in Dirs /\ d \in Paths /\ n \in Nat /\ n >= 1 /\ SubSeq(d, 1, n) = d
  BY DirIsPath, WholePath DEF Registered
<1>2. Parent(d) = IF up = {} THEN NoDir ELSE SubSeq(d, 1, Max(up))
  BY DEF Parent
<1>3. c[n] = Append(c[n-1], d) /\ c[0] = <<>>
  <2>1. n \in 1..Len(d)
    BY <1>1
  <2>2. c[n] = IF SubSeq(d, 1, n) \in Registered THEN Append(c[n-1], SubSeq(d, 1, n)) ELSE c[n-1]
    BY <2>1 DEF Chained
  <2> QED BY <1>1, <2>2 DEF Chained
<1>4. CASE up = {}
  <2>1. 0 \in 0..Len(d) /\ n - 1 \in 0..Len(d) /\ \A i \in 0+1..n-1 : i \in 1..Len(d)-1
    BY <1>1
  <2>2. \A i \in 0+1..n-1 : SubSeq(d, 1, i) \notin Registered
    BY <1>4, <2>1
  <2>3. c[n-1] = <<>>
    BY <1>1, <1>3, <2>1, <2>2, ChainRests
  <2>4. c[n] = <<d>>
    BY <1>3, <2>3
  <2> QED BY <1>2, <1>4, <2>4
<1>5. CASE up # {}
  <2>0. n - 1 \in Nat /\ up \in SUBSET Nat /\ \A x \in up : x <= n - 1
    BY <1>1
  <2> DEFINE m == Max(up)
             p == SubSeq(d, 1, m)
  <2>1. m \in up /\ \A y \in up : y <= m
    <3> HIDE DEF up
    <3> QED BY <1>5, <2>0, MaxIs
  <2>2. m \in 1..n-1 /\ p \in Registered /\ m \in 0..Len(d)
    BY <1>1, <2>1
  <2> HIDE DEF m
  <2>3. Parent(d) = p /\ Len(p) = m /\ p \in Dirs
    <3>1. Len(p) = m
      BY <1>1, <2>2, PathStart
    <3> QED BY <1>2, <1>5, <2>2, <3>1 DEF m, Registered
  <2>4. Len(p) < Len(d) /\ p # NoDir
    <3>1. p # <<>>
      BY <2>2, <2>3
    <3> QED BY <1>1, <2>2, <2>3, <3>1 DEF NoDir
  <2>5. c[n-1] = c[m]
    <3>1. ASSUME NEW i \in m+1..n-1 PROVE SubSeq(d, 1, i) \notin Registered
      <4>1. i \in 1..Len(d)-1 /\ ~(i <= m)
        BY <1>1, <2>2
      <4>2. i \notin up
        BY <2>1, <4>1
      <4> QED BY <4>1, <4>2
    <3>2. n - 1 \in m..Len(d)
      BY <1>1, <2>2
    <3> QED BY <1>1, <2>2, <3>1, <3>2, ChainRests
  <2>6. ASSUME NEW b, Chained(b, p) PROVE c[m] = b[m]
    <3>1. m \in 0..m /\ m <= Len(p) /\ SubSeq(p, 1, m) = SubSeq(d, 1, m)
      BY <1>1, <2>2, <2>3, PathStart
    <3>2. \A i \in 0..m : c[i] = b[i]
      <4> HIDE DEF p
      <4> QED BY <1>1, <2>2, <2>3, <2>6, <3>1, ChainsAgree
    <3> QED BY <3>1, <3>2
  <2> HIDE DEF p
  <2>7. \A b : Chained(b, p) => c[n] = Append(b[Len(p)], d)
    BY <1>3, <2>3, <2>5, <2>6
  <2> QED BY <2>2, <2>3, <2>4, <2>7
<1> QED BY <1>4, <1>5

(* The chain of parents is the chain of registered prefixes.               *)
LEMMA AncestryIs ==
  ASSUME NEW d \in Registered, NEW c, Chained(c, d)
  PROVE  Ancestry[d] = c[Len(d)]
<1> DEFINE Eq(a) == a = [x \in Registered |-> IF Parent(x) = NoDir THEN <<x>>
                                              ELSE Append(a[Parent(x)], x)]
           ch(x) == CHOOSE b : Chained(b, x)
           A == [x \in Registered |-> ch(x)[Len(x)]]
<1>0. Registered \subseteq Dirs
  BY DEF Registered
<1>1. ASSUME NEW x \in Registered PROVE Chained(ch(x), x)
  <2>1. \E b : Chained(b, x)
    BY <1>0, ChainExists
  <2> QED BY <2>1
<1> HIDE DEF ch
<1>2. \A x \in Registered : A[x] = ch(x)[Len(x)]
  OBVIOUS
<1>3. A = [x \in Registered |-> A[x]]
  OBVIOUS
<1> HIDE DEF A
<1>4. ASSUME NEW x \in Registered
      PROVE  A[x] = IF Parent(x) = NoDir THEN <<x>> ELSE Append(A[Parent(x)], x)
  <2>1. CASE Parent(x) = NoDir
    BY <1>1, <1>2, <2>1, ParentChain
  <2>2. CASE Parent(x) # NoDir
    <3>1. /\ Parent(x) \in Registered
          /\ \A b : Chained(b, Parent(x)) => ch(x)[Len(x)] = Append(b[Len(Parent(x))], x)
      BY <1>1, <2>2, ParentChain
    <3>2. ch(x)[Len(x)] = Append(ch(Parent(x))[Len(Parent(x))], x)
      BY <1>1, <3>1
    <3> QED BY <1>2, <2>2, <3>1, <3>2
  <2> QED BY <2>1, <2>2
<1>5. Eq(A)
  <2> DEFINE h == [x \in Registered |-> IF Parent(x) = NoDir THEN <<x>> ELSE Append(A[Parent(x)], x)]
  <2>1. \A x \in Registered : A[x] = h[x]
    BY <1>4
  <2>2. h = [x \in Registered |-> h[x]]
    OBVIOUS
  <2>3. A = h
    <3> HIDE DEF h
    <3> QED BY <1>3, <2>1, <2>2
  <2> QED BY <2>3
<1> DEFINE a == CHOOSE f : Eq(f)
<1>6. Eq(a)
  <2> HIDE DEF Eq
  <2> QED BY <1>5
<1>7. Ancestry = a
  BY DEF Ancestry
<1> HIDE DEF a
<1>8. \A x \in Registered : a[x] = IF Parent(x) = NoDir THEN <<x>> ELSE Append(a[Parent(x)], x)
  BY <1>6
<1> DEFINE W == {x \in Registered : a[x] # A[x]}
           B == {Len(x) : x \in W}
<1>9. W = {}
  <2>1. SUFFICES ASSUME W # {} PROVE FALSE
    OBVIOUS
  <2>2. B \in SUBSET Nat /\ B # {}
    BY <1>0, <2>1, DirIsPath
  <2>3. PICK m \in B : \A j \in B : m <= j
    <3> HIDE DEF B
    <3> QED BY <2>2, Least
  <2>4. PICK x \in W : m = Len(x)
    BY <2>3
  <2>5. Parent(x) # NoDir
    BY <1>4, <1>8, <2>4
  <2>6. Parent(x) \in Registered /\ Len(Parent(x)) < Len(x)
    BY <1>1, <2>4, <2>5, ParentChain
  <2>7. Parent(x) \in W
    BY <1>4, <1>8, <2>4, <2>5, <2>6
  <2>8. m <= Len(Parent(x)) /\ Len(Parent(x)) \in Nat /\ Len(x) \in Nat
    <3>1. Len(Parent(x)) \in B
      BY <2>7
    <3> QED BY <1>0, <2>2, <2>3, <2>4, <3>1
  <2> QED BY <2>4, <2>6, <2>8
<1>10. c[Len(d)] = ch(d)[Len(d)]
  <2>1. d \in Dirs /\ d \in Paths /\ Len(d) \in Nat /\ Len(d) \in 0..Len(d) /\ Len(d) <= Len(d)
    BY <1>0, DirIsPath
  <2>2. \A i \in 0..Len(d) : c[i] = ch(d)[i]
    BY <1>1, <2>1, ChainsAgree
  <2> QED BY <2>1, <2>2
<1> QED BY <1>2, <1>7, <1>9, <1>10

----------------------------------------------------------------------------
(* Sort keys                                                               *)

(* The bytes of a path start with a dot.                                   *)
LEMMA PathType ==
  ASSUME NEW x \in Dirs
  PROVE  /\ PathBytes(x) \in Seq(Nat) /\ Len(PathBytes(x)) \in Nat
         /\ Len(PathBytes(x)) >= 2 /\ PathBytes(x)[1] = Dot
<1>1. x \in Paths /\ Len(x) \in Nat /\ SubSeq(x, 1, Len(x)) = x
  BY DirIsPath, WholePath
<1>2. 0 \in 0..Len(x) /\ Len(x) \in 0..Len(x) /\ 0 <= Len(x)
  BY <1>1
<1> DEFINE s == <<Dot, Slash>>
           t == PathBytes(x)
<1>3. t \in Seq(Nat) /\ s \in Seq(Nat) /\ Len(s) = 2 /\ s[1] = Dot
  <2>1. PathBytes(SubSeq(x, 1, Len(x))) \in Seq(Nat)
    BY <1>1, <1>2, PathGrows
  <2>2. t \in Seq(Nat)
    BY ONLY <1>1, <2>1
  <2>3. s \in Seq(Nat) /\ Len(s) = 2 /\ s[1] = Dot
    BY DEF Dot, Slash
  <2> QED BY <2>2, <2>3
<1>4. Starts(s, t)
  <2>1. Starts(PathBytes(SubSeq(x, 1, 0)), PathBytes(SubSeq(x, 1, Len(x))))
    BY <1>1, <1>2, PathStarts
  <2> QED BY <1>1, <2>1, PathGrows
<1> HIDE DEF s, t
<1>5. Len(s) <= Len(t) /\ \A k \in 1..Len(s) : t[k] = s[k]
  BY <1>3, <1>4, StartsAlike
<1>6. Len(t) \in Nat /\ 1 \in 1..Len(s)
  BY <1>3
<1>7. t[1] = Dot /\ Len(t) >= 2
  BY <1>3, <1>5, <1>6
<1> QED BY <1>3, <1>6, <1>7 DEF t

(* What a link adds to a sort key.                                         *)
Piece(x) == PathBytes(x) \o <<Separator>>

(* What one link adds to a key starts with a dot.                          *)
LEMMA PieceIs ==
  ASSUME NEW x \in Dirs
  PROVE  /\ Piece(x) \in Seq(Nat) /\ Len(Piece(x)) \in Nat /\ Len(Piece(x)) >= 1
         /\ Piece(x)[1] = Dot /\ Starts(PathBytes(x), Piece(x))
<1> DEFINE s == PathBytes(x)
           t == <<Separator>>
<1>1. s \in Seq(Nat) /\ t \in Seq(Nat) /\ Len(s) \in Nat /\ Len(s) >= 2 /\ s[1] = Dot /\ Len(t) = 1
  BY PathType DEF Separator
<1>2. Piece(x) = s \o t
  BY DEF Piece
<1> HIDE DEF s, t
<1>3. /\ s \o t \in Seq(Nat) /\ Len(s \o t) = Len(s) + Len(t)
      /\ \A k \in 1..Len(s) : (s \o t)[k] = s[k]
  <2>1. s \in Seq(Nat) /\ t \in Seq(Nat)
    BY <1>1
  <2> QED BY ONLY <2>1, Joined
<1>4. Starts(s, s \o t)
  BY <1>1 DEF Starts
<1>5. Len(s \o t) \in Nat /\ Len(s \o t) >= 1
  BY <1>1, <1>3
<1>6. 1 \in 1..Len(s)
  BY <1>1
<1>7. (s \o t)[1] = Dot
  BY <1>1, <1>3, <1>6
<1> QED BY <1>2, <1>3, <1>4, <1>5, <1>7 DEF s

(* t holds the bytes after each link of the chain.                         *)
KeyBuilt(t, chain) ==
  /\ t \in [0..Len(chain) -> Seq(Nat)] /\ t[0] = <<>>
  /\ \A i \in 1..Len(chain) : t[i] = t[i-1] \o PathBytes(chain[i]) \o <<Separator>>

(* SortKey computes what its loop builds.                                  *)
LEMMA KeyLoop ==
  ASSUME NEW chain \in Seq(Registered)
  PROVE  \E t : KeyBuilt(t, chain) /\ SortKey(chain, FALSE) = t[Len(chain)] \o <<>> /\ SortKey(chain, TRUE) = t[Len(chain)] \o <<Tilde>>
<1> DEFINE n == Len(chain)
           T == Seq(Nat)
           a == <<>>
           Eq(h) == h = [i \in 0..n |-> IF i = 0 THEN a ELSE h[i-1] \o PathBytes(chain[i]) \o <<Separator>>]
           g == [z \in (0+1..n) \X T |-> z[2] \o PathBytes(chain[z[1]]) \o <<Separator>>]
<1>1. n \in Nat /\ a \in T
  BY EmptySeq
<1>2. \A i \in 1..n : \A x \in T : x \o PathBytes(chain[i]) \o <<Separator>> \in T
  <2>1. ASSUME NEW i \in 1..n, NEW x \in T PROVE x \o PathBytes(chain[i]) \o <<Separator>> \in T
    <3>1. chain[i] \in Dirs
      BY DEF Registered
    <3>2. PathBytes(chain[i]) \in Seq(Nat) /\ <<Separator>> \in Seq(Nat)
      BY <3>1, PathType DEF Separator
    <3> QED BY <3>2, ConcatProperties
  <2> QED BY <2>1
<1>3. PICK k : Loop(k, T, a, 0, n, g)
  <2>1. 0 \in Nat /\ 0 <= n /\ 0 + 1 = 1
    BY <1>1
  <2>2. g \in [(0+1..n) \X T -> T]
    BY <1>2, <2>1
  <2> HIDE DEF g, T, n, a
  <2> QED BY <1>1, <2>1, <2>2, LoopRuns
<1>4. k \in [0..n -> T] /\ k[0] = a
  BY <1>3 DEF Loop
<1>5. \A i \in 1..n : i \in 0..n /\ i # 0 /\ i - 1 \in 0..n /\ i \in 0+1..n
  BY <1>1
<1> HIDE DEF n, T, a
<1>6. \A i \in 1..n : k[i] = k[i-1] \o PathBytes(chain[i]) \o <<Separator>>
  <2>1. TAKE i \in 1..n
  <2>2. k[i] = g[<<i, k[i-1]>>] /\ <<i, k[i-1]>> \in (0+1..n) \X T
    BY <1>3, <1>4, <1>5 DEF Loop
  <2> QED BY <2>2
<1>7. Eq(k)
  <2> DEFINE h == [i \in 0..n |-> IF i = 0 THEN a ELSE k[i-1] \o PathBytes(chain[i]) \o <<Separator>>]
  <2>1. \A i \in 0..n : i = 0 \/ i \in 1..n
    BY <1>1
  <2>2. \A i \in 0..n : k[i] = h[i]
    BY <1>4, <1>6, <2>1
  <2>3. k = [i \in 0..n |-> k[i]] /\ h = [i \in 0..n |-> h[i]]
    BY <1>4
  <2>4. k = h
    <3> HIDE DEF h
    <3> QED BY <2>2, <2>3
  <2> QED BY <2>4
<1> DEFINE c == CHOOSE h : Eq(h)
<1>8. Eq(c)
  <2> HIDE DEF Eq
  <2> QED BY <1>7
<1>9. SortKey(chain, FALSE) = c[n] \o <<>> /\ SortKey(chain, TRUE) = c[n] \o <<Tilde>>
  BY DEF SortKey, n, a
<1> HIDE DEF c
<1>10. c[0] = a /\ \A i \in 1..n : c[i] = c[i-1] \o PathBytes(chain[i]) \o <<Separator>>
  <2>1. 0 \in 0..n
    BY <1>1
  <2>2. c[0] = a
    BY <1>8, <2>1
  <2>3. ASSUME NEW i \in 1..n PROVE c[i] = c[i-1] \o PathBytes(chain[i]) \o <<Separator>>
    BY <1>5, <1>8, <2>3
  <2> QED BY <2>2, <2>3
<1>11. c \in [0..n -> T]
  <2>1. c = [i \in 0..n |-> c[i]]
    BY <1>8
  <2>2. c[0] \in T
    BY <1>1, <1>10
  <2>3. \A i \in 0+1..n : c[i-1] \in T => c[i] \in T
    <3>1. TAKE i \in 0+1..n
    <3>2. i \in 1..n
      OBVIOUS
    <3>3. c[i] = c[i-1] \o PathBytes(chain[i]) \o <<Separator>>
      BY <1>10, <3>2
    <3> QED BY <1>2, <3>2, <3>3
  <2>4. 0 \in Nat /\ 0 <= n
    BY <1>1
  <2> QED BY <1>1, <2>1, <2>2, <2>3, <2>4, LoopStays
<1>12. KeyBuilt(c, chain)
  BY <1>10, <1>11 DEF KeyBuilt, n, T, a
<1> QED BY <1>9, <1>12 DEF n

(* The key of a chain, of its exit, and of the chain with one more link.   *)
LEMMA KeyIs ==
  ASSUME NEW s \in Seq(Registered)
  PROVE  /\ SortKey(s, FALSE) \in Seq(Nat)
         /\ SortKey(s, TRUE) = SortKey(s, FALSE) \o <<Tilde>>
         /\ \A x \in Registered :
              SortKey(Append(s, x), FALSE) = SortKey(s, FALSE) \o Piece(x)
<1>1. PICK t : KeyBuilt(t, s) /\ SortKey(s, FALSE) = t[Len(s)] \o <<>>
                              /\ SortKey(s, TRUE) = t[Len(s)] \o <<Tilde>>
  BY KeyLoop
<1>2. Len(s) \in Nat /\ Len(s) \in 0..Len(s) /\ t[Len(s)] \in Seq(Nat)
  BY <1>1 DEF KeyBuilt
<1>3. SortKey(s, FALSE) = t[Len(s)] /\ SortKey(s, TRUE) = SortKey(s, FALSE) \o <<Tilde>>
  BY <1>1, <1>2, ConcatEmptySeq
<1>4. ASSUME NEW x \in Registered
      PROVE  SortKey(Append(s, x), FALSE) = SortKey(s, FALSE) \o Piece(x)
  <2> DEFINE q == Append(s, x)
             n == Len(s)
  <2>1. /\ q \in Seq(Registered) /\ Len(q) = n + 1 /\ q[n+1] = x
        /\ \A i \in 1..n : q[i] = s[i]
    BY AppendProperties
  <2> HIDE DEF q
  <2>2. PICK u : KeyBuilt(u, q) /\ SortKey(q, FALSE) = u[Len(q)] \o <<>>
    BY <2>1, KeyLoop
  <2>3. /\ u \in [0..n+1 -> Seq(Nat)] /\ u[0] = <<>>
        /\ \A i \in 1..n+1 : u[i] = u[i-1] \o PathBytes(q[i]) \o <<Separator>>
    BY <2>1, <2>2 DEF KeyBuilt
  <2>4. t[0] = <<>> /\ \A i \in 1..n : t[i] = t[i-1] \o PathBytes(s[i]) \o <<Separator>>
    BY <1>1 DEF KeyBuilt
  <2>5. n \in Nat /\ \A i \in 1..n : i \in 1..n+1
    BY <1>2
  <2>6. \A i \in 1..n : u[i-1] = t[i-1] => u[i] = t[i]
    BY <2>1, <2>3, <2>4, <2>5
  <2>7. u[0] = t[0]
    BY <2>3, <2>4
  <2>8. \A i \in 0..n : u[i] = t[i]
    BY ONLY <2>5, <2>6, <2>7, Alike
  <2>9. u[n] = t[n] /\ u[n] \in Seq(Nat)
    BY <1>2, <2>8
  <2>10. u[n+1] = u[n] \o PathBytes(x) \o <<Separator>>
    <3>1. PICK j : j = n + 1
      OBVIOUS
    <3>2. j \in 1..n+1 /\ j - 1 = n
      BY <2>5, <3>1
    <3>3. u[j] = u[j-1] \o PathBytes(q[j]) \o <<Separator>>
      BY <2>3, <3>2
    <3> QED BY <2>1, <3>1, <3>2, <3>3
  <2>11. u[n+1] = u[n] \o Piece(x)
    <3> DEFINE a == u[n]
               b == PathBytes(x)
               c == <<Separator>>
    <3>1. a \in Seq(Nat) /\ b \in Seq(Nat) /\ c \in Seq(Nat)
      BY <2>9, PathType DEF Separator, Registered
    <3> HIDE DEF a, b, c
    <3>2. a \o b \o c = a \o (b \o c)
      BY ONLY <3>1, RegroupBytes
    <3> QED BY <2>10, <3>2 DEF a, b, c, Piece
  <2>12. u[n+1] \in Seq(Nat)
    <3>1. n + 1 \in 0..n+1
      BY <2>5
    <3> QED BY <2>3, <3>1
  <2>13. SortKey(q, FALSE) = u[n+1]
    BY <2>1, <2>2, <2>12, ConcatEmptySeq
  <2> QED BY <1>3, <2>9, <2>11, <2>13 DEF q
<1> QED BY <1>2, <1>3, <1>4

(* A longer chain continues the key of a shorter one.                      *)
LEMMA KeysContinue ==
  ASSUME NEW d \in Dirs, NEW c, Chained(c, d), NEW i \in 0..Len(d), NEW j \in i..Len(d)
  PROVE  \/ SortKey(c[j], FALSE) = SortKey(c[i], FALSE)
         \/ Continues(SortKey(c[i], FALSE), SortKey(c[j], FALSE))
<1> DEFINE K == [k \in 0..Len(d) |-> SortKey(c[k], FALSE)]
           G == {k \in i..Len(d) : K[k] = K[i] \/ Continues(K[i], K[k])}
<1>1. Len(d) \in Nat /\ i \in Nat /\ i <= Len(d)
  BY DirIsPath
<1>2. K \in [0..Len(d) -> Seq(Nat)]
  <2>1. \A k \in 0..Len(d) : c[k] \in Seq(Registered)
    BY DEF Chained
  <2> QED BY <2>1, KeyIs
<1>3. ASSUME NEW k \in 1..Len(d)
      PROVE  K[k] = K[k-1] \/ \E x \in Registered : K[k] = K[k-1] \o Piece(x)
  <2>1. k \in 0..Len(d) /\ k - 1 \in 0..Len(d)
    BY <1>1
  <2>2. K[k] = SortKey(c[k], FALSE) /\ K[k-1] = SortKey(c[k-1], FALSE) /\ c[k-1] \in Seq(Registered)
    BY <2>1 DEF Chained
  <2>3. c[k] = IF SubSeq(d, 1, k) \in Registered THEN Append(c[k-1], SubSeq(d, 1, k)) ELSE c[k-1]
    BY DEF Chained
  <2> HIDE DEF K
  <2> QED BY <2>2, <2>3, KeyIs
<1>4. K[i] = SortKey(c[i], FALSE) /\ K[j] = SortKey(c[j], FALSE)
  BY <1>1
<1> HIDE DEF K
<1>5. i \in G
  BY <1>1
<1>6. ASSUME NEW k \in i+1..Len(d), k - 1 \in G PROVE k \in G
  <2>1. k \in 1..Len(d) /\ k \in i..Len(d) /\ k - 1 \in 0..Len(d) /\ k \in 0..Len(d)
    BY <1>1
  <2>2. CASE K[k] = K[k-1]
    BY <1>6, <2>1, <2>2
  <2>3. ASSUME NEW x \in Registered, K[k] = K[k-1] \o Piece(x) PROVE Continues(K[i], K[k])
    <3>1. Piece(x) \in Seq(Nat) /\ Len(Piece(x)) >= 1 /\ Piece(x)[1] = Dot /\ Len(Piece(x)) \in Nat
      BY PieceIs DEF Registered
    <3>2. CASE K[k-1] = K[i]
      BY <2>3, <3>1, <3>2 DEF Continues
    <3>3. CASE Continues(K[i], K[k-1])
      <4>1. PICK r \in Seq(Nat) : Len(r) >= 1 /\ r[1] = Dot /\ K[k-1] = K[i] \o r
        BY <3>3 DEF Continues
      <4> DEFINE p == Piece(x)
                 s == K[i]
      <4>2. s \in Seq(Nat) /\ p \in Seq(Nat)
        BY <1>2, <3>1
      <4>3. K[k] = s \o r \o p
        BY <2>3, <4>1
      <4> HIDE DEF p, s
      <4>4. s \o r \o p = s \o (r \o p)
        BY <4>2, RegroupBytes
      <4>5. /\ r \o p \in Seq(Nat) /\ Len(r \o p) = Len(r) + Len(p) /\ Len(r) \in Nat /\ Len(p) \in Nat
            /\ \A z \in 1..Len(r) : (r \o p)[z] = r[z]
        BY ONLY r \in Seq(Nat), <4>2, Joined
      <4>6. 1 \in 1..Len(r) /\ Len(r \o p) >= 1
        BY <4>1, <4>5
      <4>7. (r \o p)[1] = Dot
        BY <4>1, <4>5, <4>6
      <4>8. Continues(s, K[k])
        BY <4>3, <4>4, <4>5, <4>6, <4>7 DEF Continues
      <4> QED BY <4>8 DEF s
    <3> QED BY <1>6, <3>2, <3>3
  <2> QED BY <1>3, <2>1, <2>2, <2>3
<1>7. i..Len(d) \subseteq G
  <2> HIDE DEF G
  <2> QED BY <1>1, <1>5, <1>6, Climb
<1> QED BY <1>4, <1>7

(* What continues a text starts with it.                                   *)
LEMMA ContinuesStarts ==
  ASSUME NEW s \in Seq(Nat), NEW t, t = s \/ Continues(s, t)
  PROVE  Starts(s, t) /\ t \in Seq(Nat)
<1>1. CASE t = s
  BY <1>1, StartsReflexive
<1>2. CASE Continues(s, t)
  <2>1. PICK r \in Seq(Nat) : t = s \o r
    BY <1>2 DEF Continues
  <2> QED BY <2>1, ConcatProperties DEF Starts
<1> QED BY <1>1, <1>2

(* The entry key of a directory.                                           *)
KeyOf(d) == SortKey(Ancestry[d], FALSE)

(* e is a proper prefix of d.                                              *)
Encloses(e, d) == Len(e) < Len(d) /\ SubSeq(d, 1, Len(e)) = e

(* The keys of a registered directory, by its chain.                       *)
LEMMA KeyOfChain ==
  ASSUME NEW d \in Registered, NEW c, Chained(c, d)
  PROVE  /\ KeyOf(d) = SortKey(c[Len(d)], FALSE) /\ KeyOf(d) \in Seq(Nat)
         /\ SortKey(Ancestry[d], TRUE) = KeyOf(d) \o <<Tilde>>
         /\ c[Len(d)] \in Seq(Registered)
<1>1. d \in Dirs /\ Len(d) \in Nat /\ Len(d) \in 0..Len(d)
  BY DirIsPath DEF Registered
<1>2. Ancestry[d] = c[Len(d)] /\ c[Len(d)] \in Seq(Registered)
  BY <1>1, AncestryIs DEF Chained
<1> QED BY <1>2, KeyIs DEF KeyOf

(* The key of a directory continues those of the directories around it.    *)
LEMMA InnerKeys ==
  ASSUME NEW d \in Registered, NEW e \in Registered, Encloses(e, d)
  PROVE  Continues(KeyOf(e), KeyOf(d))
<1> DEFINE m == Len(e)
           n == Len(d)
<1>1. /\ d \in Dirs /\ e \in Dirs /\ d \in Paths /\ e \in Paths
      /\ n \in Nat /\ m \in Nat /\ m >= 1 /\ m < n /\ SubSeq(d, 1, m) = e /\ SubSeq(e, 1, m) = e
      /\ SubSeq(d, 1, n) = d
  BY DirIsPath, WholePath DEF Registered, Encloses
<1>2. PICK c : Chained(c, d)
  BY <1>1, ChainExists
<1>3. PICK b : Chained(b, e)
  BY <1>1, ChainExists
<1>4. m \in 0..Len(d) /\ m <= Len(e) /\ m \in 0..m /\ n - 1 \in m..Len(d) /\ n \in 1..Len(d)
      /\ n - 1 \in 0..Len(d)
  BY <1>1
<1>5. c[m] = b[m]
  <2>1. \A i \in 0..m : c[i] = b[i]
    <3>1. /\ d \in Dirs /\ e \in Dirs /\ Chained(c, d) /\ Chained(b, e)
          /\ m \in 0..Len(d) /\ m <= Len(e) /\ SubSeq(d, 1, m) = SubSeq(e, 1, m)
      BY <1>1, <1>2, <1>3, <1>4
    <3> HIDE DEF m
    <3> QED BY ONLY <3>1, ChainsAgree
  <2> QED BY <1>4, <2>1
<1>6. KeyOf(e) = SortKey(c[m], FALSE) /\ KeyOf(e) \in Seq(Nat)
  BY <1>3, <1>5, KeyOfChain
<1>7. KeyOf(d) = SortKey(c[n-1], FALSE) \o Piece(d)
  <2>1. c[n] = Append(c[n-1], d) /\ c[n-1] \in Seq(Registered)
    BY <1>1, <1>2, <1>4 DEF Chained
  <2>2. SortKey(Append(c[n-1], d), FALSE) = SortKey(c[n-1], FALSE) \o Piece(d)
    BY <2>1, KeyIs
  <2>3. KeyOf(d) = SortKey(c[n], FALSE)
    BY <1>2, KeyOfChain
  <2> QED BY ONLY <2>1, <2>2, <2>3
<1>8. \/ SortKey(c[n-1], FALSE) = KeyOf(e)
      \/ Continues(KeyOf(e), SortKey(c[n-1], FALSE))
  BY <1>1, <1>2, <1>4, <1>6, KeysContinue
<1> DEFINE s == KeyOf(e)
           t == SortKey(c[n-1], FALSE)
           p == Piece(d)
<1>9. s \in Seq(Nat) /\ p \in Seq(Nat) /\ Len(p) >= 1 /\ p[1] = Dot
  BY <1>1, <1>6, PieceIs
<1> HIDE DEF s, t, p
<1>10. CASE t = s
  BY <1>7, <1>9, <1>10 DEF Continues, s, t, p
<1>11. CASE Continues(s, t)
  <2>1. PICK r \in Seq(Nat) : Len(r) >= 1 /\ r[1] = Dot /\ t = s \o r
    BY <1>11 DEF Continues
  <2>2. s \o r \o p = s \o (r \o p)
    BY <1>9, RegroupBytes
  <2>3. /\ r \o p \in Seq(Nat) /\ Len(r \o p) = Len(r) + Len(p) /\ Len(r) \in Nat /\ Len(p) \in Nat
        /\ \A z \in 1..Len(r) : (r \o p)[z] = r[z]
    <3>1. p \in Seq(Nat)
      BY <1>9
    <3> QED BY ONLY r \in Seq(Nat), <3>1, Joined
  <2>4. 1 \in 1..Len(r) /\ Len(r \o p) >= 1
    BY <2>1, <2>3
  <2>5. (r \o p)[1] = Dot
    BY <2>1, <2>3, <2>4
  <2>6. KeyOf(d) = s \o (r \o p)
    BY <1>7, <2>1, <2>2 DEF t, p
  <2> QED BY <2>3, <2>4, <2>5, <2>6 DEF Continues, s
<1> QED BY <1>8, <1>10, <1>11 DEF s, t

(* Texts that part do so behind a common start.                            *)
LEMMA ApartAfter ==
  ASSUME NEW u \in Seq(Nat), NEW s \in Seq(Nat), NEW t \in Seq(Nat), Apart(s, t)
  PROVE  Apart(u \o s, u \o t)
<1>1. PICK k \in 1..Len(s) : k <= Len(t) /\ s[k] # t[k]
  BY DEF Apart
<1>2. /\ Len(u \o s) = Len(u) + Len(s) /\ Len(u \o t) = Len(u) + Len(t)
      /\ Len(u) \in Nat /\ Len(s) \in Nat /\ Len(t) \in Nat
      /\ \A i \in 1..Len(s) : (u \o s)[Len(u) + i] = s[i]
      /\ \A i \in 1..Len(t) : (u \o t)[Len(u) + i] = t[i]
  BY Joined
<1>3. k \in 1..Len(t)
  BY <1>1, <1>2
<1>4. (u \o s)[Len(u) + k] # (u \o t)[Len(u) + k]
  BY <1>1, <1>2, <1>3
<1>5. Len(u) + k \in 1..Len(u \o s) /\ Len(u) + k <= Len(u \o t)
  BY <1>1, <1>2
<1> QED BY <1>4, <1>5 DEF Apart

(* Texts that part do so whatever follows.                                 *)
LEMMA ApartBefore ==
  ASSUME NEW s \in Seq(Nat), NEW t \in Seq(Nat), NEW x \in Seq(Nat), NEW y \in Seq(Nat),
         Apart(s, t), Starts(s, x), Starts(t, y)
  PROVE  Apart(x, y)
<1>1. PICK k \in 1..Len(s) : k <= Len(t) /\ s[k] # t[k]
  BY DEF Apart
<1>2. /\ Len(s) <= Len(x) /\ \A i \in 1..Len(s) : x[i] = s[i]
      /\ Len(t) <= Len(y) /\ \A i \in 1..Len(t) : y[i] = t[i]
  BY StartsAlike
<1>3. Len(s) \in Nat /\ Len(t) \in Nat /\ Len(x) \in Nat /\ Len(y) \in Nat
  OBVIOUS
<1>4. k \in 1..Len(t) /\ k \in 1..Len(x) /\ k <= Len(y)
  <2>1. \A a, b, c, e \in Nat : \A i \in 1..a : i <= b /\ a <= c /\ b <= e => i \in 1..b /\ i \in 1..c /\ i <= e
    OBVIOUS
  <2>2. k \in 1..Len(s) /\ k <= Len(t) /\ Len(s) <= Len(x) /\ Len(t) <= Len(y)
    BY <1>1, <1>2
  <2> QED BY ONLY <1>3, <2>1, <2>2
<1> QED BY <1>1, <1>2, <1>4 DEF Apart

(* The first registered prefix beyond m.                                   *)
LEMMA NextLink ==
  ASSUME NEW d \in Registered, NEW c, Chained(c, d), NEW m \in Nat, m < Len(d)
  PROVE  \E a \in m+1..Len(d) :
           /\ SubSeq(d, 1, a) \in Registered
           /\ Starts(SortKey(c[m], FALSE) \o PathBytes(SubSeq(d, 1, a)), KeyOf(d))
<1> DEFINE n == Len(d)
           A == {k \in m+1..n : SubSeq(d, 1, k) \in Registered}
<1>1. d \in Dirs /\ n \in Nat /\ n >= 1 /\ SubSeq(d, 1, n) = d
  BY DirIsPath, WholePath DEF Registered
<1>2. A \in SUBSET Nat /\ A # {}
  <2>2. n \in m+1..n
    BY <1>1
  <2>1. n \in A
    BY <1>1, <2>2
  <2> QED BY <2>1
<1>3. PICK a \in A : \A k \in A : a <= k
  <2> HIDE DEF A
  <2> QED BY <1>2, Least
<1>4. a \in m+1..n /\ SubSeq(d, 1, a) \in Registered
  BY <1>3
<1>5. /\ a \in 1..Len(d) /\ a - 1 \in m..Len(d) /\ m \in 0..Len(d) /\ a \in 0..Len(d)
      /\ a - 1 \in 0..Len(d) /\ n \in a..Len(d)
  BY <1>1, <1>4
<1>6. c[a-1] = c[m]
  <2>1. ASSUME NEW i \in m+1..a-1 PROVE SubSeq(d, 1, i) \notin Registered
    <3>1. i \in m+1..n /\ ~(a <= i)
      BY <1>1, <1>4
    <3> QED BY <1>3, <3>1
  <2> QED BY <1>1, <1>5, <2>1, ChainRests
<1> DEFINE x == SubSeq(d, 1, a)
           C == SortKey(c[m], FALSE)
           P == PathBytes(x)
           Q == Piece(x)
           K == SortKey(c[a], FALSE)
<1>7. C \in Seq(Nat) /\ P \in Seq(Nat) /\ Q \in Seq(Nat) /\ Starts(P, Q)
  <2>1. c[m] \in Seq(Registered) /\ x \in Dirs
    BY <1>4, <1>5 DEF Chained, Registered
  <2> QED BY <2>1, KeyIs, PathType, PieceIs
<1>8. K = C \o Q
  <2>1. c[a] = Append(c[a-1], x) /\ c[a-1] \in Seq(Registered)
    BY <1>4, <1>5 DEF Chained
  <2> QED BY <1>4, <1>6, <2>1, KeyIs
<1>9. Starts(K, KeyOf(d)) /\ KeyOf(d) \in Seq(Nat)
  <2>1. c[a] \in Seq(Registered)
    BY <1>5 DEF Chained
  <2>2. K \in Seq(Nat)
    BY <2>1, KeyIs
  <2>3. SortKey(c[n], FALSE) = K \/ Continues(K, SortKey(c[n], FALSE))
    BY <1>1, <1>5, KeysContinue
  <2>4. KeyOf(d) = SortKey(c[n], FALSE)
    BY KeyOfChain
  <2> HIDE DEF K
  <2> QED BY <2>2, <2>3, <2>4, ContinuesStarts
<1> HIDE DEF C, P, Q, K, x
<1>10. Starts(C \o P, K) /\ C \o P \in Seq(Nat) /\ K \in Seq(Nat)
  <2>1. PICK r \in Seq(Nat) : Q = P \o r
    BY <1>7 DEF Starts
  <2>2. C \o P \o r = C \o (P \o r) /\ C \o P \o r \in Seq(Nat)
    <3>1. C \in Seq(Nat) /\ P \in Seq(Nat) /\ r \in Seq(Nat)
      BY <1>7
    <3> QED BY ONLY <3>1, RegroupBytes
  <2>3. C \o P \in Seq(Nat)
    BY <1>7, ConcatProperties
  <2> QED BY <1>8, <2>1, <2>2, <2>3 DEF Starts
<1>11. Starts(C \o P, KeyOf(d))
  BY <1>9, <1>10, StartsTransitive
<1> QED BY <1>4, <1>11 DEF x, C, P

(* The keys of directories of which neither is inside the other part.      *)
LEMMA OuterKeys ==
  ASSUME NEW d \in Registered, NEW e \in Registered, d # e, ~Encloses(e, d), ~Encloses(d, e)
  PROVE  Apart(KeyOf(d), KeyOf(e))
<1>1. /\ d \in Dirs /\ e \in Dirs /\ d \in Paths /\ e \in Paths
      /\ Len(d) \in Nat /\ Len(e) \in Nat /\ SubSeq(d, 1, Len(d)) = d /\ SubSeq(e, 1, Len(e)) = e
      /\ d \in Seq(Seq(Nat)) /\ e \in Seq(Seq(Nat))
  BY DirIsPath, WholePath DEF Registered, Paths
<1>2. ASSUME NEW m \in Nat, m <= Len(d), m <= Len(e), \A i \in 1..m : d[i] = e[i]
      PROVE  SubSeq(d, 1, m) = SubSeq(e, 1, m)
  <2> DEFINE s == SubSeq(d, 1, m)
             t == SubSeq(e, 1, m)
  <2>1. /\ s \in Seq(Seq(Nat)) /\ Len(s) = m /\ \A i \in 1..m : s[i] = d[i]
        /\ t \in Seq(Seq(Nat)) /\ Len(t) = m /\ \A i \in 1..m : t[i] = e[i]
    <3>1. m \in 0..Len(d) /\ m \in 0..Len(e)
      BY <1>2
    <3> QED BY <1>1, <3>1, PathStart DEF Paths
  <2> HIDE DEF s, t
  <2>2. Len(s) = Len(t) /\ \A i \in 1..Len(s) : s[i] = t[i]
    BY <1>2, <2>1
  <2>3. s = t
    BY <2>1, <2>2, SeqEqual
  <2> QED BY <2>3 DEF s, t
<1> DEFINE D == {i \in 1..Len(d) : i <= Len(e) /\ d[i] # e[i]}
<1>3. D # {}
  <2>1. SUFFICES ASSUME D = {} PROVE FALSE
    OBVIOUS
  <2>2. \A i \in 1..Len(d) : i <= Len(e) => d[i] = e[i]
    BY <2>1
  <2>3. CASE Len(d) = Len(e)
    <3>1. \A i \in 1..Len(d) : d[i] = e[i]
      BY <1>1, <2>2, <2>3
    <3>2. d \in Seq(Seq(Nat)) /\ e \in Seq(Seq(Nat))
      BY <1>1
    <3>3. d = e
      BY ONLY <2>3, <3>1, <3>2, SeqEqual
    <3> QED BY <3>3
  <2>4. CASE Len(d) < Len(e)
    <3>1. \A i \in 1..Len(d) : d[i] = e[i]
      BY <1>1, <2>2, <2>4
    <3>2. SubSeq(d, 1, Len(d)) = SubSeq(e, 1, Len(d))
      BY <1>1, <1>2, <2>4, <3>1
    <3> QED BY <1>1, <2>4, <3>2 DEF Encloses
  <2>5. CASE Len(e) < Len(d)
    <3>1. \A i \in 1..Len(e) : d[i] = e[i]
      BY <1>1, <2>2, <2>5
    <3>2. SubSeq(d, 1, Len(e)) = SubSeq(e, 1, Len(e))
      BY <1>1, <1>2, <2>5, <3>1
    <3> QED BY <1>1, <2>5, <3>2 DEF Encloses
  <2>6. Len(d) \in Nat /\ Len(e) \in Nat
    BY <1>1
  <2>7. Len(d) = Len(e) \/ Len(d) < Len(e) \/ Len(e) < Len(d)
    BY ONLY <2>6
  <2> QED BY <2>3, <2>4, <2>5, <2>7
<1>4. PICK i \in D : \A k \in D : i <= k
  <2>1. D \in SUBSET Nat
    BY <1>1
  <2> HIDE DEF D
  <2> QED BY <1>3, <2>1, Least
<1> DEFINE m == i - 1
<1>5. /\ m \in Nat /\ m < Len(d) /\ m < Len(e) /\ d[m+1] # e[m+1] /\ i = m + 1
      /\ m \in 0..Len(d) /\ m <= Len(e)
  BY <1>1, <1>4
<1>6. SubSeq(d, 1, m) = SubSeq(e, 1, m)
  <2>1. ASSUME NEW k \in 1..m PROVE d[k] = e[k]
    <3>1. k \in 1..Len(d) /\ k <= Len(e) /\ ~(i <= k)
      BY <1>1, <1>5
    <3> QED BY <1>4, <3>1
  <2>2. m <= Len(d)
    BY <1>1, <1>5
  <2> QED BY <1>2, <1>5, <2>1, <2>2
<1> HIDE DEF m
<1>7. PICK c : Chained(c, d)
  BY <1>1, ChainExists
<1>8. PICK b : Chained(b, e)
  BY <1>1, ChainExists
<1>9. c[m] = b[m] /\ c[m] \in Seq(Registered)
  <2>1. \A k \in 0..m : c[k] = b[k]
    <3>1. d \in Dirs /\ e \in Dirs
      BY <1>1
    <3>2. m \in 0..Len(d) /\ m <= Len(e)
      BY <1>5
    <3> QED BY ONLY <3>1, <3>2, <1>6, <1>7, <1>8, ChainsAgree
  <2> QED BY <1>5, <1>7, <2>1 DEF Chained
<1> DEFINE C == SortKey(c[m], FALSE)
<1>10. PICK u \in m+1..Len(d) : /\ SubSeq(d, 1, u) \in Registered
                                /\ Starts(C \o PathBytes(SubSeq(d, 1, u)), KeyOf(d))
  BY <1>5, <1>7, NextLink
<1>11. PICK v \in m+1..Len(e) : /\ SubSeq(e, 1, v) \in Registered
                                /\ Starts(C \o PathBytes(SubSeq(e, 1, v)), KeyOf(e))
  BY <1>5, <1>8, <1>9, NextLink
<1> DEFINE P == PathBytes(SubSeq(d, 1, u))
           Q == PathBytes(SubSeq(e, 1, v))
<1>12. Apart(P, Q)
  BY <1>1, <1>5, <1>6, PathsPart
<1>13. C \in Seq(Nat) /\ P \in Seq(Nat) /\ Q \in Seq(Nat) /\ KeyOf(d) \in Seq(Nat) /\ KeyOf(e) \in Seq(Nat)
  BY <1>7, <1>8, <1>9, <1>10, <1>11, KeyIs, PathType, KeyOfChain DEF Registered
<1> HIDE DEF C, P, Q
<1>14. Apart(C \o P, C \o Q) /\ C \o P \in Seq(Nat) /\ C \o Q \in Seq(Nat)
  BY <1>12, <1>13, ApartAfter, ConcatProperties
<1>15. Starts(C \o P, KeyOf(d)) /\ Starts(C \o Q, KeyOf(e))
  BY <1>10, <1>11 DEF C, P, Q
<1> QED BY <1>13, <1>14, <1>15, ApartBefore

----------------------------------------------------------------------------
(* The visits of the plan nest                                             *)

(* The directories the plan visits, their visits, and the key of a visit.  *)
Used  == {d \in Registered : HasTests(Ancestry, d)}
Stops == Used \X BOOLEAN
Key(v) == SortKey(Ancestry[v[1]], v[2])

(* The entry and the exit key of a registered directory.                   *)
LEMMA RegisteredKeys ==
  ASSUME NEW d \in Registered
  PROVE  /\ KeyOf(d) \in Seq(Nat) /\ KeyOf(d) \o <<Tilde>> \in Seq(Nat)
         /\ SortKey(Ancestry[d], FALSE) = KeyOf(d)
         /\ SortKey(Ancestry[d], TRUE) = KeyOf(d) \o <<Tilde>>
<1>1. PICK c : Chained(c, d)
  BY ChainExists DEF Registered
<1>2. KeyOf(d) \in Seq(Nat) /\ SortKey(Ancestry[d], TRUE) = KeyOf(d) \o <<Tilde>>
  BY <1>1, KeyOfChain
<1>3. <<Tilde>> \in Seq(Nat)
  BY DEF Tilde
<1> QED BY <1>2, <1>3, ConcatProperties DEF KeyOf

(* Joined for texts, quantified.                                           *)
LEMMA JoinedBytes ==
  \A s, t \in Seq(Nat) :
    /\ s \o t \in Seq(Nat) /\ Len(s) \in Nat /\ Len(t) \in Nat /\ Len(s \o t) = Len(s) + Len(t)
    /\ \A k \in 1..Len(s) : (s \o t)[k] = s[k]
    /\ \A k \in 1..Len(t) : (s \o t)[Len(s) + k] = t[k]
BY Joined

(* A directory is left after it is entered.                                *)
LEMMA ExitIsAfter ==
  ASSUME NEW s \in Seq(Nat)
  PROVE  ByteLess(s, s \o <<Tilde>>)
<1> DEFINE t == <<Tilde>>
<1>1. t \in Seq(Nat) /\ Len(t) = 1
  BY DEF Tilde
<1> HIDE DEF t
<1>2. /\ Len(s \o t) = Len(s) + Len(t) /\ Len(s) \in Nat
      /\ \A k \in 1..Len(s) : (s \o t)[k] = s[k]
  BY <1>1, JoinedBytes
<1>3. Len(s) < Len(s \o t)
  BY <1>1, <1>2
<1> QED BY <1>2, <1>3, LessIs DEF Shorter, t

(* A key that continues another is entered after and left before it.       *)
LEMMA ContinuedIsInside ==
  ASSUME NEW s \in Seq(Nat), NEW t \in Seq(Nat), Continues(s, t)
  PROVE  ByteLess(s, t) /\ ByteLess(t \o <<Tilde>>, s \o <<Tilde>>)
<1> DEFINE z == <<Tilde>>
           i == Len(s) + 1
<1>1. PICK r \in Seq(Nat) : Len(r) >= 1 /\ r[1] = Dot /\ t = s \o r
  BY DEF Continues
<1>2. z \in Seq(Nat) /\ Len(z) = 1 /\ z[1] = Tilde
  BY DEF Tilde
<1> HIDE DEF z
<1>3. /\ Len(t) = Len(s) + Len(r) /\ Len(s) \in Nat /\ Len(r) \in Nat
      /\ \A k \in 1..Len(s) : t[k] = s[k]
      /\ \A k \in 1..Len(r) : t[Len(s) + k] = r[k]
  BY <1>1, Joined
<1>4. /\ Len(s \o z) = Len(s) + Len(z)
      /\ \A k \in 1..Len(s) : (s \o z)[k] = s[k]
      /\ \A k \in 1..Len(z) : (s \o z)[Len(s) + k] = z[k]
  BY <1>2, JoinedBytes
<1>5. /\ Len(t \o z) = Len(t) + Len(z)
      /\ \A k \in 1..Len(t) : (t \o z)[k] = t[k]
  BY <1>2, JoinedBytes
<1>6. 1 \in 1..Len(r) /\ 1 \in 1..Len(z)
  BY <1>1, <1>2, <1>3
<1>7. t[i] = Dot /\ (s \o z)[i] = Tilde
  BY <1>1, <1>2, <1>3, <1>4, <1>6
<1>8. /\ Len(s) < Len(t) /\ i \in 1..Len(t) /\ i \in 1..Len(t \o z) /\ i <= Len(s \o z)
      /\ i \in Nat /\ i - 1 = Len(s)
  BY <1>1, <1>2, <1>3, <1>4, <1>5
<1>9. \A k \in 1..Len(s) : k \in 1..Len(t)
  BY <1>3, <1>8
<1>10. ByteLess(s, t)
  BY <1>3, <1>8, LessIs DEF Shorter
<1>11. Differ(t \o z, s \o z, i)
  <2>1. (t \o z)[i] = Dot
    BY <1>5, <1>7, <1>8
  <2>2. (t \o z)[i] < (s \o z)[i]
    BY <1>7, <2>1 DEF Dot, Tilde
  <2>3. ASSUME NEW k \in 1..i-1 PROVE (t \o z)[k] = (s \o z)[k]
    <3>1. k \in 1..Len(s)
      BY <1>8
    <3> QED BY <1>3, <1>4, <1>5, <1>9, <3>1
  <2> QED BY <1>8, <2>2, <2>3 DEF Differ
<1> QED BY <1>10, <1>11, LessIs DEF z

(* Texts that differ are ordered by that, whatever follows.                *)
LEMMA DifferStays ==
  ASSUME NEW s \in Seq(Nat), NEW t \in Seq(Nat), NEW x \in Seq(Nat), NEW y \in Seq(Nat),
         NEW i, Differ(s, t, i), Starts(s, x), Starts(t, y)
  PROVE  ByteLess(x, y)
<1>1. /\ Len(s) <= Len(x) /\ \A k \in 1..Len(s) : x[k] = s[k]
      /\ Len(t) <= Len(y) /\ \A k \in 1..Len(t) : y[k] = t[k]
  BY StartsAlike
<1>2. Len(s) \in Nat /\ Len(t) \in Nat /\ Len(x) \in Nat /\ Len(y) \in Nat
  OBVIOUS
<1>3. i \in 1..Len(s) /\ i <= Len(t) /\ s[i] < t[i] /\ \A j \in 1..i-1 : s[j] = t[j]
  BY DEF Differ
<1>4. /\ i \in 1..Len(t) /\ i \in 1..Len(x) /\ i <= Len(y)
      /\ \A j \in 1..i-1 : j \in 1..Len(s) /\ j \in 1..Len(t)
  <2> DEFINE l == Len(s)
             k == Len(t)
             lx == Len(x)
             ly == Len(y)
  <2>1. l \in Nat /\ k \in Nat /\ lx \in Nat /\ ly \in Nat /\ l <= lx /\ k <= ly /\ i \in 1..l /\ i <= k
    BY <1>1, <1>2, <1>3
  <2> HIDE DEF l, k, lx, ly
  <2>2. i \in 1..k /\ i \in 1..lx /\ i <= ly /\ \A j \in 1..i-1 : j \in 1..l /\ j \in 1..k
    BY ONLY <2>1
  <2> QED BY <2>2 DEF l, k, lx, ly
<1>5. x[i] < y[i] /\ \A j \in 1..i-1 : x[j] = y[j]
  BY <1>1, <1>3, <1>4
<1>6. Differ(x, y, i)
  BY <1>4, <1>5 DEF Differ
<1> QED BY <1>6, LessIs

(* The order of the keys: inside, or apart with all of their visits.       *)
LEMMA KeyOrder ==
  ASSUME NEW d \in Registered, NEW e \in Registered
  PROVE  /\ ByteLess(Key(<<d, FALSE>>), Key(<<d, TRUE>>))
         /\ Encloses(e, d) => /\ ByteLess(Key(<<e, FALSE>>), Key(<<d, FALSE>>))
                              /\ ByteLess(Key(<<d, TRUE>>), Key(<<e, TRUE>>))
         /\ d # e /\ ~Encloses(e, d) /\ ~Encloses(d, e) =>
              \/ \A b, c \in BOOLEAN : ByteLess(Key(<<d, b>>), Key(<<e, c>>))
              \/ \A b, c \in BOOLEAN : ByteLess(Key(<<e, b>>), Key(<<d, c>>))
<1> DEFINE s == KeyOf(d)
           t == KeyOf(e)
           K(x, b) == SortKey(Ancestry[x], b)
<1>1. /\ s \in Seq(Nat) /\ s \o <<Tilde>> \in Seq(Nat)
      /\ t \in Seq(Nat) /\ t \o <<Tilde>> \in Seq(Nat)
      /\ K(d, FALSE) = s /\ K(d, TRUE) = s \o <<Tilde>>
      /\ K(e, FALSE) = t /\ K(e, TRUE) = t \o <<Tilde>>
  BY RegisteredKeys
<1>2. \A x, b : Key(<<x, b>>) = K(x, b)
  BY DEF Key
<1> HIDE DEF K
<1>3. ByteLess(K(d, FALSE), K(d, TRUE))
  BY <1>1, ExitIsAfter
<1>4. ASSUME Encloses(e, d)
      PROVE  ByteLess(K(e, FALSE), K(d, FALSE)) /\ ByteLess(K(d, TRUE), K(e, TRUE))
  <2>1. Continues(t, s)
    BY <1>4, InnerKeys
  <2> HIDE DEF s, t
  <2> QED BY <1>1, <2>1, ContinuedIsInside
<1>5. ASSUME d # e, ~Encloses(e, d), ~Encloses(d, e)
      PROVE  \/ \A b, c \in BOOLEAN : ByteLess(K(d, b), K(e, c))
             \/ \A b, c \in BOOLEAN : ByteLess(K(e, b), K(d, c))
  <2>1. Apart(s, t)
    BY <1>5, OuterKeys
  <2> HIDE DEF s, t
  <2>2. PICK i : Differ(s, t, i) \/ Differ(t, s, i)
    <3>1. PICK k \in 1..Len(s) : k <= Len(t) /\ s[k] # t[k]
      BY <2>1 DEF Apart
    <3> QED BY <1>1, <3>1, FirstDifference
  <2>3. ASSUME NEW b \in BOOLEAN
        PROVE  /\ K(d, b) \in Seq(Nat) /\ Starts(s, K(d, b))
               /\ K(e, b) \in Seq(Nat) /\ Starts(t, K(e, b))
    <3>1. ASSUME NEW u \in Seq(Nat) PROVE Starts(u, u \o <<Tilde>>)
      <4>1. <<Tilde>> \in Seq(Nat)
        BY DEF Tilde
      <4> QED BY <4>1 DEF Starts
    <3>2. Starts(s, s) /\ Starts(t, t) /\ Starts(s, s \o <<Tilde>>) /\ Starts(t, t \o <<Tilde>>)
      BY <1>1, <3>1, StartsReflexive
    <3>3. CASE b = FALSE
      BY <1>1, <3>2, <3>3
    <3>4. CASE b = TRUE
      BY <1>1, <3>2, <3>4
    <3> QED BY <3>3, <3>4
  <2>4. ASSUME Differ(s, t, i) PROVE \A b, c \in BOOLEAN : ByteLess(K(d, b), K(e, c))
    BY <1>1, <2>3, <2>4, DifferStays
  <2>5. ASSUME Differ(t, s, i) PROVE \A b, c \in BOOLEAN : ByteLess(K(e, b), K(d, c))
    BY <1>1, <2>3, <2>5, DifferStays
  <2> QED BY <2>2, <2>4, <2>5
<1> QED BY <1>2, <1>3, <1>4, <1>5

(* What the order of the plan gives: at is where a stop is in it.          *)
Nests(at) ==
  /\ at \in [Stops -> 1..Len(Visits)]
  /\ Len(Visits) \in Nat
  /\ \A k \in 1..Len(Visits) : Visits[k] \in Stops /\ at[Visits[k]] = k
  /\ \A v \in Stops : Visits[at[v]] = v
  /\ \A d \in Used : at[<<d, FALSE>>] < at[<<d, TRUE>>]
  /\ \A d, e \in Used : Encloses(e, d) => /\ at[<<e, FALSE>>] < at[<<d, FALSE>>]
                                          /\ at[<<d, TRUE>>] < at[<<e, TRUE>>]
  /\ \A d, e \in Used : d # e /\ ~Encloses(e, d) /\ ~Encloses(d, e) =>
       \/ at[<<d, TRUE>>] < at[<<e, FALSE>>]
       \/ at[<<e, TRUE>>] < at[<<d, FALSE>>]

(* pgmi_test_plan's string order numbers every visit once and walks the    *)
(* tree depth first: a directory is left after it is entered, entered and  *)
(* left within every directory around it, and apart from all the others.   *)
THEOREM VisitsNest ==
  \E at : Nests(at)
<1> DEFINE V == Stops
           R == {p \in V \X V : ByteLess(Key(p[1]), Key(p[2]))}
           number == [v \in V |-> Cardinality({w \in V : <<w, v>> \in R}) + 1]
           n == Cardinality(V)
<1>1. IsFiniteSet(V)
  <2>1. IsFiniteSet(Used)
    <3>1. Used \subseteq Dirs
      BY DEF Used, Registered
    <3> QED BY <3>1, DirsAssumption, FS_Subset
  <2>2. IsFiniteSet(BOOLEAN)
    <3>1. BOOLEAN = {TRUE} \cup {FALSE}
      OBVIOUS
    <3>2. IsFiniteSet({TRUE})
      BY FS_Singleton
    <3>3. IsFiniteSet({TRUE} \cup {FALSE})
      BY <3>2, FS_AddElement
    <3> QED BY ONLY <3>1, <3>3
  <2> QED BY <2>1, <2>2, FS_Product DEF Stops
<1>2. ASSUME NEW v \in V PROVE Key(v) \in Seq(Nat) /\ v[1] \in Registered /\ v[2] \in BOOLEAN
                               /\ v = <<v[1], v[2]>> /\ v[1] \in Used
  <2>1. v[1] \in Registered /\ v[2] \in BOOLEAN /\ v = <<v[1], v[2]>> /\ v[1] \in Used
    BY DEF Stops, Used
  <2>2. CASE v[2] = TRUE
    BY <2>1, <2>2, RegisteredKeys DEF Key
  <2>3. CASE v[2] = FALSE
    BY <2>1, <2>3, RegisteredKeys DEF Key
  <2> QED BY <2>1, <2>2, <2>3
<1>3. \A u, v \in V : <<u, v>> \in R <=> ByteLess(Key(u), Key(v))
  OBVIOUS
<1>4. \A v \in V : <<v, v>> \notin R
  BY <1>2, <1>3, LessIrreflexive
<1> HIDE DEF R
<1>5. \A u, v, w \in V : <<u, v>> \in R /\ <<v, w>> \in R => <<u, w>> \in R
  BY <1>2, <1>3, LessTransitive
<1>6. ASSUME NEW d \in Used, NEW e \in Used
      PROVE  /\ \A b \in BOOLEAN : <<d, b>> \in V
             /\ <<<<d, FALSE>>, <<d, TRUE>>>> \in R
             /\ Encloses(e, d) => /\ <<<<e, FALSE>>, <<d, FALSE>>>> \in R
                                  /\ <<<<d, TRUE>>, <<e, TRUE>>>> \in R
             /\ d # e /\ ~Encloses(e, d) /\ ~Encloses(d, e) =>
                  \/ \A b, c \in BOOLEAN : <<<<d, b>>, <<e, c>>>> \in R
                  \/ \A b, c \in BOOLEAN : <<<<e, b>>, <<d, c>>>> \in R
  <2>1. d \in Registered /\ e \in Registered
    BY DEF Used
  <2>2. \A b \in BOOLEAN : <<d, b>> \in V /\ <<e, b>> \in V
    BY DEF Stops
  <2> HIDE DEF V
  <2> QED BY <1>3, <2>1, <2>2, KeyOrder
<1>7. ASSUME NEW v \in V, NEW w \in V, v # w PROVE <<v, w>> \in R \/ <<w, v>> \in R
  <2> DEFINE d == v[1]
             e == w[1]
             b == v[2]
             c == w[2]
  <2>1. d \in Used /\ e \in Used /\ b \in BOOLEAN /\ c \in BOOLEAN /\ v = <<d, b>> /\ w = <<e, c>>
    BY <1>2
  <2> HIDE DEF d, e, b, c, V
  <2>2. CASE d = e
    <3>1. (b = TRUE /\ c = FALSE) \/ (b = FALSE /\ c = TRUE)
      BY <1>7, <2>1, <2>2
    <3> QED BY <1>6, <2>1, <2>2, <3>1
  <2>3. ASSUME NEW x \in Used, NEW y \in Used, NEW p \in BOOLEAN, NEW q \in BOOLEAN, Encloses(y, x)
        PROVE  <<<<x, p>>, <<y, q>>>> \in R \/ <<<<y, q>>, <<x, p>>>> \in R
    <3>1. /\ <<<<x, FALSE>>, <<x, TRUE>>>> \in R /\ <<<<y, FALSE>>, <<x, FALSE>>>> \in R
          /\ <<<<x, TRUE>>, <<y, TRUE>>>> \in R
      BY <1>6, <2>3
    <3>2. /\ <<x, FALSE>> \in V /\ <<x, TRUE>> \in V /\ <<y, FALSE>> \in V /\ <<y, TRUE>> \in V
      BY <1>6
    <3>3. <<<<y, FALSE>>, <<x, TRUE>>>> \in R /\ <<<<x, FALSE>>, <<y, TRUE>>>> \in R
      BY <1>5, <3>1, <3>2
    <3>4. (p = TRUE \/ p = FALSE) /\ (q = TRUE \/ q = FALSE)
      OBVIOUS
    <3> QED BY <3>1, <3>3, <3>4
  <2>4. CASE Encloses(e, d)
    BY <2>1, <2>3, <2>4
  <2>5. CASE Encloses(d, e)
    BY <2>1, <2>3, <2>5
  <2>6. CASE d # e /\ ~Encloses(e, d) /\ ~Encloses(d, e)
    BY <1>6, <2>1, <2>6
  <2> QED BY <2>2, <2>4, <2>5, <2>6
<1>8. /\ n \in Nat /\ number \in [V -> 1..n]
      /\ \A v, w \in V : <<v, w>> \in R <=> number[v] < number[w]
      /\ \A v, w \in V : number[v] = number[w] => v = w
      /\ \A k \in 1..n : \E v \in V : number[v] = k
  <2> HIDE DEF V
  <2>1. number = [v \in V |-> Cardinality({w \in V : <<w, v>> \in R}) + 1]
    OBVIOUS
  <2>2. StrictOrder(R, V) /\ Numbers(number, V, R)
    BY <1>4, <1>5, <1>7, <2>1 DEF StrictOrder, Numbers
  <2> HIDE DEF number
  <2> QED BY ONLY <1>1, <2>2, Numbering
<1>9. Visits = [k \in 1..n |-> CHOOSE v \in V : number[v] = k]
  <2> DEFINE key == [v \in V |-> SortKey(Ancestry[v[1]], v[2])]
             other == [v \in V |-> Cardinality({w \in V : ByteLess(key[w], key[v])}) + 1]
  <2>1. Visits = [k \in 1..n |-> CHOOSE v \in V : other[v] = k]
    BY DEF Visits, Stops, Used
  <2>2. \A v \in V : key[v] = Key(v)
    BY DEF Key
  <2> HIDE DEF key, V
  <2>3. ASSUME NEW v \in V PROVE {w \in V : ByteLess(key[w], key[v])} = {w \in V : <<w, v>> \in R}
    BY <1>3, <2>2
  <2>4. other = number
    BY <2>3
  <2> HIDE DEF other, number
  <2> QED BY <2>1, <2>4
<1> HIDE DEF V, number, n
<1>10. Len(Visits) = n /\ \A k \in 1..n : Visits[k] = CHOOSE v \in V : number[v] = k
  BY <1>8, <1>9
<1>11. \A k \in 1..n : Visits[k] \in V /\ number[Visits[k]] = k
  BY <1>8, <1>10
<1>12. ASSUME NEW v \in V PROVE Visits[number[v]] = v
  <2>1. number[v] \in 1..n
    BY <1>8
  <2>2. Visits[number[v]] \in V /\ number[Visits[number[v]]] = number[v]
    BY <1>11, <2>1
  <2> QED BY <1>8, <2>2
<1>13. /\ \A d \in Used : number[<<d, FALSE>>] < number[<<d, TRUE>>]
       /\ \A d, e \in Used : Encloses(e, d) => /\ number[<<e, FALSE>>] < number[<<d, FALSE>>]
                                               /\ number[<<d, TRUE>>] < number[<<e, TRUE>>]
       /\ \A d, e \in Used : d # e /\ ~Encloses(e, d) /\ ~Encloses(d, e) =>
            \/ number[<<d, TRUE>>] < number[<<e, FALSE>>]
            \/ number[<<e, TRUE>>] < number[<<d, FALSE>>]
  BY <1>6, <1>8
<1>14. V = Stops
  BY DEF V
<1>15. Nests(number)
  BY <1>8, <1>10, <1>11, <1>12, <1>13, <1>14 DEF Nests
<1> QED BY <1>15

(* A directory is used when a matching test is in it or below it.          *)
LEMMA UsedIs ==
  ASSUME NEW d \in Registered
  PROVE  d \in Used <=> \E e \in Registered : Matching(e) # {} /\ (d = e \/ Encloses(d, e))
<1>1. ASSUME NEW e \in Registered PROVE Contains(Ancestry[e], d) <=> d = e \/ Encloses(d, e)
  <2>1. e \in Dirs /\ e \in Paths /\ Len(e) \in Nat /\ Len(e) \in 0..Len(e) /\ SubSeq(e, 1, Len(e)) = e
        /\ d \in Dirs /\ Len(d) \in Nat /\ Len(d) >= 1 /\ Len(e) >= 1
    BY DirIsPath, WholePath DEF Registered
  <2>2. PICK c : Chained(c, e)
    BY <2>1, ChainExists
  <2>3. Contains(Ancestry[e], d) <=> \E j \in 1..Len(e) : d = SubSeq(e, 1, j)
    <3>1. Ancestry[e] = c[Len(e)]
      BY <2>2, AncestryIs
    <3> QED BY <2>1, <2>2, <3>1, ChainHolds
  <2>4. \A j \in 1..Len(e) : j \in 0..Len(e) /\ Len(SubSeq(e, 1, j)) = j
    BY <2>1, PathStart
  <2>5. ASSUME NEW j \in 1..Len(e), d = SubSeq(e, 1, j) PROVE d = e \/ Encloses(d, e)
    <3>1. Len(d) = j
      BY <2>4, <2>5
    <3>2. CASE j = Len(e)
      <4>1. d = SubSeq(e, 1, Len(e))
        BY ONLY <2>5, <3>2
      <4> QED BY ONLY <2>1, <4>1
    <3>3. CASE j < Len(e)
      <4>1. d = SubSeq(e, 1, Len(d)) /\ Len(d) < Len(e)
        BY ONLY <2>5, <3>1, <3>3
      <4> QED BY <4>1 DEF Encloses
    <3>4. j = Len(e) \/ j < Len(e)
      <4>1. Len(e) \in Nat
        BY <2>1
      <4> QED BY ONLY <4>1, j \in 1..Len(e)
    <3> QED BY ONLY <3>2, <3>3, <3>4
  <2>6. ASSUME d = e \/ Encloses(d, e) PROVE \E j \in 1..Len(e) : d = SubSeq(e, 1, j)
    <3>1. CASE d = e
      <4>1. Len(e) \in 1..Len(e)
        BY <2>1
      <4> QED BY <2>1, <3>1, <4>1
    <3>2. CASE Encloses(d, e)
      <4>1. Len(d) \in 1..Len(e) /\ d = SubSeq(e, 1, Len(d))
        BY <2>1, <3>2 DEF Encloses
      <4> QED BY <4>1
    <3> QED BY <2>6, <3>1, <3>2
  <2> QED BY <2>3, <2>5, <2>6
<1> QED BY <1>1 DEF Used, HasTests

----------------------------------------------------------------------------
(* The rows of a visit                                                     *)

(* t holds what is picked after each element of seq.                       *)
Picked(t, seq, S, R) ==
  /\ t \in [0..Len(seq) -> Seq(R)] /\ t[0] = <<>>
  /\ \A i \in 1..Len(seq) : t[i] = (IF seq[i] \in S THEN Append(t[i-1], seq[i]) ELSE t[i-1])

(* Pick computes what its loop builds.                                     *)
LEMMA PickLoop ==
  ASSUME NEW R, NEW seq \in Seq(R), NEW S
  PROVE  \E t : Picked(t, seq, S, R) /\ Pick(seq, S) = t[Len(seq)]
<1> DEFINE n == Len(seq)
           T == Seq(R)
           a == <<>>
           Eq(h) == h = [i \in 0..n |-> IF i = 0 THEN a ELSE (IF seq[i] \in S THEN Append(h[i-1], seq[i]) ELSE h[i-1])]
           g == [z \in (0+1..n) \X T |-> (IF seq[z[1]] \in S THEN Append(z[2], seq[z[1]]) ELSE z[2])]
<1>1. n \in Nat /\ a \in T
  BY EmptySeq
<1>2. \A i \in 1..n : \A x \in T : (IF seq[i] \in S THEN Append(x, seq[i]) ELSE x) \in T
  <2>1. ASSUME NEW i \in 1..n, NEW x \in T PROVE (IF seq[i] \in S THEN Append(x, seq[i]) ELSE x) \in T
    <3>1. seq[i] \in R
      OBVIOUS
    <3>2. Append(x, seq[i]) \in T
      BY <3>1, AppendProperties
    <3> QED BY <3>2
  <2> QED BY <2>1
<1>3. PICK k : Loop(k, T, a, 0, n, g)
  <2>1. 0 \in Nat /\ 0 <= n /\ 0 + 1 = 1
    BY <1>1
  <2>2. g \in [(0+1..n) \X T -> T]
    BY <1>2, <2>1
  <2> HIDE DEF g, T, n, a
  <2> QED BY <1>1, <2>1, <2>2, LoopRuns
<1>4. k \in [0..n -> T] /\ k[0] = a
  BY <1>3 DEF Loop
<1>5. \A i \in 1..n : i \in 0..n /\ i # 0 /\ i - 1 \in 0..n /\ i \in 0+1..n
  BY <1>1
<1> HIDE DEF n, T, a
<1>6. \A i \in 1..n : k[i] = (IF seq[i] \in S THEN Append(k[i-1], seq[i]) ELSE k[i-1])
  <2>1. TAKE i \in 1..n
  <2>2. k[i] = g[<<i, k[i-1]>>] /\ <<i, k[i-1]>> \in (0+1..n) \X T
    BY <1>3, <1>4, <1>5 DEF Loop
  <2> QED BY <2>2
<1>7. Eq(k)
  <2> DEFINE h == [i \in 0..n |-> IF i = 0 THEN a ELSE (IF seq[i] \in S THEN Append(k[i-1], seq[i]) ELSE k[i-1])]
  <2>1. \A i \in 0..n : i = 0 \/ i \in 1..n
    BY <1>1
  <2>2. \A i \in 0..n : k[i] = h[i]
    BY <1>4, <1>6, <2>1
  <2>3. k = [i \in 0..n |-> k[i]] /\ h = [i \in 0..n |-> h[i]]
    BY <1>4
  <2>4. k = h
    <3> HIDE DEF h
    <3> QED BY <2>2, <2>3
  <2> QED BY <2>4
<1> DEFINE c == CHOOSE h : Eq(h)
<1>8. Eq(c)
  <2> HIDE DEF Eq
  <2> QED BY <1>7
<1>9. Pick(seq, S) = c[n]
  BY DEF Pick, n, a
<1> HIDE DEF c
<1>10. c[0] = a /\ \A i \in 1..n : c[i] = (IF seq[i] \in S THEN Append(c[i-1], seq[i]) ELSE c[i-1])
  <2>1. 0 \in 0..n
    BY <1>1
  <2>2. c[0] = a
    BY <1>8, <2>1
  <2>3. ASSUME NEW i \in 1..n PROVE c[i] = (IF seq[i] \in S THEN Append(c[i-1], seq[i]) ELSE c[i-1])
    BY <1>5, <1>8, <2>3
  <2> QED BY <2>2, <2>3
<1>11. c \in [0..n -> T]
  <2>1. c = [i \in 0..n |-> c[i]]
    BY <1>8
  <2>2. c[0] \in T
    BY <1>1, <1>10
  <2>3. \A i \in 0+1..n : c[i-1] \in T => c[i] \in T
    <3>1. TAKE i \in 0+1..n
    <3>2. i \in 1..n
      OBVIOUS
    <3>3. c[i] = (IF seq[i] \in S THEN Append(c[i-1], seq[i]) ELSE c[i-1])
      BY <1>10, <3>2
    <3> QED BY <1>2, <3>2, <3>3
  <2>4. 0 \in Nat /\ 0 <= n
    BY <1>1
  <2> QED BY <1>1, <2>1, <2>2, <2>3, <2>4, LoopStays
<1>12. Picked(c, seq, S, R)
  BY <1>10, <1>11 DEF Picked, n, T, a
<1> QED BY <1>9, <1>12 DEF n

(* A picked list holds the members of S that seq holds, each once.         *)
LEMMA PickIs ==
  ASSUME NEW R, NEW seq \in Seq(R), NEW S, \A i, j \in 1..Len(seq) : seq[i] = seq[j] => i = j
  PROVE  LET r == Pick(seq, S)
         IN  /\ r \in Seq(R)
             /\ \A k, l \in 1..Len(r) : r[k] = r[l] => k = l
             /\ {r[k] : k \in 1..Len(r)} = {seq[j] : j \in 1..Len(seq)} \cap S
<1>1. PICK t : Picked(t, seq, S, R) /\ Pick(seq, S) = t[Len(seq)]
  BY PickLoop
<1> DEFINE n == Len(seq)
           Ok(i) == LET w == t[i]
                    IN  /\ w \in Seq(R)
                        /\ \A k, l \in 1..Len(w) : w[k] = w[l] => k = l
                        /\ \A k \in 1..Len(w) : w[k] \in S /\ \E j \in 1..i : w[k] = seq[j]
                        /\ \A j \in 1..i : seq[j] \in S => \E k \in 1..Len(w) : w[k] = seq[j]
           G == {i \in 0..n : Ok(i)}
<1>2. /\ n \in Nat /\ t[0] = <<>> /\ t \in [0..n -> Seq(R)]
      /\ \A i \in 1..n : t[i] = IF seq[i] \in S THEN Append(t[i-1], seq[i]) ELSE t[i-1]
  BY <1>1 DEF Picked
<1>3. 0 \in G
  <2>1. t[0] \in Seq(R) /\ Len(t[0]) = 0 /\ 0 \in 0..n
    BY <1>2, EmptySeq
  <2> QED BY <2>1
<1>4. ASSUME NEW i \in 0+1..n, i - 1 \in G PROVE i \in G
  <2> DEFINE w == t[i-1]
             v == seq[i]
  <2>1. i \in 1..n /\ i \in 0..n /\ i - 1 \in 0..n /\ v \in R
    BY <1>2
  <2>2. /\ w \in Seq(R)
        /\ \A k, l \in 1..Len(w) : w[k] = w[l] => k = l
        /\ \A k \in 1..Len(w) : w[k] \in S /\ \E j \in 1..i-1 : w[k] = seq[j]
        /\ \A j \in 1..i-1 : seq[j] \in S => \E k \in 1..Len(w) : w[k] = seq[j]
    BY <1>4
  <2>3. t[i] = IF v \in S THEN Append(w, v) ELSE w
    BY <1>2, <2>1
  <2>4. (\A j \in 1..i : j = i \/ j \in 1..i-1) /\ i \in 1..i /\ \A j \in 1..i-1 : j \in 1..i /\ j \in 1..n /\ j # i
    BY <1>2, <2>1
  <2>5. \A k \in 1..Len(w) : w[k] # v
    BY <2>1, <2>2, <2>4
  <2> HIDE DEF w, v
  <2>6. CASE v \notin S
    <3>1. t[i] = w
      BY <2>3, <2>6
    <3>2. \A k \in 1..Len(w) : \E j \in 1..i : w[k] = seq[j]
      BY <2>2, <2>4
    <3>3. \A j \in 1..i : seq[j] \in S => \E k \in 1..Len(w) : w[k] = seq[j]
      BY <2>2, <2>4, <2>6 DEF v
    <3> QED BY <2>1, <2>2, <3>1, <3>2, <3>3
  <2>7. CASE v \in S
    <3> DEFINE q == Append(w, v)
    <3>1. /\ q \in Seq(R) /\ Len(q) = Len(w) + 1 /\ q[Len(w) + 1] = v /\ Len(w) \in Nat
          /\ \A k \in 1..Len(w) : q[k] = w[k]
      <4>1. w \in Seq(R) /\ v \in R
        BY <2>1, <2>2
      <4>2. Len(w) \in Nat
        BY <4>1, LenProperties
      <4> QED BY ONLY <4>1, <4>2, AppendProperties
    <3>2. t[i] = q
      BY <2>3, <2>7
    <3> HIDE DEF q
    <3>3. \A k \in 1..Len(w) + 1 : k = Len(w) + 1 \/ k \in 1..Len(w)
      BY <3>1
    <3>4. Len(w) + 1 \in 1..Len(w) + 1 /\ \A k \in 1..Len(w) : k \in 1..Len(w) + 1
      BY <3>1
    <3>5. \A k, l \in 1..Len(q) : q[k] = q[l] => k = l
      <4>1. ASSUME NEW k \in 1..Len(w) + 1, NEW l \in 1..Len(w) + 1, q[k] = q[l] PROVE k = l
        <5>1. CASE k \in 1..Len(w) /\ l \in 1..Len(w)
          BY <2>2, <3>1, <4>1, <5>1
        <5>2. CASE k \in 1..Len(w) /\ l = Len(w) + 1
          BY <2>5, <3>1, <4>1, <5>2
        <5>3. CASE k = Len(w) + 1 /\ l \in 1..Len(w)
          BY <2>5, <3>1, <4>1, <5>3
        <5> QED BY <3>3, <5>1, <5>2, <5>3
      <4> QED BY <3>1, <4>1
    <3>6. \A k \in 1..Len(q) : q[k] \in S /\ \E j \in 1..i : q[k] = seq[j]
      <4>1. TAKE k \in 1..Len(q)
      <4>2. CASE k = Len(w) + 1
        BY <2>4, <2>7, <3>1, <4>2 DEF v
      <4>3. CASE k \in 1..Len(w)
        BY <2>2, <2>4, <3>1, <4>3
      <4> QED BY <3>1, <3>3, <4>2, <4>3
    <3>7. \A j \in 1..i : seq[j] \in S => \E k \in 1..Len(q) : q[k] = seq[j]
      <4>1. TAKE j \in 1..i
      <4>2. CASE j = i
        BY <3>1, <3>4, <4>2 DEF v
      <4>3. CASE j \in 1..i-1
        BY <2>2, <3>1, <3>4, <4>3
      <4> QED BY <2>4, <4>2, <4>3
    <3> QED BY <2>1, <3>1, <3>2, <3>5, <3>6, <3>7
  <2> QED BY <2>6, <2>7
<1>5. 0..n \subseteq G
  <2>1. 0 \in Nat /\ 0 <= n
    BY <1>2
  <2> HIDE DEF G
  <2> QED BY <1>2, <1>3, <1>4, <2>1, Climb
<1>6. n \in G
  BY <1>2, <1>5
<1> DEFINE r == Pick(seq, S)
<1>7. /\ r \in Seq(R)
      /\ \A k, l \in 1..Len(r) : r[k] = r[l] => k = l
      /\ \A k \in 1..Len(r) : r[k] \in S /\ \E j \in 1..n : r[k] = seq[j]
      /\ \A j \in 1..n : seq[j] \in S => \E k \in 1..Len(r) : r[k] = seq[j]
  BY <1>1, <1>6
<1> HIDE DEF r
<1>8. {r[k] : k \in 1..Len(r)} = {seq[j] : j \in 1..n} \cap S
  <2>1. ASSUME NEW x PROVE x \in {r[k] : k \in 1..Len(r)} <=> x \in {seq[j] : j \in 1..n} \cap S
    <3>1. ASSUME NEW k \in 1..Len(r), x = r[k] PROVE x \in {seq[j] : j \in 1..n} \cap S
      BY <1>7, <3>1
    <3>2. ASSUME NEW j \in 1..n, x = seq[j], x \in S PROVE \E k \in 1..Len(r) : x = r[k]
      BY <1>7, <3>2
    <3> QED BY <3>1, <3>2
  <2> QED BY <2>1
<1> QED BY <1>7, <1>8 DEF r

(* SetToSeq lists a set, each member once.                                 *)
LEMMA ListIs ==
  ASSUME NEW S, IsFiniteSet(S), NEW R, S \subseteq R
  PROVE  LET f == SetToSeq(S)
         IN  /\ f \in Seq(R)
             /\ \A k, l \in 1..Len(f) : f[k] = f[l] => k = l
             /\ {f[k] : k \in 1..Len(f)} = S
<1> DEFINE n == Cardinality(S)
           f == SetToSeq(S)
<1>1. n \in Nat /\ ExistsBijection(1..n, S)
  BY FS_CardinalityType
<1>2. PICK b : b \in [1..n -> S] /\ \A x, y \in 1..n : b[x] = b[y] => x = y
  BY <1>1 DEF ExistsBijection, Bijection, Injection, Surjection, IsInjective
<1>3. \E h \in [1..n -> S] : IsInjective(h)
  BY <1>2 DEF IsInjective
<1>4. f \in [1..n -> S] /\ IsInjective(f)
  BY <1>3 DEF SetToSeq
<1> HIDE DEF f
<1>5. \A k, l \in 1..n : f[k] = f[l] => k = l
  BY <1>4 DEF IsInjective
<1>6. f \in Injection(1..n, S)
  BY <1>4, <1>5 DEF Injection, IsInjective
<1>7. f \in Surjection(1..n, S)
  <2>1. IsFiniteSet(1..n) /\ Cardinality(1..n) = n
    BY <1>1, FS_Interval
  <2> QED BY <1>6, <2>1, FS_Injection
<1>8. \A y \in S : \E k \in 1..n : f[k] = y
  BY <1>7 DEF Surjection
<1>9. f \in Seq(R) /\ Len(f) = n
  BY <1>1, <1>4
<1>10. {f[k] : k \in 1..n} = S
  BY <1>4, <1>8
<1> QED BY <1>5, <1>9, <1>10 DEF f

(* Names of the scripts, and none; the rows of the plan.                   *)
Names == ToSet(TestFiles) \cup Fixtures \cup {""}
Rows == [type : {"fixture", "test", "teardown"}, dir : Dirs, file : Names]

(* r lists what is to run in d: nf fixtures, then the tests.               *)
Lists(r, d, nf) ==
  /\ r \in Seq(Rows) /\ nf \in 0..Len(r)
  /\ \A i \in 1..Len(r) :
       /\ r[i].dir = d
       /\ i <= nf => r[i].type = "fixture" /\ r[i].file \in content[d] \cap Fixtures
       /\ i > nf => r[i].type = "test" /\ r[i].file \in Matching(d)
  /\ \A i, j \in 1..Len(r) : r[i].file = r[j].file => i = j
  /\ \A f \in content[d] \cap Fixtures : \E i \in 1..nf : r[i].file = f
  /\ \A f \in Matching(d) : \E i \in nf+1..Len(r) : r[i].file = f

(* A sequence all of whose elements are in B.                              *)
LEMMA Retype ==
  ASSUME NEW A, NEW B, NEW s \in Seq(A), \A i \in 1..Len(s) : s[i] \in B
  PROVE  s \in Seq(B)
OBVIOUS

(* A sequence of one element.                                              *)
LEMMA Single ==
  \A R : \A r \in R : <<r>> \in Seq(R) /\ Len(<<r>>) = 1 /\ <<r>>[1] = r
OBVIOUS

(* The rows of an exit and of an entry, fixtures first.                    *)
LEMMA RowsAre ==
  ASSUME NEW d \in Dirs
  PROVE  /\ StepsOf(d, TRUE) = << [type |-> "teardown", dir |-> d, file |-> ""] >>
         /\ StepsOf(d, TRUE) \in Seq(Rows)
         /\ \E nf : Lists(StepsOf(d, FALSE), d, nf)
<1> DEFINE fx == SetToSeq(content[d] \cap Fixtures)
           ts == Pick(TestFiles, Matching(d))
           n == Len(fx)
           k == Len(ts)
           row(i) == IF i <= n THEN [type |-> "fixture", dir |-> d, file |-> fx[i]]
                               ELSE [type |-> "test", dir |-> d, file |-> ts[i - n]]
           r == [i \in 1..n + k |-> row(i)]
<1>1. StepsOf(d, TRUE) = << [type |-> "teardown", dir |-> d, file |-> ""] >>
  BY DEF StepsOf
<1>2. StepsOf(d, TRUE) \in Seq(Rows)
  <2>1. [type |-> "teardown", dir |-> d, file |-> ""] \in Rows
    BY DEF Rows, Names
  <2> DEFINE w == [type |-> "teardown", dir |-> d, file |-> ""]
  <2>2. StepsOf(d, TRUE) = <<w>> /\ w \in Rows
    BY <1>1, <2>1
  <2> HIDE DEF w
  <2> QED BY <2>2, Single
<1>3. StepsOf(d, FALSE) = r
  BY DEF StepsOf
<1>4. /\ fx \in Seq(Names)
      /\ \A i, j \in 1..n : fx[i] = fx[j] => i = j
      /\ {fx[i] : i \in 1..n} = content[d] \cap Fixtures
  <2>1. IsFiniteSet(Fixtures)
    <3>1. IsFiniteSet({"_setup.sql"})
      BY FS_Singleton
    <3>2. IsFiniteSet({"_setup.sql"} \cup {"_setup.psql"})
      BY <3>1, FS_AddElement
    <3>3. Fixtures = {"_setup.sql"} \cup {"_setup.psql"}
      BY DEF Fixtures
    <3> QED BY ONLY <3>2, <3>3
  <2>2. IsFiniteSet(content[d] \cap Fixtures)
    BY <2>1, FS_Subset
  <2>3. content[d] \cap Fixtures \subseteq Names
    BY DEF Names
  <2> QED BY <2>2, <2>3, ListIs
<1>5. /\ ts \in Seq(Names)
      /\ \A i, j \in 1..k : ts[i] = ts[j] => i = j
      /\ {ts[i] : i \in 1..k} = Matching(d)
  <2>1. TestFiles \in Seq(Names) /\ \A i, j \in 1..Len(TestFiles) : TestFiles[i] = TestFiles[j] => i = j
    <3>1. TestFiles \in Seq(STRING) /\ DOMAIN TestFiles = 1..Len(TestFiles)
      BY TestFilesAssumption
    <3>2. \A i \in 1..Len(TestFiles) : TestFiles[i] \in Names
      BY <3>1 DEF Names, ToSet
    <3>3. TestFiles \in Seq(Names)
      BY <3>1, <3>2, Retype
    <3> QED BY <3>1, <3>3, TestFilesAssumption
  <2>2. /\ ts \in Seq(Names)
        /\ \A i, j \in 1..k : ts[i] = ts[j] => i = j
        /\ {ts[i] : i \in 1..k} = {TestFiles[j] : j \in 1..Len(TestFiles)} \cap Matching(d)
    BY <2>1, PickIs
  <2>3. Matching(d) \subseteq {TestFiles[j] : j \in 1..Len(TestFiles)}
    <3>1. DOMAIN TestFiles = 1..Len(TestFiles)
      BY <2>1
    <3> QED BY <3>1 DEF Matching, ToSet
  <2> HIDE DEF ts, k
  <2> QED BY <2>2, <2>3
<1>6. \A f \in Matching(d) : f \notin Fixtures
  BY TestFilesAssumption DEF Matching, ToSet
<1> HIDE DEF fx, ts
<1>7. n \in Nat /\ k \in Nat /\ n \in 0..n+k
  BY <1>4, <1>5
<1> HIDE DEF n, k
<1>8. ASSUME NEW i \in 1..n + k
      PROVE  /\ r[i] = row(i)
             /\ i <= n => i \in 1..n /\ fx[i] \in content[d] \cap Fixtures /\ fx[i] \in Names
             /\ i > n => i - n \in 1..k /\ ts[i-n] \in Matching(d) /\ ts[i-n] \in Names
  <2>1. i <= n => i \in 1..n
    BY <1>7
  <2>2. i > n => i - n \in 1..k
    BY <1>7
  <2> QED BY <1>4, <1>5, <2>1, <2>2 DEF n, k
<1>9. ASSUME NEW i \in 1..n + k
      PROVE  /\ r[i] \in Rows /\ r[i].dir = d
             /\ i <= n => r[i].type = "fixture" /\ r[i].file = fx[i] /\ r[i].file \in content[d] \cap Fixtures
             /\ i > n => r[i].type = "test" /\ r[i].file = ts[i-n] /\ r[i].file \in Matching(d)
  <2>1. CASE i <= n
    <3>1. r[i] = [type |-> "fixture", dir |-> d, file |-> fx[i]] /\ ~(i > n)
      BY <1>7, <1>8, <2>1
    <3> QED BY <1>8, <2>1, <3>1 DEF Rows
  <2>2. CASE i > n
    <3>1. r[i] = [type |-> "test", dir |-> d, file |-> ts[i-n]] /\ ~(i <= n)
      BY <1>7, <1>8, <2>2
    <3> QED BY <1>8, <2>2, <3>1 DEF Rows
  <2> QED BY <1>7, <2>1, <2>2
<1> HIDE DEF row
<1>10. r \in Seq(Rows) /\ Len(r) = n + k
  BY <1>7, <1>9
<1> HIDE DEF r
<1>11. ASSUME NEW i \in 1..n + k, NEW j \in 1..n + k, r[i].file = r[j].file PROVE i = j
  <2>1. CASE i <= n /\ j <= n
    BY <1>4, <1>8, <1>9, <1>11, <2>1 DEF n
  <2>2. CASE i > n /\ j > n
    <3>1. i - n = j - n
      BY <1>5, <1>8, <1>9, <1>11, <2>2 DEF k
    <3> QED BY <1>7, <3>1
  <2>3. CASE i <= n /\ j > n
    BY <1>6, <1>9, <1>11, <2>3
  <2>4. CASE i > n /\ j <= n
    BY <1>6, <1>9, <1>11, <2>4
  <2> QED BY <1>7, <2>1, <2>2, <2>3, <2>4
<1>12. ASSUME NEW f \in content[d] \cap Fixtures PROVE \E i \in 1..n : r[i].file = f
  <2>1. PICK i \in 1..n : fx[i] = f
    BY <1>4 DEF n
  <2>2. i \in 1..n + k /\ i <= n
    BY <1>7
  <2> QED BY <1>9, <2>1, <2>2
<1>13. ASSUME NEW f \in Matching(d) PROVE \E i \in n+1..n+k : r[i].file = f
  <2>1. PICK j \in 1..k : ts[j] = f
    BY <1>5 DEF k
  <2>2. PICK i : i = j + n
    OBVIOUS
  <2>3. i \in 1..n + k /\ i > n /\ i - n = j /\ i \in n+1..n+k
    BY <1>7, <2>2
  <2> QED BY <1>9, <2>1, <2>3
<1>14. Lists(r, d, n)
  BY <1>7, <1>9, <1>10, <1>11, <1>12, <1>13 DEF Lists
<1> QED BY <1>1, <1>2, <1>3, <1>14

----------------------------------------------------------------------------
(* The generated statements and what the generator carries                 *)

(* What is announced, the rows, and the statements.                        *)
Notices == {"suite_start", "suite_end", "fixture_start", "fixture_end", "test_start",
            "test_end", "rollback", "teardown_start", "teardown_end"}
Kinds == {"fixture", "test", "teardown"}

(* The statements of a script.                                             *)
Ops == ({"event"} \X Notices \X (Dirs \cup {NoDir}) \X Names)
         \cup ({"run"} \X Kinds \X Dirs \X Names)
         \cup ({"savepoint", "rollback_to", "release"} \X Nat)

(* What the generator carries.                                             *)
Gens == [sql : Seq(Ops), n : Nat, tests : Nat, dirSp : [Dirs -> Nat], testSp : [Dirs -> Nat]]

(* The statements of the generator are statements.                         *)
LEMMA OpsAre ==
  ASSUME NEW s \in Rows
  PROVE  /\ \A e \in Notices : Event(e, s) \in Ops
         /\ RunSource(s) \in Ops
         /\ \A n \in Nat : Savepoint(n) \in Ops /\ RollbackTo(n) \in Ops /\ ReleaseSp(n) \in Ops
<1>1. s.type \in Kinds /\ s.dir \in Dirs /\ s.file \in Names
  BY DEF Rows, Kinds
<1> QED BY <1>1 DEF Ops, Event, RunSource, Savepoint, RollbackTo, ReleaseSp

(* A sequence and one more element.                                        *)
LEMMA SeqStep ==
  ASSUME NEW R, NEW s \in Seq(R), NEW a \in R
  PROVE  /\ s \o <<a>> \in Seq(R) /\ Len(s) \in Nat /\ Len(s \o <<a>>) = Len(s) + 1
         /\ (s \o <<a>>)[Len(s) + 1] = a
         /\ \A k \in 1..Len(s) : (s \o <<a>>)[k] = s[k]
<1> DEFINE u == <<a>>
<1>1. s \in Seq(R) /\ u \in Seq(R) /\ Len(u) = 1 /\ u[1] = a
  OBVIOUS
<1> HIDE DEF u
<1>2. /\ s \o u \in Seq(R) /\ Len(s \o u) = Len(s) + Len(u)
      /\ \A k \in 1..Len(s) : (s \o u)[k] = s[k]
      /\ \A k \in 1..Len(u) : (s \o u)[Len(s) + k] = u[k]
  BY ONLY <1>1, Joined
<1>3. Len(s) \in Nat
  BY <1>1
<1> QED BY <1>1, <1>2, <1>3 DEF u

(* Appending the statements of a tuple one by one.                         *)
LEMMA Pairs ==
  ASSUME NEW R, NEW s \in Seq(R), NEW a \in R, NEW b \in R
  PROVE  s \o <<a, b>> = (s \o <<a>>) \o <<b>>
<1> DEFINE u == <<a>>
           v == <<b>>
           uv == <<a, b>>
<1>1. u \in Seq(R) /\ v \in Seq(R) /\ uv \in Seq(R)
  OBVIOUS
<1>2. uv = u \o v
  <2>1. /\ Len(u) = 1 /\ u[1] = a /\ Len(v) = 1 /\ v[1] = b
        /\ Len(uv) = 2 /\ uv[1] = a /\ uv[2] = b
    OBVIOUS
  <2> HIDE DEF u, v, uv
  <2>2. u \o v \in Seq(R) /\ Len(u \o v) = 2 /\ (u \o v)[1] = u[1] /\ (u \o v)[1 + 1] = v[1]
    <3>1. /\ u \o v \in Seq(R) /\ Len(u \o v) = Len(u) + Len(v)
          /\ \A k \in 1..Len(u) : (u \o v)[k] = u[k]
          /\ \A k \in 1..Len(v) : (u \o v)[Len(u) + k] = v[k]
      BY ONLY <1>1, Joined
    <3> QED BY <2>1, <3>1
  <2>3. \A i \in 1..2 : i = 1 \/ i = 2
    OBVIOUS
  <2>4. \A i \in 1..2 : uv[i] = (u \o v)[i]
    BY <2>1, <2>2, <2>3
  <2> QED BY <1>1, <2>1, <2>2, <2>4, SeqEqual
<1> HIDE DEF u, v, uv
<1>3. \A p, q, r \in Seq(R) : (p \o q) \o r = p \o (q \o r)
  <2> TAKE p, q, r \in Seq(R)
  <2>1. p \in Seq(R) /\ q \in Seq(R) /\ r \in Seq(R)
    OBVIOUS
  <2> QED BY ONLY <2>1, Regroup
<1>4. s \o uv = (s \o u) \o v
  BY <1>1, <1>2, <1>3
<1> QED BY <1>4 DEF u, v, uv

(* One, four and five statements more.                                     *)
Put(s, a) == s \o <<a>>
Put4(s, a, b, c, d) == s \o <<a, b, c, d>>
Put5(s, a, b, c, d, e) == s \o <<a, b, c, d, e>>

(* Appending four statements is appending one four times.                  *)
LEMMA Quads ==
  ASSUME NEW s \in Seq(Ops), NEW a \in Ops, NEW b \in Ops, NEW c \in Ops, NEW d \in Ops
  PROVE  Put4(s, a, b, c, d) = Put(Put(Put(Put(s, a), b), c), d)
<1> DEFINE u == <<a>>
           v == <<b>>
           w == <<c>>
           x == <<d>>
           uv == <<a, b>>
           uw == <<a, b, c>>
           ux == <<a, b, c, d>>
<1>1. u \in Seq(Ops) /\ v \in Seq(Ops) /\ w \in Seq(Ops) /\ x \in Seq(Ops)
  OBVIOUS
<1>2. s \o uv = (s \o u) \o v /\ uv \in Seq(Ops)
  BY Pairs
<1>3. uw = uv \o w
  OBVIOUS
<1>4. ux = uw \o x
  OBVIOUS
<1> HIDE DEF u, v, w, x, uv, uw, ux
<1>5. uw \in Seq(Ops)
  BY <1>1, <1>2, <1>3, ConcatProperties
<1>6. \A p, q, r \in Seq(Ops) : (p \o q) \o r = p \o (q \o r)
  <2> TAKE p, q, r \in Seq(Ops)
  <2>1. p \in Seq(Ops) /\ q \in Seq(Ops) /\ r \in Seq(Ops)
    OBVIOUS
  <2> QED BY ONLY <2>1, Regroup
<1>7. s \o uw = (s \o uv) \o w
  BY <1>1, <1>2, <1>3, <1>6
<1>8. s \o ux = (s \o uw) \o x
  <2>1. s \in Seq(Ops) /\ x \in Seq(Ops)
    BY <1>1
  <2> QED BY ONLY <1>4, <1>5, <1>6, <2>1
<1> QED BY <1>2, <1>7, <1>8 DEF u, v, w, x, uv, uw, ux, Put, Put4

(* Appending five statements is appending one five times.                  *)
LEMMA Quints ==
  ASSUME NEW s \in Seq(Ops), NEW a \in Ops, NEW b \in Ops, NEW c \in Ops, NEW d \in Ops, NEW e \in Ops
  PROVE  Put5(s, a, b, c, d, e) = Put(Put(Put(Put(Put(s, a), b), c), d), e)
<1> DEFINE y == <<e>>
           ux == <<a, b, c, d>>
           uy == <<a, b, c, d, e>>
<1>1. y \in Seq(Ops) /\ ux \in Seq(Ops)
  OBVIOUS
<1> DEFINE z == Put(Put(Put(Put(s, a), b), c), d)
<1>2. s \o ux = z
  BY Quads DEF Put4
<1>3. uy = ux \o y
  OBVIOUS
<1> HIDE DEF y, ux, uy, z
<1>4. \A p, q, r \in Seq(Ops) : (p \o q) \o r = p \o (q \o r)
  <2> TAKE p, q, r \in Seq(Ops)
  <2>1. p \in Seq(Ops) /\ q \in Seq(Ops) /\ r \in Seq(Ops)
    OBVIOUS
  <2> QED BY ONLY <2>1, Regroup
<1>5. s \o uy = (s \o ux) \o y
  BY <1>1, <1>3, <1>4
<1>6. Put5(s, a, b, c, d, e) = Put(z, e)
  BY <1>2, <1>5 DEF y, uy, Put, Put5
<1> QED BY <1>6 DEF z

(* The array lookup keeps the first savepoint of a directory.              *)
LEMMA FirstOfIs ==
  ASSUME NEW f \in [Dirs -> Nat], NEW d \in Dirs, NEW n \in Nat
  PROVE  LET h == FirstOf(f, d, n)
         IN  /\ h \in [Dirs -> Nat]
             /\ \A e \in Dirs : e # d => h[e] = f[e]
             /\ f[d] = 0 => h[d] = n
             /\ f[d] # 0 => h = f
BY DEF FirstOf

(* The updates of AddFixture, AddTest and AddTeardown.                     *)
WithFixture(g, n, sp, q) == [g EXCEPT !.n = n, !.dirSp = sp, !.sql = q]
WithTest(g, n, k, sp, tp, q) == [g EXCEPT !.n = n, !.tests = k, !.dirSp = sp, !.testSp = tp, !.sql = q]
WithSql(g, q) == [g EXCEPT !.sql = q]

(* The fields of an updated record.                                        *)
LEMMA FixtureUpdates ==
  ASSUME NEW g \in Gens, NEW n \in Nat, NEW sp \in [Dirs -> Nat], NEW q \in Seq(Ops)
  PROVE  LET h == WithFixture(g, n, sp, q)
         IN  /\ h \in Gens /\ h.n = n /\ h.tests = g.tests /\ h.testSp = g.testSp
             /\ h.dirSp = sp /\ h.sql = q
BY DEF Gens, WithFixture

(* Only the script is updated.                                             *)
LEMMA SqlUpdates ==
  ASSUME NEW g \in Gens, NEW q \in Seq(Ops)
  PROVE  LET h == WithSql(g, q)
         IN  /\ h \in Gens /\ h.n = g.n /\ h.tests = g.tests /\ h.testSp = g.testSp
             /\ h.dirSp = g.dirSp /\ h.sql = q
BY DEF Gens, WithSql

(* What a fixture row adds to the generator.                               *)
LEMMA FixtureAdds ==
  ASSUME NEW g \in Gens, NEW s \in Rows
  PROVE  LET h == AddFixture(g, s)
         IN  /\ h \in Gens /\ h.n = g.n + 1 /\ h.tests = g.tests /\ h.testSp = g.testSp
             /\ h.dirSp = FirstOf(g.dirSp, s.dir, g.n + 1)
             /\ h.sql = g.sql \o <<Savepoint(g.n + 1), Event("fixture_start", s),
                                   RunSource(s), Event("fixture_end", s)>>
<1> DEFINE n == g.n + 1
           p == <<Savepoint(n), Event("fixture_start", s), RunSource(s), Event("fixture_end", s)>>
           q == g.sql \o p
           sp == FirstOf(g.dirSp, s.dir, n)
<1>1. /\ g.sql \in Seq(Ops) /\ g.n \in Nat /\ g.tests \in Nat /\ g.dirSp \in [Dirs -> Nat]
      /\ g.testSp \in [Dirs -> Nat] /\ s.dir \in Dirs /\ n \in Nat
  BY DEF Gens, Rows
<1>2. sp \in [Dirs -> Nat]
  BY <1>1, FirstOfIs
<1>3. q \in Seq(Ops)
  <2>1. /\ Savepoint(n) \in Ops /\ Event("fixture_start", s) \in Ops /\ RunSource(s) \in Ops
        /\ Event("fixture_end", s) \in Ops
    BY <1>1, OpsAre DEF Notices
  <2>2. p \in Seq(Ops)
    BY <2>1
  <2> HIDE DEF p
  <2> QED BY <1>1, <2>2, ConcatProperties
<1>4. AddFixture(g, s) = WithFixture(g, n, sp, q)
  BY DEF AddFixture, WithFixture
<1> HIDE DEF n, q, sp
<1>5. n \in Nat
  BY <1>1 DEF n
<1>6. LET h == AddFixture(g, s)
      IN  /\ h \in Gens /\ h.n = n /\ h.tests = g.tests /\ h.testSp = g.testSp
          /\ h.dirSp = sp /\ h.sql = q
  BY <1>2, <1>3, <1>4, <1>5, FixtureUpdates
<1> QED BY <1>6 DEF n, q, sp

(* What a test row adds, by which savepoints exist.                        *)
TestBlock(s, k) ==
  <<Event("test_start", s), RunSource(s), Event("test_end", s), Event("rollback", s), RollbackTo(k)>>

(* The three cases: no savepoint of the directory, none for its tests,     *)
(* both.                                                                   *)
AddsTest(g, s, h) ==
  LET d == s.dir
      one == Put(g.sql, Savepoint(g.n + 1))
      both == Put(one, Savepoint(g.n + 2))
  IN  /\ h \in Gens /\ h.tests = g.tests + 1
      /\ g.dirSp[d] = 0 /\ g.testSp[d] = 0 =>
           /\ h.n = g.n + 2 /\ h.dirSp = FirstOf(g.dirSp, d, g.n + 1)
           /\ h.testSp = FirstOf(g.testSp, d, g.n + 2)
           /\ h.sql = both \o TestBlock(s, g.n + 2)
      /\ g.dirSp[d] # 0 /\ g.testSp[d] = 0 =>
           /\ h.n = g.n + 1 /\ h.dirSp = g.dirSp
           /\ h.testSp = FirstOf(g.testSp, d, g.n + 1)
           /\ h.sql = one \o TestBlock(s, g.n + 1)
      /\ g.dirSp[d] # 0 /\ g.testSp[d] # 0 =>
           /\ h.n = g.n /\ h.dirSp = g.dirSp /\ h.testSp = g.testSp
           /\ h.sql = g.sql \o TestBlock(s, g.testSp[d])

(* What a test row adds to the generator.                                  *)
LEMMA TestAdds ==
  ASSUME NEW g \in Gens, NEW s \in Rows
  PROVE  AddsTest(g, s, AddTest(g, s)) /\ AddTest(g, s) \in Gens
<1> DEFINE d == s.dir
           dn == g.n + (IF g.dirSp[d] = 0 THEN 1 ELSE 0)
           tn == dn + (IF g.testSp[d] = 0 THEN 1 ELSE 0)
           dp == FirstOf(g.dirSp, d, dn)
           tp == FirstOf(g.testSp, d, tn)
           sd == g.sql \o (IF g.dirSp[d] = 0 THEN <<Savepoint(dn)>> ELSE <<>>)
           st == sd \o (IF g.testSp[d] = 0 THEN <<Savepoint(tn)>> ELSE <<>>)
           q == st \o TestBlock(s, tp[d])
<1>1. /\ g.sql \in Seq(Ops) /\ g.n \in Nat /\ g.tests \in Nat /\ g.dirSp \in [Dirs -> Nat]
      /\ g.testSp \in [Dirs -> Nat] /\ s.dir \in Dirs /\ dn \in Nat /\ tn \in Nat
  BY DEF Gens, Rows
<1>2. dp \in [Dirs -> Nat] /\ tp \in [Dirs -> Nat] /\ tp[d] \in Nat
  <2> HIDE DEF dn, tn
  <2>1. dp \in [Dirs -> Nat] /\ tp \in [Dirs -> Nat]
    BY <1>1, FirstOfIs
  <2> HIDE DEF dp, tp
  <2> QED BY <1>1, <2>1
<1>3. \A r \in Seq(Ops) : \A o \in Ops : r \o <<o>> \in Seq(Ops)
  BY SeqStep
<1>4. \A r \in Seq(Ops) : r \o <<>> = r
  BY ConcatEmptySeq
<1>5. sd \in Seq(Ops) /\ st \in Seq(Ops)
  <2>1. Savepoint(dn) \in Ops /\ Savepoint(tn) \in Ops
    BY <1>1, OpsAre
  <2> HIDE DEF dn, tn
  <2>2. sd \in Seq(Ops)
    BY <1>1, <1>3, <1>4, <2>1
  <2> HIDE DEF sd
  <2> QED BY <1>3, <1>4, <2>1, <2>2
<1>6. q \in Seq(Ops)
  <2>1. \A k \in Nat : TestBlock(s, k) \in Seq(Ops)
    <3>1. TAKE k \in Nat
    <3>2. /\ Event("test_start", s) \in Ops /\ RunSource(s) \in Ops /\ Event("test_end", s) \in Ops
          /\ Event("rollback", s) \in Ops /\ RollbackTo(k) \in Ops
      BY OpsAre DEF Notices
    <3> QED BY <3>2 DEF TestBlock
  <2> HIDE DEF tp, st
  <2> QED BY <1>2, <1>5, <2>1, ConcatProperties
<1>7. AddTest(g, s) = WithTest(g, tn, g.tests + 1, dp, tp, q)
  BY DEF AddTest, WithTest, TestBlock
<1>8. /\ g.dirSp[d] = 0 => dn = g.n + 1 /\ sd = g.sql \o <<Savepoint(g.n + 1)>>
      /\ g.dirSp[d] # 0 => dn = g.n /\ dp = g.dirSp /\ sd = g.sql
  <2>1. dn = IF g.dirSp[d] = 0 THEN g.n + 1 ELSE g.n
    BY <1>1
  <2>2. g.dirSp[d] # 0 => dp = g.dirSp
    <3> HIDE DEF dn
    <3> QED BY <1>1, FirstOfIs
  <2> HIDE DEF dn, dp
  <2> QED BY <1>1, <1>4, <2>1, <2>2
<1>9. /\ g.testSp[d] = 0 => tn = dn + 1 /\ tp[d] = tn /\ st = sd \o <<Savepoint(tn)>>
      /\ g.testSp[d] # 0 => tn = dn /\ tp = g.testSp /\ st = sd
  <2>1. tn = IF g.testSp[d] = 0 THEN dn + 1 ELSE dn
    BY <1>1
  <2>2. g.testSp[d] = 0 => tp[d] = tn
    <3> HIDE DEF tn
    <3> QED BY <1>1, FirstOfIs
  <2>3. g.testSp[d] # 0 => tp = g.testSp
    <3> HIDE DEF tn
    <3> QED BY <1>1, FirstOfIs
  <2> HIDE DEF dn, tn, tp, sd
  <2> QED BY <1>4, <1>5, <2>1, <2>2, <2>3
<1> HIDE DEF dn, tn, dp, tp, sd, st, q
<1>10. g.tests + 1 \in Nat
  BY <1>1
<1> DEFINE h == AddTest(g, s)
<1>11. /\ h \in Gens /\ h.n = tn /\ h.tests = g.tests + 1 /\ h.testSp = tp /\ h.dirSp = dp /\ h.sql = q
  <2> DEFINE k == g.tests + 1
  <2> HIDE DEF k
  <2>1. h = WithTest(g, tn, k, dp, tp, q) /\ k \in Nat
    BY <1>7, <1>10 DEF k
  <2>2. LET w == WithTest(g, tn, k, dp, tp, q)
        IN  /\ w \in Gens /\ w.n = tn /\ w.tests = k /\ w.testSp = tp /\ w.dirSp = dp /\ w.sql = q
    <3>1. /\ g \in Gens /\ tn \in Nat /\ k \in Nat /\ dp \in [Dirs -> Nat] /\ tp \in [Dirs -> Nat]
          /\ q \in Seq(Ops)
      BY <1>1, <1>2, <1>6, <2>1
    <3> QED BY ONLY <3>1 DEF Gens, WithTest
  <2> QED BY <2>1, <2>2 DEF k
<1> HIDE DEF h
<1>12. g.n + 1 + 1 = g.n + 2
  BY <1>1
<1> SUFFICES AddsTest(g, s, h)
  BY <1>11 DEF h
<1>13. CASE g.dirSp[d] = 0 /\ g.testSp[d] = 0
  BY <1>8, <1>9, <1>11, <1>12, <1>13 DEF dp, tp, q, AddsTest, Put
<1>14. CASE g.dirSp[d] # 0 /\ g.testSp[d] = 0
  BY <1>8, <1>9, <1>11, <1>14 DEF tp, q, AddsTest, Put
<1>15. CASE g.dirSp[d] # 0 /\ g.testSp[d] # 0
  BY <1>8, <1>9, <1>11, <1>15 DEF q, AddsTest, Put
<1>16. CASE g.dirSp[d] = 0 /\ g.testSp[d] # 0
  BY <1>11, <1>16 DEF AddsTest, Put
<1> QED BY <1>13, <1>14, <1>15, <1>16

(* What a teardown row adds to the generator.                              *)
LEMMA TeardownAdds ==
  ASSUME NEW g \in Gens, NEW s \in Rows
  PROVE  LET h == AddTeardown(g, s)
             k == g.dirSp[s.dir]
             first == Put(g.sql, Event("teardown_start", s))
         IN  /\ h \in Gens /\ h.n = g.n /\ h.tests = g.tests /\ h.testSp = g.testSp /\ h.dirSp = g.dirSp
             /\ k = 0 => h.sql = Put(first, Event("teardown_end", s))
             /\ k # 0 => h.sql = Put(Put(Put(first, RollbackTo(k)), ReleaseSp(k)), Event("teardown_end", s))
<1> DEFINE k == g.dirSp[s.dir]
           first == g.sql \o <<Event("teardown_start", s)>>
           second == first \o (IF k # 0 THEN <<RollbackTo(k), ReleaseSp(k)>> ELSE <<>>)
           q == second \o <<Event("teardown_end", s)>>
<1>1. /\ g.sql \in Seq(Ops) /\ g.n \in Nat /\ g.tests \in Nat /\ g.dirSp \in [Dirs -> Nat]
      /\ g.testSp \in [Dirs -> Nat] /\ s.dir \in Dirs /\ k \in Nat
  BY DEF Gens, Rows
<1>2. /\ Event("teardown_start", s) \in Ops /\ RollbackTo(k) \in Ops /\ ReleaseSp(k) \in Ops
      /\ Event("teardown_end", s) \in Ops
  BY <1>1, OpsAre DEF Notices
<1>3. \A r \in Seq(Ops) : \A o \in Ops : r \o <<o>> \in Seq(Ops)
  BY SeqStep
<1>4. \A r \in Seq(Ops) : r \o <<>> = r
  BY ConcatEmptySeq
<1>5. \A r \in Seq(Ops) : \A a, b \in Ops : r \o <<a, b>> = (r \o <<a>>) \o <<b>>
  BY Pairs
<1>6. AddTeardown(g, s) = WithSql(g, q)
  BY DEF AddTeardown, WithSql
<1> HIDE DEF k
<1>7. first \in Seq(Ops)
  BY <1>1, <1>2, <1>3
<1> HIDE DEF first
<1>8. /\ k = 0 => second = first
      /\ k # 0 => second = (first \o <<RollbackTo(k)>>) \o <<ReleaseSp(k)>>
  BY <1>2, <1>4, <1>5, <1>7
<1>9. second \in Seq(Ops)
  BY <1>2, <1>3, <1>7, <1>8
<1> HIDE DEF second
<1>10. q \in Seq(Ops)
  BY <1>2, <1>3, <1>9
<1> DEFINE h == AddTeardown(g, s)
<1>12. h \in Gens /\ h.n = g.n /\ h.tests = g.tests /\ h.testSp = g.testSp /\ h.dirSp = g.dirSp /\ h.sql = q
  <2> HIDE DEF q
  <2> QED BY <1>1, <1>6, <1>10, SqlUpdates
<1> HIDE DEF h
<1> QED BY <1>8, <1>12 DEF k, first, h, Put

(* The row decides what is added.                                          *)
LEMMA AddIs ==
  ASSUME NEW g \in Gens, NEW s \in Rows
  PROVE  /\ Add(g, s) \in Gens
         /\ s.type = "fixture" => Add(g, s) = AddFixture(g, s)
         /\ s.type = "test" => Add(g, s) = AddTest(g, s)
         /\ s.type = "teardown" => Add(g, s) = AddTeardown(g, s)
<1>1. s.type \in {"fixture", "test", "teardown"}
  BY DEF Rows
<1>2. AddFixture(g, s) \in Gens /\ AddTest(g, s) \in Gens /\ AddTeardown(g, s) \in Gens
  BY FixtureAdds, TestAdds, TeardownAdds
<1> QED BY <1>1, <1>2 DEF Add

(* The loop over the rows of a visit.                                     *)
RowLoop(t, gen, steps) ==
  /\ t \in [0..Len(steps) -> Gens] /\ t[0] = gen
  /\ \A i \in 1..Len(steps) : t[i] = Add(t[i-1], steps[i])

(* AddSteps computes what the loop over the rows builds.                   *)
LEMMA RowsLoop ==
  ASSUME NEW gen \in Gens, NEW steps \in Seq(Rows)
  PROVE  \E t : RowLoop(t, gen, steps) /\ AddSteps(gen, steps) = t[Len(steps)]
<1> DEFINE n == Len(steps)
           T == Gens
           a == gen
           Eq(h) == h = [i \in 0..n |-> IF i = 0 THEN a ELSE Add(h[i-1], steps[i])]
           g == [z \in (0+1..n) \X T |-> Add(z[2], steps[z[1]])]
<1>1. n \in Nat /\ a \in T
  OBVIOUS
<1>2. \A i \in 1..n : \A x \in T : Add(x, steps[i]) \in T
  BY AddIs
<1>3. PICK k : Loop(k, T, a, 0, n, g)
  <2>1. 0 \in Nat /\ 0 <= n /\ 0 + 1 = 1
    BY <1>1
  <2>2. g \in [(0+1..n) \X T -> T]
    BY <1>2, <2>1
  <2> HIDE DEF g, T, n, a
  <2> QED BY <1>1, <2>1, <2>2, LoopRuns
<1>4. k \in [0..n -> T] /\ k[0] = a
  BY <1>3 DEF Loop
<1>5. \A i \in 1..n : i \in 0..n /\ i # 0 /\ i - 1 \in 0..n /\ i \in 0+1..n
  BY <1>1
<1> HIDE DEF n, T, a
<1>6. \A i \in 1..n : k[i] = Add(k[i-1], steps[i])
  <2>1. TAKE i \in 1..n
  <2>2. k[i] = g[<<i, k[i-1]>>] /\ <<i, k[i-1]>> \in (0+1..n) \X T
    BY <1>3, <1>4, <1>5 DEF Loop
  <2> QED BY <2>2
<1>7. Eq(k)
  <2> DEFINE h == [i \in 0..n |-> IF i = 0 THEN a ELSE Add(k[i-1], steps[i])]
  <2>1. \A i \in 0..n : i = 0 \/ i \in 1..n
    BY <1>1
  <2>2. \A i \in 0..n : k[i] = h[i]
    BY <1>4, <1>6, <2>1
  <2>3. k = [i \in 0..n |-> k[i]] /\ h = [i \in 0..n |-> h[i]]
    BY <1>4
  <2>4. k = h
    <3> HIDE DEF h
    <3> QED BY <2>2, <2>3
  <2> QED BY <2>4
<1> DEFINE c == CHOOSE h : Eq(h)
<1>8. Eq(c)
  <2> HIDE DEF Eq
  <2> QED BY <1>7
<1>9. AddSteps(gen, steps) = c[n]
  BY DEF AddSteps, n, a
<1> HIDE DEF c
<1>10. c[0] = a /\ \A i \in 1..n : c[i] = Add(c[i-1], steps[i])
  <2>1. 0 \in 0..n
    BY <1>1
  <2>2. c[0] = a
    BY <1>8, <2>1
  <2>3. ASSUME NEW i \in 1..n PROVE c[i] = Add(c[i-1], steps[i])
    BY <1>5, <1>8, <2>3
  <2> QED BY <2>2, <2>3
<1>11. c \in [0..n -> T]
  <2>1. c = [i \in 0..n |-> c[i]]
    BY <1>8
  <2>2. c[0] \in T
    BY <1>1, <1>10
  <2>3. \A i \in 0+1..n : c[i-1] \in T => c[i] \in T
    <3>1. TAKE i \in 0+1..n
    <3>2. i \in 1..n
      OBVIOUS
    <3>3. c[i] = Add(c[i-1], steps[i])
      BY <1>10, <3>2
    <3> QED BY <1>2, <3>2, <3>3
  <2>4. 0 \in Nat /\ 0 <= n
    BY <1>1
  <2> QED BY <1>1, <2>1, <2>2, <2>3, <2>4, LoopStays
<1>12. RowLoop(c, gen, steps)
  BY <1>10, <1>11 DEF RowLoop, n, T, a
<1> QED BY <1>9, <1>12 DEF n

(* AddSteps keeps the type of the generator.                               *)
LEMMA StepsAdd ==
  ASSUME NEW g \in Gens, NEW steps \in Seq(Rows)
  PROVE  AddSteps(g, steps) \in Gens
<1>1. PICK t : RowLoop(t, g, steps) /\ AddSteps(g, steps) = t[Len(steps)]
  BY RowsLoop
<1>2. Len(steps) \in 0..Len(steps)
  OBVIOUS
<1> QED BY <1>1, <1>2 DEF RowLoop

(* The generator starts typed.                                             *)
LEMMA StartIs ==
  Start \in Gens
<1> DEFINE o == <<"event", "suite_start", NoDir, "">>
           q == <<o>>
           z == [d \in Dirs |-> 0]
<1>1. o \in Ops
  BY DEF Ops, Notices, Names
<1>2. q \in Seq(Ops)
  <2> HIDE DEF o
  <2> QED BY <1>1, Single
<1>3. z \in [Dirs -> Nat]
  OBVIOUS
<1>4. Start = [sql |-> q, n |-> 0, tests |-> 0, dirSp |-> z, testSp |-> z]
  BY DEF Start
<1> HIDE DEF q, z
<1> QED BY <1>2, <1>3, <1>4 DEF Gens

(* The rows of a visit are rows.                                           *)
LEMMA VisitRows ==
  ASSUME NEW k \in 1..Len(Visits)
  PROVE  StepsOf(Visits[k][1], Visits[k][2]) \in Seq(Rows)
<1>1. Visits[k] \in Stops
  BY VisitsNest DEF Nests
<1>2. PICK d \in Used, b \in BOOLEAN : Visits[k] = <<d, b>>
  BY <1>1 DEF Stops
<1>3. d \in Dirs
  BY DEF Used, Registered
<1>4. StepsOf(d, TRUE) \in Seq(Rows) /\ StepsOf(d, FALSE) \in Seq(Rows)
  BY <1>3, RowsAre DEF Lists
<1>5. StepsOf(Visits[k][1], Visits[k][2]) = StepsOf(d, b)
  BY <1>2
<1>6. b = TRUE \/ b = FALSE
  OBVIOUS
<1> QED BY <1>4, <1>5, <1>6

(* The loop over the visits.                                               *)
VisitLoop(t) ==
  /\ t \in [0..Len(Visits) -> Gens] /\ t[0] = Start
  /\ \A i \in 1..Len(Visits) : t[i] = AddSteps(t[i-1], StepsOf(Visits[i][1], Visits[i][2]))

(* AddPlan computes what the loop over the visits builds.                  *)
LEMMA VisitsLoop ==
  \E t : VisitLoop(t) /\ AddPlan(Visits) = t[Len(Visits)]
<1> DEFINE n == Len(Visits)
           T == Gens
           a == Start
           Eq(h) == h = [i \in 0..n |-> IF i = 0 THEN a ELSE AddSteps(h[i-1], StepsOf(Visits[i][1], Visits[i][2]))]
           g == [z \in (0+1..n) \X T |-> AddSteps(z[2], StepsOf(Visits[z[1]][1], Visits[z[1]][2]))]
<1>1. n \in Nat /\ a \in T
  BY StartIs, VisitsNest DEF Nests
<1>2. \A i \in 1..n : \A x \in T : AddSteps(x, StepsOf(Visits[i][1], Visits[i][2])) \in T
  BY StepsAdd, VisitRows
<1>3. PICK k : Loop(k, T, a, 0, n, g)
  <2>1. 0 \in Nat /\ 0 <= n /\ 0 + 1 = 1
    BY <1>1
  <2>2. g \in [(0+1..n) \X T -> T]
    BY <1>2, <2>1
  <2> HIDE DEF g, T, n, a
  <2> QED BY <1>1, <2>1, <2>2, LoopRuns
<1>4. k \in [0..n -> T] /\ k[0] = a
  BY <1>3 DEF Loop
<1>5. \A i \in 1..n : i \in 0..n /\ i # 0 /\ i - 1 \in 0..n /\ i \in 0+1..n
  BY <1>1
<1> HIDE DEF n, T, a
<1>6. \A i \in 1..n : k[i] = AddSteps(k[i-1], StepsOf(Visits[i][1], Visits[i][2]))
  <2>1. TAKE i \in 1..n
  <2>2. k[i] = g[<<i, k[i-1]>>] /\ <<i, k[i-1]>> \in (0+1..n) \X T
    BY <1>3, <1>4, <1>5 DEF Loop
  <2> QED BY <2>2
<1>7. Eq(k)
  <2> DEFINE h == [i \in 0..n |-> IF i = 0 THEN a ELSE AddSteps(k[i-1], StepsOf(Visits[i][1], Visits[i][2]))]
  <2>1. \A i \in 0..n : i = 0 \/ i \in 1..n
    BY <1>1
  <2>2. \A i \in 0..n : k[i] = h[i]
    BY <1>4, <1>6, <2>1
  <2>3. k = [i \in 0..n |-> k[i]] /\ h = [i \in 0..n |-> h[i]]
    BY <1>4
  <2>4. k = h
    <3> HIDE DEF h
    <3> QED BY <2>2, <2>3
  <2> QED BY <2>4
<1> DEFINE c == CHOOSE h : Eq(h)
<1>8. Eq(c)
  <2> HIDE DEF Eq
  <2> QED BY <1>7
<1>9. AddPlan(Visits) = c[n]
  BY DEF AddPlan, n, a
<1> HIDE DEF c
<1>10. c[0] = a /\ \A i \in 1..n : c[i] = AddSteps(c[i-1], StepsOf(Visits[i][1], Visits[i][2]))
  <2>1. 0 \in 0..n
    BY <1>1
  <2>2. c[0] = a
    BY <1>8, <2>1
  <2>3. ASSUME NEW i \in 1..n PROVE c[i] = AddSteps(c[i-1], StepsOf(Visits[i][1], Visits[i][2]))
    BY <1>5, <1>8, <2>3
  <2> QED BY <2>2, <2>3
<1>11. c \in [0..n -> T]
  <2>1. c = [i \in 0..n |-> c[i]]
    BY <1>8
  <2>2. c[0] \in T
    BY <1>1, <1>10
  <2>3. \A i \in 0+1..n : c[i-1] \in T => c[i] \in T
    <3>1. TAKE i \in 0+1..n
    <3>2. i \in 1..n
      OBVIOUS
    <3>3. c[i] = AddSteps(c[i-1], StepsOf(Visits[i][1], Visits[i][2]))
      BY <1>10, <3>2
    <3> QED BY <1>2, <3>2, <3>3
  <2>4. 0 \in Nat /\ 0 <= n
    BY <1>1
  <2> QED BY <1>1, <2>1, <2>2, <2>3, <2>4, LoopStays
<1>12. VisitLoop(c)
  BY <1>10, <1>11 DEF VisitLoop, n, T, a
<1> QED BY <1>9, <1>12 DEF n

----------------------------------------------------------------------------
(* What a script does to the transaction when every statement succeeds     *)

(* What scripts leave; a savepoint; the transaction.                       *)
Written == Dirs \X Names
Saved == [name : Nat, world : SUBSET Written]
Machines == [world : SUBSET Written, stack : Seq(Saved), ran : Seq(Written)]
Idle == [world |-> {}, stack |-> <<>>, ran |-> <<>>]

(* The one savepoint of that name is the i-th.                             *)
Only(st, n, i) ==
  /\ i \in 1..Len(st) /\ st[i].name = n
  /\ \A j \in 1..Len(st) : st[j].name = n => j = i

(* The transaction after a script, a savepoint, a roll back, a release.    *)
Did(m, d, f) == [world |-> m.world \cup {<<d, f>>}, stack |-> m.stack, ran |-> Append(m.ran, <<d, f>>)]
Kept(m, n) == [world |-> m.world, stack |-> Append(m.stack, [name |-> n, world |-> m.world]), ran |-> m.ran]
Back(m, i) == [world |-> m.stack[i].world, stack |-> SubSeq(m.stack, 1, i), ran |-> m.ran]
Freed(m, i) == [world |-> m.world, stack |-> SubSeq(m.stack, 1, i - 1), ran |-> m.ran]

(* From m the statement leads to w, keeping what the properties ask.       *)
Step(op, m, w) ==
  \/ op[1] = "event" /\ w = m
  \/ /\ op[1] = "run"
     /\ op[2] = "test" => m.world = FixturesAbove(op[3])
     /\ w = Did(m, op[3], op[4])
  \/ op[1] = "savepoint" /\ w = Kept(m, op[2])
  \/ op[1] = "rollback_to" /\ \E i : Only(m.stack, op[2], i) /\ w = Back(m, i)
  \/ op[1] = "release" /\ \E i : Only(m.stack, op[2], i) /\ w = Freed(m, i)

(* f is the transaction before each statement and at the end.              *)
Follows(f, sql) ==
  /\ f \in [1..Len(sql)+1 -> Machines] /\ f[1] = Idle
  /\ \A i \in 1..Len(sql) : Step(sql[i], f[i], f[i+1])

(* The script leads from the idle transaction to m.                        *)
Leads(sql, m) == \E f : Follows(f, sql) /\ f[Len(sql)+1] = m

(* A script that leads to m, and one statement more.                       *)
LEMMA LeadsOn ==
  ASSUME NEW sql \in Seq(Ops), NEW op \in Ops, NEW m, NEW w \in Machines,
         Leads(sql, m), Step(op, m, w)
  PROVE  Put(sql, op) \in Seq(Ops) /\ Leads(Put(sql, op), w)
<1> DEFINE n == Len(sql)
           q == sql \o <<op>>
<1>1. PICK f : Follows(f, sql) /\ f[n + 1] = m
  BY DEF Leads
<1>2. /\ n \in Nat /\ Len(q) = n + 1 /\ q[n + 1] = op
      /\ \A k \in 1..n : q[k] = sql[k]
  BY SeqStep
<1> DEFINE h == [i \in 1..Len(q)+1 |-> IF i <= n + 1 THEN f[i] ELSE w]
<1> HIDE DEF n, q
<1>3. /\ \A i \in 1..Len(q)+1 : i <= n + 1 => i \in 1..n+1
      /\ 1 \in 1..Len(q)+1 /\ 1 <= n + 1
      /\ Len(q)+1 \in 1..Len(q)+1 /\ ~(Len(q)+1 <= n + 1)
      /\ n+1 \in 1..Len(q)+1
  BY <1>2
<1>4. f \in [1..n+1 -> Machines] /\ f[1] = Idle /\ \A i \in 1..n : Step(sql[i], f[i], f[i+1])
  BY <1>1 DEF Follows, n
<1>5. h \in [1..Len(q)+1 -> Machines] /\ h[1] = Idle /\ h[Len(q)+1] = w /\ h[n+1] = m
  BY <1>1, <1>3, <1>4
<1>6. ASSUME NEW i \in 1..Len(q) PROVE Step(q[i], h[i], h[i+1])
  <2>1. CASE i \in 1..n
    <3>1. i \in 1..Len(q)+1 /\ i <= n+1
      BY <1>2, <2>1
    <3>2. i + 1 \in 1..Len(q)+1 /\ i + 1 <= n+1
      BY <1>2, <2>1
    <3>3. h[i] = f[i] /\ h[i+1] = f[i+1] /\ q[i] = sql[i]
      BY <1>2, <2>1, <3>1, <3>2
    <3> HIDE DEF h
    <3> QED BY <1>4, <2>1, <3>3
  <2>2. CASE i = n + 1
    <3>1. i + 1 = Len(q) + 1
      BY <1>2, <2>2
    <3>2. h[i] = m /\ h[i+1] = w /\ q[i] = op
      BY <1>2, <1>5, <2>2, <3>1
    <3> HIDE DEF h
    <3> QED BY <3>2
  <2> QED BY <1>2, <2>1, <2>2
<1> HIDE DEF h
<1>7. Follows(h, q) /\ h[Len(q)+1] = w
  BY <1>5, <1>6 DEF Follows
<1>8. Leads(q, w)
  BY <1>7 DEF Leads
<1>9. q \in Seq(Ops)
  BY SeqStep DEF q
<1> QED BY <1>8, <1>9 DEF q, Put

(* The types of a state of the transaction, and of what becomes of it.     *)
LEMMA MachinesAre ==
  ASSUME NEW m \in Machines
  PROVE  /\ m.world \subseteq Written /\ m.stack \in Seq(Saved) /\ m.ran \in Seq(Written)
         /\ Len(m.stack) \in Nat /\ Len(m.ran) \in Nat
         /\ \A d \in Dirs, f \in Names : Did(m, d, f) \in Machines
         /\ \A n \in Nat : Kept(m, n) \in Machines
         /\ \A i \in 1..Len(m.stack) : Back(m, i) \in Machines /\ Freed(m, i) \in Machines
<1>1. /\ m.world \subseteq Written /\ m.stack \in Seq(Saved) /\ m.ran \in Seq(Written)
      /\ Len(m.stack) \in Nat /\ Len(m.ran) \in Nat
  BY DEF Machines
<1>2. ASSUME NEW d \in Dirs, NEW f \in Names PROVE Did(m, d, f) \in Machines
  <2> DEFINE x == <<d, f>>
  <2>1. x \in Written
    BY DEF Written
  <2> HIDE DEF x
  <2>2. m.world \cup {x} \subseteq Written /\ Append(m.ran, x) \in Seq(Written)
    BY <1>1, <2>1
  <2>3. [world |-> m.world \cup {x}, stack |-> m.stack, ran |-> Append(m.ran, x)] \in Machines
    BY <1>1, <2>2 DEF Machines
  <2> QED BY <2>3 DEF Did, x
<1>3. ASSUME NEW n \in Nat PROVE Kept(m, n) \in Machines
  <2> DEFINE x == [name |-> n, world |-> m.world]
  <2>1. x \in Saved
    BY <1>1 DEF Saved
  <2> HIDE DEF x
  <2>2. Append(m.stack, x) \in Seq(Saved)
    BY <1>1, <2>1
  <2>3. [world |-> m.world, stack |-> Append(m.stack, x), ran |-> m.ran] \in Machines
    BY <1>1, <2>2 DEF Machines
  <2> QED BY <2>3 DEF Kept, x
<1>4. ASSUME NEW i \in 1..Len(m.stack) PROVE Back(m, i) \in Machines /\ Freed(m, i) \in Machines
  <2>1. m.stack[i] \in Saved
    BY <1>1
  <2>2. m.stack[i].world \subseteq Written
    BY <2>1 DEF Saved
  <2>3. SubSeq(m.stack, 1, i) \in Seq(Saved) /\ SubSeq(m.stack, 1, i - 1) \in Seq(Saved)
    <3>1. \A j \in 1..Len(m.stack) : m.stack[j] \in Saved
      BY <1>1
    <3>2. i \in Nat /\ i - 1 \in Nat /\ i <= Len(m.stack)
      BY <1>1
    <3> QED BY <1>1, <3>1, <3>2, SubSeqProperties
  <2> QED BY <1>1, <2>2, <2>3 DEF Machines, Back, Freed
<1> QED BY <1>1, <1>2, <1>3, <1>4

(* The first event leaves the transaction idle.                            *)
LEMMA StartLeads ==
  Idle \in Machines /\ Leads(Start.sql, Idle)
<1>1. Idle \in Machines
  <2>1. <<>> \in Seq(Saved) /\ <<>> \in Seq(Written)
    OBVIOUS
  <2> QED BY <2>1 DEF Idle, Machines
<1> DEFINE o == <<"event", "suite_start", NoDir, "">>
           q == <<o>>
           f == [i \in 1..2 |-> Idle]
<1>2. Start.sql = q
  BY DEF Start
<1>3. o[1] = "event"
  OBVIOUS
<1> HIDE DEF o
<1>4. Len(q) = 1 /\ q[1] = o
  OBVIOUS
<1> HIDE DEF q
<1>5. Step(o, Idle, Idle)
  BY <1>3 DEF Step
<1>6. Follows(f, q) /\ f[Len(q)+1] = Idle
  <2>1. f \in [1..2 -> Machines] /\ f[1] = Idle /\ f[2] = Idle
    BY <1>1
  <2>2. \A i \in 1..1 : i = 1
    OBVIOUS
  <2> HIDE DEF f
  <2> QED BY <1>4, <1>5, <2>1, <2>2 DEF Follows
<1> HIDE DEF f
<1> QED BY <1>1, <1>2, <1>6 DEF Leads

(* The statements of the generator, one by one.                            *)
LEMMA Steps ==
  ASSUME NEW s \in Rows, NEW m \in Machines
  PROVE  /\ \A e : Step(Event(e, s), m, m)
         /\ (s.type = "test" => m.world = FixturesAbove(s.dir)) => Step(RunSource(s), m, Did(m, s.dir, s.file))
         /\ \A n : Step(Savepoint(n), m, Kept(m, n))
         /\ \A n, i : Only(m.stack, n, i) => Step(RollbackTo(n), m, Back(m, i))
         /\ \A n, i : Only(m.stack, n, i) => Step(ReleaseSp(n), m, Freed(m, i))
<1>1. /\ \A e : Event(e, s)[1] = "event"
      /\ RunSource(s)[1] = "run" /\ RunSource(s)[2] = s.type /\ RunSource(s)[3] = s.dir /\ RunSource(s)[4] = s.file
      /\ \A n : Savepoint(n)[1] = "savepoint" /\ Savepoint(n)[2] = n
      /\ \A n : RollbackTo(n)[1] = "rollback_to" /\ RollbackTo(n)[2] = n
      /\ \A n : ReleaseSp(n)[1] = "release" /\ ReleaseSp(n)[2] = n
  BY DEF Event, RunSource, Savepoint, RollbackTo, ReleaseSp
<1>2. \A e : Step(Event(e, s), m, m)
  BY <1>1 DEF Step
<1>3. ASSUME s.type = "test" => m.world = FixturesAbove(s.dir)
      PROVE  Step(RunSource(s), m, Did(m, s.dir, s.file))
  BY <1>1, <1>3 DEF Step
<1>4. \A n : Step(Savepoint(n), m, Kept(m, n))
  BY <1>1 DEF Step
<1>5. \A n, i : Only(m.stack, n, i) => Step(RollbackTo(n), m, Back(m, i))
  BY <1>1 DEF Step
<1>6. \A n, i : Only(m.stack, n, i) => Step(ReleaseSp(n), m, Freed(m, i))
  BY <1>1 DEF Step
<1> QED BY <1>2, <1>3, <1>4, <1>5, <1>6

----------------------------------------------------------------------------
(* The savepoint stack, entry by entry under its directory                 *)

(* Around d, or d itself.                                                  *)
Above(e, d) == e = d \/ Encloses(e, d)

(* The fixtures of the directories around d.                               *)
Strict(d) == {x \in Dirs \X Fixtures : x[2] \in content[x[1]] /\ Encloses(x[1], d)}

(* The first entry taken for d, with what it restores.                     *)
First(sp, st, own, d, i) ==
  /\ i \in 1..Len(st) /\ own[i] = d /\ st[i].name = sp[d] /\ st[i].world = Strict(d)
  /\ \A j \in 1..i-1 : own[j] # d

(* Names grow with the stack, owners go inwards, and each open directory   *)
(* with a savepoint finds it first among its own.                          *)
StackedBy(own, n, sp, st, O) ==
  /\ own \in [1..Len(st) -> O]
  /\ \A i \in 1..Len(st) : st[i].name >= 1 /\ st[i].name <= n
  /\ \A i, j \in 1..Len(st) : i < j => st[i].name < st[j].name /\ Above(own[i], own[j])
  /\ \A d \in O : sp[d] = 0 => \A i \in 1..Len(st) : own[i] # d
  /\ \A d \in O : sp[d] # 0 => \E i : First(sp, st, own, d, i)

(* Some owners explain the stack.                                          *)
Stacked(n, sp, st, O) == \E own : StackedBy(own, n, sp, st, O)

(* No directory is open, no savepoint taken.                               *)
LEMMA StackedEmpty ==
  ASSUME NEW n \in Nat, NEW sp
  PROVE  Stacked(n, sp, <<>>, {})
<1> DEFINE own == [i \in 1..Len(<<>>) |-> {}]
<1>1. \A i \in 1..Len(<<>>) : FALSE
  BY EmptySeq
<1>2. own \in [1..Len(<<>>) -> {}]
  BY <1>1
<1> HIDE DEF own
<1>3. StackedBy(own, n, sp, <<>>, {})
  BY <1>1, <1>2 DEF StackedBy
<1> QED BY <1>3 DEF Stacked

(* Entering a directory that has no savepoint yet.                         *)
LEMMA StackedOpens ==
  ASSUME NEW n, NEW sp, NEW st, NEW O, NEW d, Stacked(n, sp, st, O), d \notin O, sp[d] = 0
  PROVE  Stacked(n, sp, st, O \cup {d})
<1>1. PICK own : StackedBy(own, n, sp, st, O)
  BY DEF Stacked
<1>2. own \in [1..Len(st) -> O \cup {d}] /\ \A i \in 1..Len(st) : own[i] # d
  BY <1>1 DEF StackedBy
<1>3. \A e \in O \cup {d} : sp[e] = 0 => \A i \in 1..Len(st) : own[i] # e
  BY <1>1, <1>2 DEF StackedBy
<1>4. \A e \in O \cup {d} : sp[e] # 0 => \E i : First(sp, st, own, e, i)
  BY <1>1 DEF StackedBy
<1>5. StackedBy(own, n, sp, st, O \cup {d})
  BY <1>1, <1>2, <1>3, <1>4 DEF StackedBy
<1> QED BY <1>5 DEF Stacked

(* Leaving a directory that never took one.                                *)
LEMMA StackedCloses ==
  ASSUME NEW n, NEW sp, NEW st, NEW O, NEW d \in O, Stacked(n, sp, st, O), sp[d] = 0
  PROVE  Stacked(n, sp, st, O \ {d})
<1>1. PICK own : StackedBy(own, n, sp, st, O)
  BY DEF Stacked
<1>2. own \in [1..Len(st) -> O \ {d}]
  BY <1>1 DEF StackedBy
<1>3. StackedBy(own, n, sp, st, O \ {d})
  BY <1>1, <1>2 DEF StackedBy
<1> QED BY <1>3 DEF Stacked

(* The innermost open directory takes the next savepoint.                  *)
LEMMA StackedPushes ==
  ASSUME NEW n \in Nat, NEW sp \in [Dirs -> Nat], NEW st \in Seq(Saved), NEW O \in SUBSET Dirs,
         NEW d \in O, NEW x \in Saved, x.name = n + 1, Stacked(n, sp, st, O),
         \A e \in O : Above(e, d), sp[d] = 0 => x.world = Strict(d)
  PROVE  Stacked(n + 1, FirstOf(sp, d, n + 1), Append(st, x), O)
<1> DEFINE k == Len(st)
           q == Append(st, x)
           sq == FirstOf(sp, d, n + 1)
<1>1. PICK own : StackedBy(own, n, sp, st, O)
  BY DEF Stacked
<1>2. /\ q \in Seq(Saved) /\ k \in Nat /\ Len(q) = k + 1 /\ q[k+1] = x
      /\ \A i \in 1..k : q[i] = st[i]
  BY AppendProperties, LenProperties
<1>3. /\ sq \in [Dirs -> Nat] /\ \A e \in Dirs : e # d => sq[e] = sp[e]
      /\ sp[d] = 0 => sq[d] = n + 1
      /\ sp[d] # 0 => sq = sp
  <2>1. d \in Dirs /\ n + 1 \in Nat
    OBVIOUS
  <2> QED BY <2>1, FirstOfIs
<1> HIDE DEF sq, q
<1> DEFINE ow == [i \in 1..k+1 |-> IF i <= k THEN own[i] ELSE d]
<1>4. \A i \in 1..k+1 : i \in 1..k \/ i = k + 1
  BY <1>2
<1>5. \A i \in 1..k : i \in 1..k+1 /\ i <= k /\ i < k + 1 /\ ~(k + 1 < i) /\ i # k + 1
  BY <1>2
<1>6. k+1 \in 1..k+1 /\ ~(k+1 <= k) /\ ~(k + 1 < k + 1)
  BY <1>2
<1>7. /\ own \in [1..k -> O]
      /\ \A i \in 1..k : st[i].name >= 1 /\ st[i].name <= n
      /\ \A i, j \in 1..k : i < j => st[i].name < st[j].name /\ Above(own[i], own[j])
      /\ \A e \in O : sp[e] = 0 => \A i \in 1..k : own[i] # e
      /\ \A e \in O : sp[e] # 0 => \E i : First(sp, st, own, e, i)
  BY <1>1 DEF StackedBy
<1> HIDE DEF k
<1>8. /\ ow \in [1..k+1 -> O] /\ ow[k+1] = d
      /\ \A i \in 1..k : ow[i] = own[i]
  BY <1>4, <1>5, <1>6, <1>7
<1> HIDE DEF ow
<1>9. \A i \in 1..k : st[i].name \in Nat
  <2>1. TAKE i \in 1..k
  <2>2. st[i] \in Saved
    BY DEF k
  <2> QED BY <2>2 DEF Saved
<1>10. \A i \in 1..k+1 : q[i].name >= 1 /\ q[i].name <= n + 1
  <2>1. TAKE i \in 1..k+1
  <2>2. CASE i \in 1..k
    <3>1. \A y \in Nat : y <= n => y <= n + 1
      OBVIOUS
    <3>2. q[i] = st[i] /\ st[i].name \in Nat /\ st[i].name >= 1 /\ st[i].name <= n
      BY <1>2, <1>7, <1>9, <2>2
    <3> QED BY <3>1, <3>2
  <2>3. CASE i = k + 1
    BY <1>2, <2>3
  <2> QED BY <1>4, <2>2, <2>3
<1>11. ASSUME NEW i \in 1..k+1, NEW j \in 1..k+1, i < j
       PROVE  q[i].name < q[j].name /\ Above(ow[i], ow[j])
  <2>1. CASE i \in 1..k /\ j \in 1..k
    BY <1>2, <1>7, <1>8, <1>11, <2>1
  <2>2. CASE i \in 1..k /\ j = k + 1
    <3>1. q[i].name < q[j].name
      <4>1. \A y \in Nat : y <= n => y < n + 1
        OBVIOUS
      <4>2. q[i] = st[i] /\ st[i].name \in Nat /\ st[i].name <= n
        BY <1>2, <1>7, <1>9, <2>2
      <4>3. q[j] = x
        BY <1>2, <2>2
      <4> QED BY <4>1, <4>2, <4>3
    <3>2. ow[i] \in O /\ ow[j] = d
      BY <1>8, <2>2
    <3> QED BY <3>1, <3>2
  <2>3. CASE i = k + 1
    <3>1. j \in 1..k+1 /\ ~(i < j)
      BY <1>4, <1>5, <1>6, <2>3
    <3> QED BY <1>11, <3>1
  <2> QED BY <1>4, <2>1, <2>2, <2>3
<1>12. sq[d] # 0
  BY <1>3
<1>13. ASSUME NEW e \in O, sq[e] = 0 PROVE \A i \in 1..k+1 : ow[i] # e
  <2>1. e # d /\ sp[e] = 0
    BY <1>3, <1>12, <1>13
  <2> QED BY <1>4, <1>7, <1>8, <2>1
<1>14. ASSUME NEW e \in O, sp[e] # 0, sq[e] = sp[e] PROVE \E i : First(sq, q, ow, e, i)
  <2>1. PICK i : First(sp, st, own, e, i)
    BY <1>7, <1>14
  <2>2. /\ i \in 1..k /\ own[i] = e /\ st[i].name = sp[e] /\ st[i].world = Strict(e)
        /\ \A j \in 1..i-1 : own[j] # e
    BY <2>1 DEF First, k
  <2>3. i \in 1..k+1 /\ \A j \in 1..i-1 : j \in 1..k
    BY <1>2, <1>5, <2>2
  <2>4. First(sq, q, ow, e, i)
    BY <1>2, <1>8, <1>14, <2>2, <2>3 DEF First
  <2> QED BY <2>4
<1>15. CASE sp[d] = 0
  <2>1. First(sq, q, ow, d, k+1)
    <3>1. \A j \in 1..(k+1)-1 : j \in 1..k
      BY <1>2
    <3>2. \A j \in 1..(k+1)-1 : ow[j] # d
      BY <1>7, <1>8, <1>15, <3>1
    <3> QED BY <1>2, <1>3, <1>6, <1>8, <1>15, <3>2 DEF First
  <2>2. \A e \in O : sq[e] # 0 => \E i : First(sq, q, ow, e, i)
    BY <1>3, <1>14, <2>1
  <2>3. StackedBy(ow, n + 1, sq, q, O)
    BY <1>2, <1>8, <1>10, <1>11, <1>13, <2>2 DEF StackedBy
  <2> QED BY <2>3 DEF Stacked, sq, q
<1>16. CASE sp[d] # 0
  <2>1. \A e \in O : sq[e] # 0 => \E i : First(sq, q, ow, e, i)
    BY <1>3, <1>14, <1>16
  <2>2. StackedBy(ow, n + 1, sq, q, O)
    BY <1>2, <1>8, <1>10, <1>11, <1>13, <2>1 DEF StackedBy
  <2> QED BY <2>2 DEF Stacked, sq, q
<1> QED BY <1>15, <1>16

(* The top savepoint is the only one of its name, and rolling back to it   *)
(* leaves the stack as it is.                                              *)
LEMMA TopIsOnly ==
  ASSUME NEW n \in Nat, NEW sp, NEW st \in Seq(Saved), NEW O, Stacked(n, sp, st, O), Len(st) >= 1
  PROVE  Only(st, st[Len(st)].name, Len(st)) /\ SubSeq(st, 1, Len(st)) = st
<1>1. PICK own : StackedBy(own, n, sp, st, O)
  BY DEF Stacked
<1>2. Len(st) \in 1..Len(st) /\ \A j \in 1..Len(st) : st[j].name \in Nat /\ (j = Len(st) \/ j < Len(st))
  <2>1. Len(st) \in 1..Len(st) /\ \A j \in 1..Len(st) : j = Len(st) \/ j < Len(st)
    OBVIOUS
  <2>2. ASSUME NEW j \in 1..Len(st) PROVE st[j].name \in Nat
    <3>1. st[j] \in Saved
      OBVIOUS
    <3> QED BY <3>1 DEF Saved
  <2> QED BY <2>1, <2>2
<1>3. \A j \in 1..Len(st) : j < Len(st) => st[j].name < st[Len(st)].name
  BY <1>1, <1>2 DEF StackedBy
<1>4. Only(st, st[Len(st)].name, Len(st))
  BY <1>2, <1>3 DEF Only
<1>5. SubSeq(st, 1, Len(st)) = st
  BY SubSeqFull
<1> QED BY <1>4, <1>5

(* Cutting a sequence twice.                                               *)
LEMMA Shorten ==
  ASSUME NEW R, NEW s \in Seq(R), NEW i \in 1..Len(s)
  PROVE  /\ SubSeq(s, 1, i) \in Seq(R) /\ Len(SubSeq(s, 1, i)) = i
         /\ \A j \in 1..i : SubSeq(s, 1, i)[j] = s[j]
         /\ SubSeq(s, 1, i-1) \in Seq(R) /\ Len(SubSeq(s, 1, i-1)) = i - 1
         /\ \A j \in 1..i-1 : SubSeq(s, 1, i-1)[j] = s[j]
         /\ SubSeq(SubSeq(s, 1, i), 1, i-1) = SubSeq(s, 1, i-1)
<1>1. Len(s) \in Nat /\ i \in Nat /\ i >= 1 /\ i <= Len(s) /\ i - 1 \in Nat /\ i - 1 <= Len(s) /\ i - 1 <= i
  OBVIOUS
<1>2. \A t \in Seq(R) : \A j \in Nat : j <= Len(t) =>
        /\ SubSeq(t, 1, j) \in Seq(R) /\ Len(SubSeq(t, 1, j)) = j
        /\ \A l \in 1..j : SubSeq(t, 1, j)[l] = t[l]
  <2>1. SUFFICES ASSUME NEW t \in Seq(R), NEW j \in Nat, j <= Len(t)
        PROVE  /\ SubSeq(t, 1, j) \in Seq(R) /\ Len(SubSeq(t, 1, j)) = j
               /\ \A l \in 1..j : SubSeq(t, 1, j)[l] = t[l]
    OBVIOUS
  <2>2. \A l \in 1..j : t[l] \in R
    BY <2>1
  <2> QED BY <2>1, <2>2, SubSeqProperties
<1> DEFINE u == SubSeq(s, 1, i)
           v == SubSeq(s, 1, i-1)
           w == SubSeq(u, 1, i-1)
<1>3. u \in Seq(R) /\ Len(u) = i /\ \A l \in 1..i : u[l] = s[l]
  BY <1>1, <1>2
<1>4. v \in Seq(R) /\ Len(v) = i - 1 /\ \A l \in 1..i-1 : v[l] = s[l]
  BY <1>1, <1>2
<1> HIDE DEF u
<1>5. w \in Seq(R) /\ Len(w) = i - 1 /\ \A l \in 1..i-1 : w[l] = u[l]
  BY <1>1, <1>2, <1>3
<1> HIDE DEF v, w
<1>6. \A l \in 1..i-1 : l \in 1..i
  BY <1>1
<1>7. w = v
  <2>1. \A l \in 1..Len(w) : w[l] = v[l]
    BY <1>3, <1>4, <1>5, <1>6
  <2> QED BY <1>4, <1>5, <2>1, SeqEqual
<1> QED BY <1>3, <1>4, <1>7 DEF u, v, w

(* The innermost open directory gives back what it took.                   *)
LEMMA StackedPops ==
  ASSUME NEW n \in Nat, NEW sp \in [Dirs -> Nat], NEW st \in Seq(Saved), NEW O \in SUBSET Dirs,
         NEW d \in O, Stacked(n, sp, st, O), \A e \in O : Above(e, d), sp[d] # 0
  PROVE  \E i : /\ Only(st, sp[d], i) /\ st[i].world = Strict(d)
                /\ Only(SubSeq(st, 1, i), sp[d], i)
                /\ SubSeq(SubSeq(st, 1, i), 1, i-1) = SubSeq(st, 1, i-1)
                /\ Stacked(n, sp, SubSeq(st, 1, i-1), O \ {d})
<1>1. PICK own : StackedBy(own, n, sp, st, O)
  BY DEF Stacked
<1>2. PICK i : First(sp, st, own, d, i)
  BY <1>1 DEF StackedBy
<1> DEFINE k == Len(st)
           u == SubSeq(st, 1, i)
           v == SubSeq(st, 1, i-1)
<1>3. /\ i \in 1..k /\ own[i] = d /\ st[i].name = sp[d] /\ st[i].world = Strict(d)
      /\ \A j \in 1..i-1 : own[j] # d
  BY <1>2 DEF First
<1>4. /\ own \in [1..k -> O]
      /\ \A j \in 1..k : st[j].name >= 1 /\ st[j].name <= n
      /\ \A j, l \in 1..k : j < l => st[j].name < st[l].name /\ Above(own[j], own[l])
      /\ \A e \in O : sp[e] = 0 => \A j \in 1..k : own[j] # e
      /\ \A e \in O : sp[e] # 0 => \E j : First(sp, st, own, e, j)
  BY <1>1 DEF StackedBy
<1>5. \A j \in 1..k : st[j].name \in Nat
  <2>1. TAKE j \in 1..k
  <2>2. st[j] \in Saved
    OBVIOUS
  <2> QED BY <2>2 DEF Saved
<1>6. Only(st, sp[d], i)
  <2>1. \A j \in 1..k : j < i \/ j = i \/ i < j
    BY <1>3
  <2>2. \A j \in 1..k : st[j].name = sp[d] => j = i
    BY <1>3, <1>4, <1>5, <2>1
  <2> QED BY <1>3, <2>2 DEF Only
<1>7. /\ u \in Seq(Saved) /\ Len(u) = i /\ \A j \in 1..i : u[j] = st[j]
      /\ v \in Seq(Saved) /\ Len(v) = i - 1 /\ \A j \in 1..i-1 : v[j] = st[j]
      /\ SubSeq(u, 1, i-1) = v
  BY <1>3, Shorten
<1>8. k \in Nat
  OBVIOUS
<1> HIDE DEF k, u, v
<1>9. i \in 1..i /\ \A j \in 1..i : j \in 1..k
  BY <1>3, <1>8
<1>10. Only(u, sp[d], i)
  <2>1. \A j \in 1..i : u[j].name = sp[d] => j = i
    BY <1>6, <1>7, <1>9 DEF Only, k
  <2> QED BY <1>3, <1>7, <1>9, <2>1 DEF Only
<1> DEFINE ow == [j \in 1..i-1 |-> own[j]]
           P == O \ {d}
<1>11. \A j \in 1..i-1 : j \in 1..k /\ j \in 1..i /\ own[j] \in P
  BY <1>3, <1>4, <1>8
<1>12. ow \in [1..i-1 -> P] /\ \A j \in 1..i-1 : ow[j] = own[j]
  BY <1>11
<1> HIDE DEF ow
<1>13. ASSUME NEW e \in P, sp[e] # 0 PROVE \E j : First(sp, v, ow, e, j)
  <2>1. PICK l : First(sp, st, own, e, l)
    BY <1>4, <1>13
  <2>2. /\ l \in 1..k /\ own[l] = e /\ st[l].name = sp[e] /\ st[l].world = Strict(e)
        /\ \A j \in 1..l-1 : own[j] # e
    BY <2>1 DEF First, k
  <2>3. Encloses(e, d) /\ ~Above(d, e)
    <3>1. e \in Dirs /\ d \in Dirs /\ e # d /\ Above(e, d)
      OBVIOUS
    <3>2. Len(e) \in Nat /\ Len(d) \in Nat
      BY <3>1, DirIsPath
    <3> QED BY <3>1, <3>2 DEF Above, Encloses
  <2>4. l < i
    <3>1. ~(i < l)
      BY <1>3, <1>4, <2>2, <2>3
    <3>2. l # i
      BY <1>3, <2>2
    <3> QED BY <1>3, <2>2, <3>1, <3>2
  <2>5. l \in 1..i-1 /\ \A j \in 1..l-1 : j \in 1..i-1
    BY <1>3, <2>2, <2>4
  <2>6. First(sp, v, ow, e, l)
    BY <1>7, <1>12, <2>2, <2>5 DEF First
  <2> QED BY <2>6
<1>14. \A e \in P : sp[e] = 0 => \A j \in 1..i-1 : ow[j] # e
  BY <1>4, <1>11, <1>12
<1>15. StackedBy(ow, n, sp, v, P)
  <2>1. \A j \in 1..i-1 : v[j].name >= 1 /\ v[j].name <= n
    BY <1>4, <1>7, <1>11
  <2>2. \A j, l \in 1..i-1 : j < l => v[j].name < v[l].name /\ Above(ow[j], ow[l])
    BY <1>4, <1>7, <1>11, <1>12
  <2> HIDE DEF P
  <2> QED BY <1>7, <1>12, <1>13, <1>14, <2>1, <2>2 DEF StackedBy
<1>16. Stacked(n, sp, v, P)
  BY <1>15 DEF Stacked
<1> QED BY <1>3, <1>6, <1>7, <1>10, <1>16 DEF u, v

----------------------------------------------------------------------------
(* What one row of the plan does                                           *)

(* The newest savepoint is k and restores the world as it is.              *)
Top(m, k) ==
  /\ Len(m.stack) >= 1 /\ m.stack[Len(m.stack)].name = k
  /\ m.stack[Len(m.stack)].world = m.world

(* What rows of d leave alone.                                             *)
Others(g, h, d) ==
  \A e \in Dirs : e # d => h.dirSp[e] = g.dirSp[e] /\ h.testSp[e] = g.testSp[e]

(* All open directories are around d, or d.                                *)
Innermost(d, O) == O \in SUBSET Dirs /\ d \in O /\ \A e \in O : Above(e, d)

(* A savepoint for the innermost open directory.                           *)
LEMMA Push ==
  ASSUME NEW sql \in Seq(Ops), NEW m \in Machines, Leads(sql, m), NEW s \in Rows,
         NEW n \in Nat, NEW sp \in [Dirs -> Nat], NEW d, NEW O, Innermost(d, O),
         Stacked(n, sp, m.stack, O), sp[d] = 0 => m.world = Strict(d)
  PROVE  /\ Put(sql, Savepoint(n + 1)) \in Seq(Ops)
         /\ Kept(m, n + 1) \in Machines
         /\ Leads(Put(sql, Savepoint(n + 1)), Kept(m, n + 1))
         /\ Stacked(n + 1, FirstOf(sp, d, n + 1), Kept(m, n + 1).stack, O)
         /\ Kept(m, n + 1).world = m.world /\ Kept(m, n + 1).ran = m.ran
         /\ Top(Kept(m, n + 1), n + 1)
<1> DEFINE k == n + 1
           x == [name |-> k, world |-> m.world]
           w == Kept(m, k)
<1>1. k \in Nat /\ Savepoint(k) \in Ops
  BY OpsAre
<1>2. w \in Machines
  BY <1>1, MachinesAre
<1>3. Step(Savepoint(k), m, w)
  BY Steps
<1>5. Put(sql, Savepoint(k)) \in Seq(Ops) /\ Leads(Put(sql, Savepoint(k)), w)
  <2> HIDE DEF w, k
  <2> QED BY <1>1, <1>2, <1>3, LeadsOn
<1>6. x \in Saved /\ x.name = k /\ x.world = m.world
  <2>1. m.world \in SUBSET Written
    BY MachinesAre
  <2> QED BY <1>1, <2>1 DEF Saved
<1>7. w.stack = Append(m.stack, x) /\ w.world = m.world /\ w.ran = m.ran
  BY DEF Kept
<1>8. m.stack \in Seq(Saved)
  BY MachinesAre
<1> HIDE DEF x, w
<1>9. Stacked(n + 1, FirstOf(sp, d, n + 1), Append(m.stack, x), O)
  <2>1. O \in SUBSET Dirs /\ d \in O /\ \A e \in O : Above(e, d)
    BY DEF Innermost
  <2>2. x.name = n + 1 /\ (sp[d] = 0 => x.world = Strict(d))
    BY <1>6 DEF k
  <2> QED BY <1>6, <1>8, <2>1, <2>2, StackedPushes
<1>10. Top(w, k)
  <2>1. /\ Len(Append(m.stack, x)) = Len(m.stack) + 1 /\ Len(m.stack) \in Nat
        /\ Append(m.stack, x)[Len(m.stack) + 1] = x
    BY <1>6, <1>8, AppendProperties, LenProperties
  <2> QED BY <1>6, <1>7, <2>1 DEF Top
<1> QED BY <1>2, <1>5, <1>7, <1>9, <1>10 DEF w, k

(* A fixture row: a savepoint, then the fixture.                           *)
LEMMA FixtureRow ==
  ASSUME NEW g \in Gens, NEW m \in Machines, Leads(g.sql, m), NEW s \in Rows, s.type = "fixture",
         NEW O, Innermost(s.dir, O), Stacked(g.n, g.dirSp, m.stack, O),
         g.dirSp[s.dir] = 0 => m.world = Strict(s.dir)
  PROVE  LET h == Add(g, s)
             w == Did(Kept(m, g.n + 1), s.dir, s.file)
         IN  /\ h \in Gens /\ w \in Machines /\ Leads(h.sql, w)
             /\ Stacked(h.n, h.dirSp, w.stack, O)
             /\ h.tests = g.tests /\ h.testSp = g.testSp /\ h.dirSp[s.dir] # 0 /\ Others(g, h, s.dir)
             /\ w.world = m.world \cup {<<s.dir, s.file>>}
             /\ w.ran = Append(m.ran, <<s.dir, s.file>>)
<1> DEFINE d == s.dir
           f == s.file
           n == g.n
           k == n + 1
           h == Add(g, s)
           v == Kept(m, k)
           w == Did(v, d, f)
           a == Put(g.sql, Savepoint(k))
           b == Put(a, Event("fixture_start", s))
           c == Put(b, RunSource(s))
           e == Put(c, Event("fixture_end", s))
<1>1. /\ g.sql \in Seq(Ops) /\ n \in Nat /\ g.dirSp \in [Dirs -> Nat] /\ g.testSp \in [Dirs -> Nat]
      /\ d \in Dirs /\ f \in Names /\ k \in Nat /\ k # 0
  BY DEF Gens, Rows
<1>2. /\ a \in Seq(Ops) /\ v \in Machines /\ Leads(a, v)
      /\ Stacked(k, FirstOf(g.dirSp, d, k), v.stack, O)
      /\ v.world = m.world /\ v.ran = m.ran
  <2> HIDE DEF d
  <2> QED BY <1>1, Push DEF d
<1>3. /\ Savepoint(k) \in Ops /\ Event("fixture_start", s) \in Ops /\ RunSource(s) \in Ops
      /\ Event("fixture_end", s) \in Ops
  BY <1>1, OpsAre DEF Notices
<1>4. w \in Machines
  BY <1>1, <1>2, MachinesAre
<1>5. w.world = v.world \cup {<<d, f>>} /\ w.stack = v.stack /\ w.ran = Append(v.ran, <<d, f>>)
  BY DEF Did
<1>6. Step(Event("fixture_start", s), v, v) /\ Step(RunSource(s), v, w) /\ Step(Event("fixture_end", s), w, w)
  <2>1. Step(Event("fixture_start", s), v, v) /\ Step(RunSource(s), v, w)
    BY <1>2, Steps
  <2>2. Step(Event("fixture_end", s), w, w)
    BY <1>4, Steps
  <2> QED BY <2>1, <2>2
<1>7. h = AddFixture(g, s)
  BY AddIs
<1>8. /\ h \in Gens /\ h.n = k /\ h.tests = g.tests /\ h.testSp = g.testSp
      /\ h.dirSp = FirstOf(g.dirSp, d, k)
      /\ h.sql = g.sql \o <<Savepoint(k), Event("fixture_start", s), RunSource(s), Event("fixture_end", s)>>
  BY <1>7, FixtureAdds
<1>9. h.sql = e
  <2>1. h.sql = Put4(g.sql, Savepoint(k), Event("fixture_start", s), RunSource(s), Event("fixture_end", s))
    BY <1>8 DEF Put4
  <2> DEFINE p1 == Savepoint(k)
             p2 == Event("fixture_start", s)
             p3 == RunSource(s)
             p4 == Event("fixture_end", s)
             z == g.sql
  <2>2. p1 \in Ops /\ p2 \in Ops /\ p3 \in Ops /\ p4 \in Ops /\ z \in Seq(Ops)
    BY <1>1, <1>3
  <2> HIDE DEF p1, p2, p3, p4, z
  <2>3. Put4(z, p1, p2, p3, p4) = Put(Put(Put(Put(z, p1), p2), p3), p4)
    BY ONLY <2>2, Quads
  <2> QED BY <2>1, <2>3 DEF p1, p2, p3, p4, z
<1> HIDE DEF h, v, w, a
<1>10. b \in Seq(Ops) /\ Leads(b, v)
  BY <1>2, <1>3, <1>6, LeadsOn
<1> HIDE DEF b
<1>11. c \in Seq(Ops) /\ Leads(c, w)
  BY <1>3, <1>4, <1>6, <1>10, LeadsOn
<1> HIDE DEF c
<1>12. Leads(e, w)
  BY <1>3, <1>4, <1>6, <1>11, LeadsOn
<1> HIDE DEF e
<1>13. /\ h.dirSp[d] # 0
       /\ \A x \in Dirs : x # d => h.dirSp[x] = g.dirSp[x]
  <2>1. LET p == FirstOf(g.dirSp, d, k)
        IN  p[d] # 0 /\ \A x \in Dirs : x # d => p[x] = g.dirSp[x]
    <3> HIDE DEF d, k
    <3>1. LET p == FirstOf(g.dirSp, d, k)
          IN  /\ \A x \in Dirs : x # d => p[x] = g.dirSp[x]
              /\ g.dirSp[d] = 0 => p[d] = k
              /\ g.dirSp[d] # 0 => p = g.dirSp
      BY <1>1, FirstOfIs
    <3> QED BY <1>1, <3>1
  <2> QED BY <1>8, <2>1
<1>14. Others(g, h, d)
  BY <1>8, <1>13 DEF Others
<1>15. /\ h \in Gens /\ w \in Machines /\ Leads(h.sql, w)
       /\ Stacked(h.n, h.dirSp, w.stack, O)
       /\ h.tests = g.tests /\ h.testSp = g.testSp
       /\ w.world = m.world \cup {<<d, f>>}
       /\ w.ran = Append(m.ran, <<d, f>>)
  BY <1>2, <1>4, <1>5, <1>8, <1>9, <1>12
<1> QED BY <1>13, <1>14, <1>15 DEF h, w, v

(* A test between a savepoint and the rollback to it.                      *)
LEMMA TestRuns ==
  ASSUME NEW sql \in Seq(Ops), NEW m \in Machines, Leads(sql, m), NEW s \in Rows,
         m.world = FixturesAbove(s.dir), NEW k \in Nat, Top(m, k),
         NEW n \in Nat, NEW sp, NEW O, Stacked(n, sp, m.stack, O)
  PROVE  LET w == [world |-> m.world, stack |-> m.stack, ran |-> Append(m.ran, <<s.dir, s.file>>)]
         IN  w \in Machines /\ Leads(sql \o TestBlock(s, k), w)
<1> DEFINE x == <<s.dir, s.file>>
           w == [world |-> m.world, stack |-> m.stack, ran |-> Append(m.ran, x)]
           v == Did(m, s.dir, s.file)
           i == Len(m.stack)
           p1 == Event("test_start", s)
           p2 == RunSource(s)
           p3 == Event("test_end", s)
           p4 == Event("rollback", s)
           p5 == RollbackTo(k)
<1>1. s.dir \in Dirs /\ s.file \in Names
  BY DEF Rows
<1>2. v \in Machines
  BY <1>1, MachinesAre
<1>3. v.world = m.world \cup {x} /\ v.stack = m.stack /\ v.ran = Append(m.ran, x)
  BY DEF Did
<1>4. m.stack \in Seq(Saved) /\ i \in Nat
  BY MachinesAre
<1>5. i >= 1 /\ m.stack[i].name = k /\ m.stack[i].world = m.world
  BY DEF Top
<1>6. Only(m.stack, k, i) /\ SubSeq(m.stack, 1, i) = m.stack
  BY <1>4, <1>5, TopIsOnly
<1>7. i \in 1..Len(m.stack)
  BY <1>4, <1>5
<1>8. Back(v, i) \in Machines
  BY <1>2, <1>3, <1>7, MachinesAre
<1>9. Back(v, i) = w
  BY <1>3, <1>5, <1>6 DEF Back
<1>10. p1 \in Ops /\ p2 \in Ops /\ p3 \in Ops /\ p4 \in Ops /\ p5 \in Ops
  BY OpsAre DEF Notices
<1>11. Step(p1, m, m) /\ Step(p2, m, v)
  BY Steps
<1>12. Step(p3, v, v) /\ Step(p4, v, v)
  BY <1>2, Steps
<1>13. Step(p5, v, w)
  <2>1. Only(v.stack, k, i)
    BY <1>3, <1>6
  <2>2. Step(p5, v, Back(v, i))
    BY <1>2, <2>1, Steps
  <2> QED BY <1>9, <2>2
<1>14. sql \o TestBlock(s, k) = Put5(sql, p1, p2, p3, p4, p5)
  BY DEF Put5, TestBlock
<1>15. w \in Machines
  BY <1>8, <1>9
<1> HIDE DEF p1, p2, p3, p4, p5, v, w
<1>16. Put5(sql, p1, p2, p3, p4, p5) = Put(Put(Put(Put(Put(sql, p1), p2), p3), p4), p5)
  <2>1. sql \in Seq(Ops)
    OBVIOUS
  <2> QED BY ONLY <1>10, <2>1, Quints
<1> DEFINE a == Put(sql, p1)
           b == Put(a, p2)
           c == Put(b, p3)
           d == Put(c, p4)
           e == Put(d, p5)
<1>17. a \in Seq(Ops) /\ Leads(a, m)
  BY <1>10, <1>11, LeadsOn
<1> HIDE DEF a
<1>18. b \in Seq(Ops) /\ Leads(b, v)
  BY <1>2, <1>10, <1>11, <1>17, LeadsOn
<1> HIDE DEF b
<1>19. c \in Seq(Ops) /\ Leads(c, v)
  BY <1>2, <1>10, <1>12, <1>18, LeadsOn
<1> HIDE DEF c
<1>20. d \in Seq(Ops) /\ Leads(d, v)
  BY <1>2, <1>10, <1>12, <1>19, LeadsOn
<1> HIDE DEF d
<1>21. Leads(e, w)
  BY <1>10, <1>13, <1>15, <1>20, LeadsOn
<1> QED BY <1>14, <1>15, <1>16, <1>21 DEF a, b, c, d, w

(* A test run after sql, with the savepoints it leaves.                    *)
Tested(sql, m, s, O, sp, k, n) ==
  \E w \in Machines :
    /\ Leads(sql, w) /\ Stacked(n, sp, w.stack, O)
    /\ w.world = m.world /\ w.ran = Append(m.ran, <<s.dir, s.file>>) /\ Top(w, k)

(* TestRuns for a state known by what the row started from.                *)
LEMMA TestRunsAs ==
  ASSUME NEW sql \in Seq(Ops), NEW v \in Machines, Leads(sql, v), NEW s \in Rows, NEW m,
         v.world = m.world, v.ran = m.ran,
         m.world = FixturesAbove(s.dir), NEW k \in Nat, Top(v, k),
         NEW n \in Nat, NEW sp, NEW O, Stacked(n, sp, v.stack, O)
  PROVE  Tested(sql \o TestBlock(s, k), m, s, O, sp, k, n)
<1> DEFINE w == [world |-> v.world, stack |-> v.stack, ran |-> Append(v.ran, <<s.dir, s.file>>)]
<1>1. w \in Machines /\ Leads(sql \o TestBlock(s, k), w)
  BY TestRuns
<1>2. w.world = v.world /\ w.stack = v.stack /\ w.ran = Append(v.ran, <<s.dir, s.file>>)
  OBVIOUS
<1> HIDE DEF w
<1>3. Top(w, k)
  BY <1>2 DEF Top
<1> QED BY <1>1, <1>2, <1>3 DEF Tested

(* A test row: the savepoints still missing, the test, the roll back.      *)
LEMMA TestRow ==
  ASSUME NEW g \in Gens, NEW m \in Machines, Leads(g.sql, m), NEW s \in Rows, s.type = "test",
         NEW O, Innermost(s.dir, O), Stacked(g.n, g.dirSp, m.stack, O),
         m.world = FixturesAbove(s.dir), g.dirSp[s.dir] = 0 => m.world = Strict(s.dir),
         g.testSp[s.dir] # 0 => g.dirSp[s.dir] # 0 /\ Top(m, g.testSp[s.dir])
  PROVE  LET h == Add(g, s)
         IN  /\ h \in Gens
             /\ h.tests = g.tests + 1 /\ h.dirSp[s.dir] # 0 /\ h.testSp[s.dir] # 0 /\ Others(g, h, s.dir)
             /\ \E w \in Machines :
                  /\ Leads(h.sql, w) /\ Stacked(h.n, h.dirSp, w.stack, O)
                  /\ w.world = m.world /\ w.ran = Append(m.ran, <<s.dir, s.file>>)
                  /\ Top(w, h.testSp[s.dir])
<1> DEFINE d == s.dir
           n == g.n
           x == <<s.dir, s.file>>
           h == Add(g, s)
           one == Put(g.sql, Savepoint(n + 1))
           both == Put(one, Savepoint(n + 2))
           dp == FirstOf(g.dirSp, d, n + 1)
<1>1. /\ g.sql \in Seq(Ops) /\ n \in Nat /\ g.dirSp \in [Dirs -> Nat] /\ g.testSp \in [Dirs -> Nat]
      /\ d \in Dirs /\ n + 1 \in Nat /\ n + 2 \in Nat /\ n + 1 # 0 /\ n + 2 # 0 /\ n + 1 + 1 = n + 2
  BY DEF Gens, Rows
<1>2. h = AddTest(g, s)
  BY AddIs
<1>3. AddsTest(g, s, h)
  BY <1>2, TestAdds
<1> HIDE DEF h
<1>4. /\ h \in Gens /\ h.tests = g.tests + 1
      /\ g.dirSp[d] = 0 /\ g.testSp[d] = 0 =>
           /\ h.n = n + 2 /\ h.dirSp = dp /\ h.testSp = FirstOf(g.testSp, d, n + 2)
           /\ h.sql = both \o TestBlock(s, n + 2)
      /\ g.dirSp[d] # 0 /\ g.testSp[d] = 0 =>
           /\ h.n = n + 1 /\ h.dirSp = g.dirSp /\ h.testSp = FirstOf(g.testSp, d, n + 1)
           /\ h.sql = one \o TestBlock(s, n + 1)
      /\ g.dirSp[d] # 0 /\ g.testSp[d] # 0 =>
           /\ h.n = n /\ h.dirSp = g.dirSp /\ h.testSp = g.testSp
           /\ h.sql = g.sql \o TestBlock(s, g.testSp[d])
  BY <1>3 DEF AddsTest
<1>5. /\ \A y \in Dirs : y # d => dp[y] = g.dirSp[y]
      /\ g.dirSp[d] = 0 => dp[d] = n + 1
      /\ g.dirSp[d] # 0 => dp = g.dirSp
      /\ dp \in [Dirs -> Nat]
  <2>1. dp \in [Dirs -> Nat]
    BY <1>1, FirstOfIs
  <2> DEFINE k == n + 1
  <2> HIDE DEF d, k
  <2>2. LET p == FirstOf(g.dirSp, d, k)
        IN  /\ \A y \in Dirs : y # d => p[y] = g.dirSp[y]
            /\ g.dirSp[d] = 0 => p[d] = k
            /\ g.dirSp[d] # 0 => p = g.dirSp
    <3>1. k \in Nat
      BY <1>1 DEF k
    <3>2. g.dirSp \in [Dirs -> Nat] /\ d \in Dirs
      BY <1>1 DEF d
    <3> QED BY ONLY <3>1, <3>2, FirstOfIs
  <2> QED BY <2>1, <2>2 DEF d, k
<1>6. \A k \in Nat : k # 0 /\ g.testSp[d] = 0 =>
        FirstOf(g.testSp, d, k)[d] = k /\ \A y \in Dirs : y # d => FirstOf(g.testSp, d, k)[y] = g.testSp[y]
  <2> HIDE DEF d
  <2> QED BY <1>1, FirstOfIs
<1> DEFINE v == Kept(m, n + 1)
           u == Kept(v, n + 1 + 1)
<1>7. /\ one \in Seq(Ops) /\ v \in Machines /\ Leads(one, v) /\ Stacked(n + 1, dp, v.stack, O)
      /\ v.world = m.world /\ v.ran = m.ran /\ Top(v, n + 1)
  <2> HIDE DEF d
  <2> QED BY <1>1, Push DEF d
<1> HIDE DEF v
<1>8. CASE g.dirSp[d] = 0 /\ g.testSp[d] = 0
  <2>1. dp[d] # 0
    BY <1>1, <1>5, <1>8
  <2>2. /\ both \in Seq(Ops) /\ u \in Machines /\ Leads(both, u)
        /\ Stacked(n + 2, FirstOf(dp, d, n + 2), u.stack, O)
        /\ u.world = v.world /\ u.ran = v.ran /\ Top(u, n + 2)
    <3> DEFINE k == n + 1
    <3>1. k \in Nat /\ k + 1 = n + 2
      BY <1>1
    <3>2. Leads(one, v) /\ Stacked(k, dp, v.stack, O) /\ Innermost(d, O)
      BY <1>7
    <3> HIDE DEF k, one, dp, d
    <3>3. /\ Put(one, Savepoint(k + 1)) \in Seq(Ops) /\ Kept(v, k + 1) \in Machines
          /\ Leads(Put(one, Savepoint(k + 1)), Kept(v, k + 1))
          /\ Stacked(k + 1, FirstOf(dp, d, k + 1), Kept(v, k + 1).stack, O)
          /\ Kept(v, k + 1).world = v.world /\ Kept(v, k + 1).ran = v.ran
          /\ Top(Kept(v, k + 1), k + 1)
      BY <1>5, <1>7, <2>1, <3>1, <3>2, Push
    <3> QED BY <3>1, <3>3 DEF k
  <2>3. FirstOf(dp, d, n + 2) = dp
    <3> HIDE DEF dp, d
    <3> QED BY <1>1, <1>5, <2>1, FirstOfIs, ZenonT(40)
  <2> HIDE DEF u, both, dp
  <2>4. Tested(h.sql, m, s, O, dp, n + 2, n + 2)
    BY <1>1, <1>4, <1>7, <1>8, <2>2, <2>3, TestRunsAs
  <2>5. h.testSp[d] = n + 2 /\ h.dirSp = dp /\ h.n = n + 2 /\ \A y \in Dirs : y # d => h.testSp[y] = g.testSp[y]
    BY <1>1, <1>4, <1>6, <1>8
  <2>6. Others(g, h, d)
    BY <1>5, <2>5 DEF Others
  <2> HIDE DEF d
  <2> QED BY <1>1, <1>4, <2>1, <2>4, <2>5, <2>6 DEF h, d, Tested
<1>9. CASE g.dirSp[d] # 0 /\ g.testSp[d] = 0
  <2>1. Tested(h.sql, m, s, O, g.dirSp, n + 1, n + 1)
    <3> DEFINE k == n + 1
    <3>1. /\ k \in Nat /\ h.sql = one \o TestBlock(s, k) /\ Stacked(k, g.dirSp, v.stack, O)
          /\ Top(v, k)
      BY <1>1, <1>4, <1>5, <1>7, <1>9
    <3> HIDE DEF one, dp, k
    <3>2. Tested(one \o TestBlock(s, k), m, s, O, g.dirSp, k, k)
      BY <1>7, <3>1, TestRunsAs
    <3> QED BY <3>1, <3>2 DEF k
  <2>2. h.testSp[d] = n + 1 /\ h.dirSp = g.dirSp /\ h.n = n + 1 /\ \A y \in Dirs : y # d => h.testSp[y] = g.testSp[y]
    BY <1>1, <1>4, <1>6, <1>9
  <2>3. Others(g, h, d)
    BY <2>2 DEF Others
  <2> HIDE DEF d
  <2> QED BY <1>1, <1>4, <1>9, <2>1, <2>2, <2>3 DEF h, d, Tested
<1>10. CASE g.dirSp[d] # 0 /\ g.testSp[d] # 0
  <2>1. g.testSp[d] \in Nat
    BY <1>1
  <2>2. Tested(h.sql, m, s, O, g.dirSp, g.testSp[d], n)
    BY <1>1, <1>4, <1>10, <2>1, TestRunsAs
  <2>3. h.testSp = g.testSp /\ h.dirSp = g.dirSp /\ h.n = n
    BY <1>4, <1>10
  <2>4. Others(g, h, d)
    BY <2>3 DEF Others
  <2> HIDE DEF d
  <2> QED BY <1>4, <1>10, <2>2, <2>3, <2>4 DEF h, d, Tested
<1> QED BY <1>8, <1>9, <1>10

(* A teardown row: back to what was there before the directory.            *)
LEMMA TeardownRow ==
  ASSUME NEW g \in Gens, NEW m \in Machines, Leads(g.sql, m), NEW s \in Rows, s.type = "teardown",
         NEW O, Innermost(s.dir, O), Stacked(g.n, g.dirSp, m.stack, O),
         g.dirSp[s.dir] = 0 => m.world = Strict(s.dir)
  PROVE  LET h == Add(g, s)
         IN  /\ h \in Gens
             /\ h.n = g.n /\ h.tests = g.tests /\ h.testSp = g.testSp /\ h.dirSp = g.dirSp
             /\ \E w \in Machines :
                  /\ Leads(h.sql, w) /\ Stacked(g.n, g.dirSp, w.stack, O \ {s.dir})
                  /\ w.world = Strict(s.dir) /\ w.ran = m.ran
<1> DEFINE d == s.dir
           k == g.dirSp[d]
           h == Add(g, s)
           p1 == Event("teardown_start", s)
           p2 == RollbackTo(k)
           p3 == ReleaseSp(k)
           p4 == Event("teardown_end", s)
           a == Put(g.sql, p1)
           b == Put(a, p2)
           c == Put(b, p3)
<1>1. /\ g.sql \in Seq(Ops) /\ g.n \in Nat /\ g.dirSp \in [Dirs -> Nat] /\ d \in Dirs
      /\ k \in Nat /\ m.stack \in Seq(Saved)
  BY MachinesAre DEF Gens, Rows
<1>2. h = AddTeardown(g, s)
  BY AddIs
<1>3. /\ h \in Gens /\ h.n = g.n /\ h.tests = g.tests /\ h.testSp = g.testSp /\ h.dirSp = g.dirSp
      /\ k = 0 => h.sql = Put(a, p4)
      /\ k # 0 => h.sql = Put(c, p4)
  BY <1>2, TeardownAdds
<1> HIDE DEF h
<1>4. p1 \in Ops /\ p2 \in Ops /\ p3 \in Ops /\ p4 \in Ops
  BY <1>1, OpsAre DEF Notices
<1>5. /\ \A w \in Machines : Step(p1, w, w) /\ Step(p4, w, w)
      /\ \A w \in Machines : \A i : Only(w.stack, k, i) => Step(p2, w, Back(w, i)) /\ Step(p3, w, Freed(w, i))
  BY Steps
<1>6. O \in SUBSET Dirs /\ d \in O /\ \A e \in O : Above(e, d)
  BY DEF Innermost
<1> SUFFICES \E w \in Machines :
               /\ Leads(h.sql, w) /\ Stacked(g.n, g.dirSp, w.stack, O \ {d})
               /\ w.world = Strict(d) /\ w.ran = m.ran
  BY <1>3 DEF h
<1> HIDE DEF p1, p2, p3, p4
<1>7. a \in Seq(Ops) /\ Leads(a, m)
  BY <1>1, <1>4, <1>5, LeadsOn
<1> HIDE DEF a
<1>8. CASE k = 0
  <2>1. Leads(Put(a, p4), m)
    BY <1>4, <1>5, <1>7, LeadsOn
  <2>2. Stacked(g.n, g.dirSp, m.stack, O \ {d})
    BY <1>6, <1>8, StackedCloses
  <2> QED BY <1>3, <1>8, <2>1, <2>2
<1>9. CASE k # 0
  <2>1. PICK i : /\ Only(m.stack, k, i) /\ m.stack[i].world = Strict(d)
                 /\ Only(SubSeq(m.stack, 1, i), k, i)
                 /\ SubSeq(SubSeq(m.stack, 1, i), 1, i-1) = SubSeq(m.stack, 1, i-1)
                 /\ Stacked(g.n, g.dirSp, SubSeq(m.stack, 1, i-1), O \ {d})
    BY <1>1, <1>6, <1>9, StackedPops
  <2> DEFINE v == Back(m, i)
             w == Freed(v, i)
  <2>2. i \in 1..Len(m.stack)
    BY <2>1 DEF Only
  <2>3. v \in Machines
    BY <2>2, MachinesAre
  <2>4. v.world = Strict(d) /\ v.stack = SubSeq(m.stack, 1, i) /\ v.ran = m.ran
    BY <2>1 DEF Back
  <2>5. Step(p2, m, v)
    BY <1>5, <2>1
  <2> HIDE DEF v
  <2>6. Only(v.stack, k, i)
    BY <2>1, <2>4
  <2>7. w \in Machines
    <3>1. i \in 1..Len(v.stack)
      BY <2>6 DEF Only
    <3> QED BY <2>3, <3>1, MachinesAre
  <2>8. w.world = v.world /\ w.stack = SubSeq(v.stack, 1, i-1) /\ w.ran = v.ran
    BY DEF Freed
  <2>9. Step(p3, v, w)
    BY <1>5, <2>3, <2>6
  <2> HIDE DEF w
  <2>10. b \in Seq(Ops) /\ Leads(b, v)
    BY <1>4, <1>7, <2>3, <2>5, LeadsOn
  <2> HIDE DEF b
  <2>11. c \in Seq(Ops) /\ Leads(c, w)
    BY <1>4, <2>7, <2>9, <2>10, LeadsOn
  <2> HIDE DEF c
  <2>12. Leads(Put(c, p4), w)
    BY <1>4, <1>5, <2>7, <2>11, LeadsOn
  <2> QED BY <1>3, <1>9, <2>1, <2>4, <2>7, <2>8, <2>12
<1> QED BY <1>8, <1>9

----------------------------------------------------------------------------
(* The rows of one visit                                                   *)

(* What was run, each script once.                                         *)
HasRun(m, X) ==
  /\ {m.ran[i] : i \in 1..Len(m.ran)} = X
  /\ \A i, j \in 1..Len(m.ran) : m.ran[i] = m.ran[j] => i = j

(* A script that did not run yet is run once.                              *)
LEMMA RunsOnce ==
  ASSUME NEW m \in Machines, NEW w \in Machines, NEW x \in Written, NEW X, HasRun(m, X), x \notin X,
         w.ran = Append(m.ran, x)
  PROVE  HasRun(w, X \cup {x})
<1> DEFINE q == m.ran
           r == w.ran
           n == Len(q)
<1>1. q \in Seq(Written)
  BY MachinesAre
<1>2. n \in Nat
  BY <1>1
<1>3. Len(r) = n + 1 /\ r[n+1] = x /\ \A i \in 1..n : r[i] = q[i]
  BY <1>1, AppendProperties
<1>4. {q[i] : i \in 1..n} = X /\ \A i, j \in 1..n : q[i] = q[j] => i = j
  BY DEF HasRun
<1> HIDE DEF q, r, n
<1>5. /\ \A i \in 1..n+1 : i \in 1..n \/ i = n + 1
      /\ \A i \in 1..n : i \in 1..n+1
      /\ n+1 \in 1..n+1
  BY <1>2
<1>6. {r[i] : i \in 1..n+1} = X \cup {x}
  BY <1>3, <1>4, <1>5
<1>7. \A i \in 1..n : r[i] # x
  BY <1>3, <1>4
<1>8. \A i, j \in 1..n+1 : r[i] = r[j] => i = j
  BY <1>3, <1>4, <1>5, <1>7
<1> QED BY <1>3, <1>6, <1>8 DEF HasRun, r

(* The fixtures of d.                                                      *)
Own(d) == {<<d, f>> : f \in content[d] \cap Fixtures}

(* The fixtures a test sees: those around its directory and its own.       *)
LEMMA AboveIs ==
  ASSUME NEW d \in Dirs
  PROVE  /\ FixturesAbove(d) = Strict(d) \cup Own(d)
         /\ \A f : <<d, f>> \notin Strict(d)
<1>1. \A e \in Dirs : IsPrefix(e, d) <=> e = d \/ Encloses(e, d)
  <2>1. TAKE e \in Dirs
  <2>2. Len(e) \in Nat /\ Len(d) \in Nat /\ SubSeq(e, 1, Len(e)) = e /\ SubSeq(d, 1, Len(d)) = d
    BY DirIsPath, WholePath
  <2>3. Len(e) = Len(d) => (IsPrefix(e, d) <=> e = d)
    BY <2>2 DEF IsPrefix
  <2>4. Len(e) < Len(d) => (IsPrefix(e, d) <=> Encloses(e, d)) /\ e # d
    BY <2>2 DEF IsPrefix, Encloses
  <2>5. ~(Len(e) <= Len(d)) => ~IsPrefix(e, d) /\ ~Encloses(e, d) /\ e # d
    BY <2>2 DEF IsPrefix, Encloses
  <2>6. Len(e) = Len(d) => ~Encloses(e, d)
    BY <2>2 DEF Encloses
  <2>7. Len(e) = Len(d) \/ Len(e) < Len(d) \/ ~(Len(e) <= Len(d))
    <3>1. \A a, b \in Nat : a = b \/ a < b \/ ~(a <= b)
      OBVIOUS
    <3>2. Len(e) \in Nat /\ Len(d) \in Nat
      BY DirIsPath
    <3> QED BY ONLY <3>1, <3>2
  <2> QED BY ONLY <2>3, <2>4, <2>5, <2>6, <2>7
<1>2. ~Encloses(d, d)
  BY DirIsPath DEF Encloses
<1>3. \A f : <<d, f>> \notin Strict(d)
  BY <1>2 DEF Strict
<1>4. ASSUME NEW x PROVE x \in FixturesAbove(d) <=> x \in Strict(d) \cup Own(d)
  <2>1. x \in FixturesAbove(d) <=>
          /\ x \in Dirs \X Fixtures /\ x[2] \in content[x[1]]
          /\ (x[1] = d \/ Encloses(x[1], d))
    BY <1>1 DEF FixturesAbove
  <2>2. x \in Strict(d) <=> x \in Dirs \X Fixtures /\ x[2] \in content[x[1]] /\ Encloses(x[1], d)
    BY DEF Strict
  <2>3. x \in Own(d) <=> x \in Dirs \X Fixtures /\ x[2] \in content[x[1]] /\ x[1] = d
    <3>1. ASSUME x \in Own(d) PROVE x \in Dirs \X Fixtures /\ x[2] \in content[x[1]] /\ x[1] = d
      BY <3>1 DEF Own
    <3>2. ASSUME x \in Dirs \X Fixtures, x[2] \in content[x[1]], x[1] = d PROVE x \in Own(d)
      <4>1. x = <<d, x[2]>> /\ x[2] \in Fixtures
        BY <3>2
      <4> QED BY <3>2, <4>1 DEF Own
    <3> QED BY <3>1, <3>2
  <2> QED BY <2>1, <2>2, <2>3
<1> QED BY <1>3, <1>4

(* The matching tests of d.                                                *)
Ours(d) == {<<d, f>> : f \in Matching(d)}

(* The scripts of the first i rows.                                        *)
Upto(d, r, i) == {<<d, r[j].file>> : j \in 1..i}

(* After i rows of d, from the generator g and what ran before, X.         *)
RowsDone(g, h, w, d, O, X, r, nf, i) ==
  /\ h \in Gens /\ w \in Machines /\ Leads(h.sql, w)
  /\ Stacked(h.n, h.dirSp, w.stack, O) /\ Others(g, h, d)
  /\ h.tests # 0 => Wanted # {}
  /\ HasRun(w, X \cup Upto(d, r, i))
  /\ i <= nf => w.world = Strict(d) \cup Upto(d, r, i) /\ h.testSp[d] = 0
  /\ i > nf => w.world = FixturesAbove(d)
  /\ h.dirSp[d] = 0 => w.world = Strict(d)
  /\ h.testSp[d] # 0 => h.dirSp[d] # 0 /\ Top(w, h.testSp[d])

(* What is known of the i-th row of an entry.                              *)
LEMMA RowFacts ==
  ASSUME NEW d \in Dirs, NEW r, NEW nf, Lists(r, d, nf), NEW i \in 1..Len(r), NEW X, \A f : <<d, f>> \notin X
  PROVE  /\ r[i] \in Rows /\ r[i].dir = d /\ <<d, r[i].file>> \in Written
         /\ <<d, r[i].file>> \notin X \cup Upto(d, r, i-1)
         /\ Upto(d, r, i) = Upto(d, r, i-1) \cup {<<d, r[i].file>>}
         /\ i - 1 \in 0..Len(r) /\ nf \in Nat /\ i \in Nat
         /\ i <= nf => r[i].type = "fixture"
         /\ i > nf => r[i].type = "test" /\ Wanted # {}
<1>1. /\ r \in Seq(Rows) /\ nf \in 0..Len(r)
      /\ \A j \in 1..Len(r) :
           /\ r[j].dir = d
           /\ j <= nf => r[j].type = "fixture" /\ r[j].file \in content[d] \cap Fixtures
           /\ j > nf => r[j].type = "test" /\ r[j].file \in Matching(d)
      /\ \A j, k \in 1..Len(r) : r[j].file = r[k].file => j = k
  BY DEF Lists
<1>2. r[i] \in Rows /\ Len(r) \in Nat
  BY <1>1
<1>3. <<d, r[i].file>> \in Written
  BY <1>2 DEF Written, Rows
<1>4. i - 1 \in 0..Len(r) /\ nf \in Nat /\ i \in Nat
  BY <1>1, <1>2
<1>5. (\A j \in 1..i : j = i \/ j \in 1..i-1) /\ i \in 1..i /\ \A j \in 1..i-1 : j \in 1..i /\ j \in 1..Len(r) /\ j # i
  BY <1>2
<1>6. <<d, r[i].file>> \notin Upto(d, r, i-1)
  BY <1>1, <1>5 DEF Upto
<1>7. Upto(d, r, i) = Upto(d, r, i-1) \cup {<<d, r[i].file>>}
  BY <1>5 DEF Upto
<1>8. ASSUME i > nf PROVE Wanted # {}
  <2>1. r[i].file \in Matching(d)
    BY <1>1, <1>8
  <2>2. <<d, r[i].file>> \in AllTests
    BY <2>1 DEF AllTests, Matching
  <2> QED BY <2>1, <2>2 DEF Wanted
<1> QED BY <1>1, <1>2, <1>3, <1>4, <1>6, <1>7, <1>8

(* After the fixture rows, and after all of them.                          *)
LEMMA FixturesDone ==
  ASSUME NEW d \in Dirs, NEW r, NEW nf, Lists(r, d, nf)
  PROVE  Upto(d, r, nf) = Own(d) /\ Upto(d, r, Len(r)) = Own(d) \cup Ours(d)
<1>1. /\ nf \in 0..Len(r) /\ Len(r) \in Nat
      /\ \A j \in 1..Len(r) :
           /\ j <= nf => r[j].file \in content[d] \cap Fixtures
           /\ j > nf => r[j].file \in Matching(d)
      /\ \A f \in content[d] \cap Fixtures : \E i \in 1..nf : r[i].file = f
      /\ \A f \in Matching(d) : \E i \in nf+1..Len(r) : r[i].file = f
  BY DEF Lists
<1>2. /\ \A j \in 1..nf : j \in 1..Len(r) /\ j <= nf
      /\ \A j \in nf+1..Len(r) : j \in 1..Len(r) /\ j > nf
      /\ \A j \in 1..Len(r) : j <= nf \/ j > nf
  BY <1>1
<1>3. Upto(d, r, nf) = Own(d)
  BY <1>1, <1>2 DEF Upto, Own
<1>4. Upto(d, r, Len(r)) = Own(d) \cup Ours(d)
  <2>1. \A x : x \in Upto(d, r, Len(r)) <=> \E j \in 1..Len(r) : x = <<d, r[j].file>>
    BY DEF Upto
  <2>2. \A x : x \in Own(d) \cup Ours(d) <=> \E f \in (content[d] \cap Fixtures) \cup Matching(d) : x = <<d, f>>
    BY DEF Own, Ours
  <2>3. \A j \in 1..Len(r) : r[j].file \in (content[d] \cap Fixtures) \cup Matching(d)
    BY <1>1, <1>2
  <2>4. \A f \in (content[d] \cap Fixtures) \cup Matching(d) : \E j \in 1..Len(r) : r[j].file = f
    BY <1>1, <1>2
  <2> QED BY <2>1, <2>2, <2>3, <2>4
<1> QED BY <1>3, <1>4

(* One row more.                                                           *)
LEMMA RowStep ==
  ASSUME NEW g \in Gens, NEW h, NEW w, NEW d \in Dirs, NEW O, Innermost(d, O),
         NEW X, \A f : <<d, f>> \notin X, NEW r, NEW nf, Lists(r, d, nf), NEW i \in 1..Len(r),
         RowsDone(g, h, w, d, O, X, r, nf, i-1)
  PROVE  \E v : RowsDone(g, Add(h, r[i]), v, d, O, X, r, nf, i)
<1> DEFINE s == r[i]
           x == <<d, s.file>>
           q == Add(h, s)
<1>1. /\ s \in Rows /\ s.dir = d /\ x \in Written /\ x \notin X \cup Upto(d, r, i-1)
      /\ Upto(d, r, i) = Upto(d, r, i-1) \cup {x}
      /\ i - 1 \in 0..Len(r) /\ nf \in Nat /\ i \in Nat
      /\ i <= nf => s.type = "fixture"
      /\ i > nf => s.type = "test" /\ Wanted # {}
  BY RowFacts
<1>2. /\ h \in Gens /\ w \in Machines /\ Leads(h.sql, w)
      /\ Stacked(h.n, h.dirSp, w.stack, O) /\ Others(g, h, d)
      /\ h.tests # 0 => Wanted # {}
      /\ HasRun(w, X \cup Upto(d, r, i-1))
      /\ i - 1 <= nf => w.world = Strict(d) \cup Upto(d, r, i-1) /\ h.testSp[d] = 0
      /\ i - 1 > nf => w.world = FixturesAbove(d)
      /\ h.dirSp[d] = 0 => w.world = Strict(d)
      /\ h.testSp[d] # 0 => h.dirSp[d] # 0 /\ Top(w, h.testSp[d])
  BY DEF RowsDone
<1> HIDE DEF s
<1>3. X \cup Upto(d, r, i) = (X \cup Upto(d, r, i-1)) \cup {x}
  BY <1>1
<1>4. \A y : Others(h, y, d) => Others(g, y, d)
  BY <1>2 DEF Others
<1>5. CASE i <= nf
  <2> DEFINE v == Did(Kept(w, h.n + 1), d, s.file)
  <2>1. s.type = "fixture" /\ i - 1 <= nf /\ ~(i > nf)
    BY <1>1, <1>5
  <2>2. /\ q \in Gens /\ v \in Machines /\ Leads(q.sql, v) /\ Stacked(q.n, q.dirSp, v.stack, O)
        /\ q.tests = h.tests /\ q.testSp = h.testSp /\ q.dirSp[d] # 0 /\ Others(h, q, d)
        /\ v.world = w.world \cup {x} /\ v.ran = Append(w.ran, x)
    <3>1. /\ s \in Rows /\ s.type = "fixture" /\ Innermost(s.dir, O)
          /\ h \in Gens /\ w \in Machines /\ Leads(h.sql, w) /\ Stacked(h.n, h.dirSp, w.stack, O)
          /\ h.dirSp[s.dir] = 0 => w.world = Strict(s.dir)
      BY <1>1, <1>2, <2>1
    <3> DEFINE u == Did(Kept(w, h.n + 1), s.dir, s.file)
    <3>2. /\ q \in Gens /\ u \in Machines /\ Leads(q.sql, u) /\ Stacked(q.n, q.dirSp, u.stack, O)
          /\ q.tests = h.tests /\ q.testSp = h.testSp /\ q.dirSp[s.dir] # 0 /\ Others(h, q, s.dir)
          /\ u.world = w.world \cup {<<s.dir, s.file>>} /\ u.ran = Append(w.ran, <<s.dir, s.file>>)
      BY ONLY <3>1, FixtureRow, ZenonT(40)
    <3>3. u = v /\ s.dir = d
      BY <1>1
    <3> HIDE DEF u, v, q
    <3> QED BY <3>2, <3>3
  <2> HIDE DEF v, q
  <2>3. HasRun(v, X \cup Upto(d, r, i))
    <3> DEFINE Z == X \cup Upto(d, r, i-1)
    <3>1. HasRun(w, Z) /\ x \in Written /\ x \notin Z /\ X \cup Upto(d, r, i) = Z \cup {x}
      BY <1>1, <1>2, <1>3
    <3> HIDE DEF Z, x
    <3>2. HasRun(v, Z \cup {x})
      BY <1>2, <2>2, <3>1, RunsOnce
    <3> QED BY <3>1, <3>2
  <2>4. v.world = Strict(d) \cup Upto(d, r, i) /\ q.testSp[d] = 0
    BY <1>1, <1>2, <2>1, <2>2
  <2>5. RowsDone(g, q, v, d, O, X, r, nf, i)
    BY <1>2, <1>4, <2>1, <2>2, <2>3, <2>4 DEF RowsDone
  <2> QED BY <2>5 DEF q, s
<1>6. CASE i > nf
  <2>1. s.type = "test" /\ ~(i <= nf) /\ (i - 1 = nf \/ i - 1 > nf) /\ Wanted # {}
    BY <1>1, <1>6
  <2>2. w.world = FixturesAbove(d)
    <3>1. CASE i - 1 = nf
      <4>1. w.world = Strict(d) \cup Upto(d, r, nf)
        BY <1>1, <1>2, <3>1
      <4> QED BY <4>1, FixturesDone, AboveIs
    <3>2. CASE i - 1 > nf
      BY <1>2, <3>2
    <3> QED BY <2>1, <3>1, <3>2
  <2>3. /\ q \in Gens /\ q.tests = h.tests + 1 /\ q.dirSp[d] # 0 /\ q.testSp[d] # 0 /\ Others(h, q, d)
        /\ \E v \in Machines :
             /\ Leads(q.sql, v) /\ Stacked(q.n, q.dirSp, v.stack, O)
             /\ v.world = w.world /\ v.ran = Append(w.ran, x) /\ Top(v, q.testSp[d])
    <3>1. /\ s \in Rows /\ s.type = "test" /\ Innermost(s.dir, O)
          /\ h \in Gens /\ w \in Machines /\ Leads(h.sql, w) /\ Stacked(h.n, h.dirSp, w.stack, O)
          /\ w.world = FixturesAbove(s.dir) /\ (h.dirSp[s.dir] = 0 => w.world = Strict(s.dir))
          /\ h.testSp[s.dir] # 0 => h.dirSp[s.dir] # 0 /\ Top(w, h.testSp[s.dir])
      BY <1>1, <1>2, <2>1, <2>2
    <3>2. /\ q \in Gens /\ q.tests = h.tests + 1 /\ q.dirSp[s.dir] # 0 /\ q.testSp[s.dir] # 0
          /\ Others(h, q, s.dir)
          /\ \E v \in Machines :
               /\ Leads(q.sql, v) /\ Stacked(q.n, q.dirSp, v.stack, O)
               /\ v.world = w.world /\ v.ran = Append(w.ran, <<s.dir, s.file>>) /\ Top(v, q.testSp[s.dir])
      BY ONLY <3>1, TestRow
    <3>3. s.dir = d
      BY <1>1
    <3> HIDE DEF q
    <3> QED BY <3>2, <3>3
  <2> HIDE DEF q
  <2>4. PICK v \in Machines :
             /\ Leads(q.sql, v) /\ Stacked(q.n, q.dirSp, v.stack, O)
             /\ v.world = w.world /\ v.ran = Append(w.ran, x) /\ Top(v, q.testSp[d])
    BY <2>3
  <2>5. HasRun(v, X \cup Upto(d, r, i))
    <3> DEFINE Z == X \cup Upto(d, r, i-1)
    <3>1. HasRun(w, Z) /\ x \in Written /\ x \notin Z /\ X \cup Upto(d, r, i) = Z \cup {x}
      BY <1>1, <1>2, <1>3
    <3> HIDE DEF Z, x
    <3>2. HasRun(v, Z \cup {x})
      BY <1>2, <2>4, <3>1, RunsOnce
    <3> QED BY <3>1, <3>2
  <2>6. RowsDone(g, q, v, d, O, X, r, nf, i)
    BY <1>4, <2>1, <2>2, <2>3, <2>4, <2>5 DEF RowsDone
  <2> QED BY <2>6 DEF q, s
<1> QED BY <1>1, <1>5, <1>6

(* What holds between two visits: the directories of O are open, X has run.*)
Between(h, w, O, X) ==
  /\ h \in Gens /\ w \in Machines /\ Leads(h.sql, w)
  /\ Stacked(h.n, h.dirSp, w.stack, O)
  /\ h.tests # 0 => Wanted # {}
  /\ HasRun(w, X)

(* The entry of a directory, all of its rows.                              *)
LEMMA Entry ==
  ASSUME NEW g, NEW m, NEW O, NEW X, Between(g, m, O, X), NEW d \in Dirs,
         O \in SUBSET Dirs, d \notin O, \A e \in O : Encloses(e, d),
         g.dirSp[d] = 0, g.testSp[d] = 0, m.world = Strict(d), \A f : <<d, f>> \notin X
  PROVE  LET h == AddSteps(g, StepsOf(d, FALSE))
         IN  /\ Others(g, h, d)
             /\ \E w : /\ Between(h, w, O \cup {d}, X \cup (Own(d) \cup Ours(d)))
                       /\ w.world = Strict(d) \cup Own(d)
                       /\ h.dirSp[d] = 0 => Own(d) = {}
<1> DEFINE r == StepsOf(d, FALSE)
           P == O \cup {d}
           n == Len(r)
<1>1. PICK nf : Lists(r, d, nf)
  BY RowsAre
<1>2. r \in Seq(Rows) /\ nf \in 0..n /\ n \in Nat
  <2>1. r \in Seq(Rows) /\ nf \in 0..n
    BY <1>1 DEF Lists
  <2> HIDE DEF r
  <2> QED BY <2>1
<1>3. /\ g \in Gens /\ m \in Machines /\ Leads(g.sql, m) /\ Stacked(g.n, g.dirSp, m.stack, O)
      /\ g.tests # 0 => Wanted # {}
      /\ HasRun(m, X)
  BY DEF Between
<1> HIDE DEF r
<1>4. PICK t : RowLoop(t, g, r) /\ AddSteps(g, r) = t[n]
  BY <1>2, <1>3, RowsLoop
<1>5. t \in [0..n -> Gens] /\ t[0] = g /\ \A i \in 1..n : t[i] = Add(t[i-1], r[i])
  BY <1>4 DEF RowLoop
<1>6. Innermost(d, P)
  BY DEF Innermost, Above
<1> DEFINE G == {i \in 0..n : \E w : RowsDone(g, t[i], w, d, P, X, r, nf, i)}
<1>7. 0 \in G
  <2>1. Upto(d, r, 0) = {}
    BY DEF Upto
  <2>2. Stacked(g.n, g.dirSp, m.stack, P)
    BY <1>3, StackedOpens
  <2>3. Others(g, g, d)
    BY DEF Others
  <2>4. 0 <= nf /\ ~(0 > nf)
    BY <1>2
  <2>5. X \cup Upto(d, r, 0) = X /\ Strict(d) \cup Upto(d, r, 0) = Strict(d)
    BY <2>1
  <2> HIDE DEF P
  <2>6. RowsDone(g, g, m, d, P, X, r, nf, 0)
    BY <1>3, <2>2, <2>3, <2>4, <2>5 DEF RowsDone
  <2>7. 0 \in 0..n
    BY <1>2
  <2> QED BY <1>5, <2>6, <2>7
<1>8. ASSUME NEW i \in 0+1..n, i - 1 \in G PROVE i \in G
  <2>1. i \in 1..n /\ i \in 0..n
    BY <1>2
  <2>2. PICK w : RowsDone(g, t[i-1], w, d, P, X, r, nf, i-1)
    BY <1>8
  <2>3. t[i] = Add(t[i-1], r[i])
    BY <1>5, <2>1
  <2> HIDE DEF P
  <2>4. \E v : RowsDone(g, Add(t[i-1], r[i]), v, d, P, X, r, nf, i)
    BY <1>1, <1>3, <1>6, <2>1, <2>2, RowStep
  <2> QED BY <2>1, <2>3, <2>4
<1>9. n \in G
  <2>1. 0 \in Nat /\ 0 <= n /\ n \in 0..n
    BY <1>2
  <2>2. 0..n \subseteq G
    <3> HIDE DEF G
    <3> QED BY <1>2, <1>7, <1>8, <2>1, Climb
  <2> QED BY <2>1, <2>2
<1> DEFINE h == t[n]
<1>10. PICK w : RowsDone(g, h, w, d, P, X, r, nf, n)
  BY <1>9
<1> HIDE DEF h, P
<1>11. /\ h \in Gens /\ w \in Machines /\ Leads(h.sql, w)
       /\ Stacked(h.n, h.dirSp, w.stack, P) /\ Others(g, h, d)
       /\ h.tests # 0 => Wanted # {}
       /\ HasRun(w, X \cup Upto(d, r, n))
       /\ n <= nf => w.world = Strict(d) \cup Upto(d, r, n)
       /\ n > nf => w.world = FixturesAbove(d)
       /\ h.dirSp[d] = 0 => w.world = Strict(d)
  BY <1>10 DEF RowsDone
<1>12. Upto(d, r, nf) = Own(d) /\ Upto(d, r, n) = Own(d) \cup Ours(d)
  BY <1>1, FixturesDone
<1>13. w.world = Strict(d) \cup Own(d)
  <2>1. CASE n > nf
    BY <1>11, <2>1, AboveIs
  <2>2. CASE n = nf
    BY <1>2, <1>11, <1>12, <2>2
  <2> QED BY <1>2, <2>1, <2>2
<1>14. h.dirSp[d] = 0 => Own(d) = {}
  BY <1>11, <1>13, AboveIs DEF Own
<1>15. Between(h, w, P, X \cup (Own(d) \cup Ours(d)))
  BY <1>11, <1>12 DEF Between
<1> QED BY <1>4, <1>11, <1>13, <1>14, <1>15 DEF r, P, h

(* From g to h the directory d is left.                                    *)
Left(g, h, O, X, d) ==
  /\ h.dirSp = g.dirSp /\ h.testSp = g.testSp
  /\ \E w : Between(h, w, O \ {d}, X) /\ w.world = Strict(d)

(* The exit of the innermost open directory.                               *)
LEMMA Exit ==
  ASSUME NEW g, NEW m, NEW O, NEW X, Between(g, m, O, X), NEW d \in Dirs, Innermost(d, O),
         g.dirSp[d] = 0 => m.world = Strict(d)
  PROVE  Left(g, AddSteps(g, StepsOf(d, TRUE)), O, X, d)
<1> DEFINE s == [type |-> "teardown", dir |-> d, file |-> ""]
           r == StepsOf(d, TRUE)
           h == Add(g, s)
<1>1. /\ g \in Gens /\ m \in Machines /\ Leads(g.sql, m) /\ Stacked(g.n, g.dirSp, m.stack, O)
      /\ g.tests # 0 => Wanted # {}
      /\ HasRun(m, X)
  BY DEF Between
<1>2. r = <<s>> /\ r \in Seq(Rows) /\ s.type = "teardown" /\ s.dir = d
  BY RowsAre
<1>3. s \in Rows
  BY DEF Rows, Names
<1> HIDE DEF s
<1>4. Len(r) = 1 /\ r[1] = s
  BY <1>2, <1>3, Single
<1> HIDE DEF r
<1>5. PICK t : RowLoop(t, g, r) /\ AddSteps(g, r) = t[Len(r)]
  BY <1>1, <1>2, RowsLoop
<1>6. t[1] = Add(t[1-1], r[1]) /\ t[0] = g /\ 1 - 1 = 0
  BY <1>4, <1>5 DEF RowLoop
<1>7. AddSteps(g, r) = h
  BY <1>4, <1>5, <1>6
<1>8. /\ h \in Gens
      /\ h.n = g.n /\ h.tests = g.tests /\ h.testSp = g.testSp /\ h.dirSp = g.dirSp
      /\ \E w \in Machines :
           /\ Leads(h.sql, w) /\ Stacked(g.n, g.dirSp, w.stack, O \ {d})
           /\ w.world = Strict(d) /\ w.ran = m.ran
  <2>1. /\ s \in Rows /\ s.type = "teardown" /\ Innermost(s.dir, O)
        /\ g \in Gens /\ m \in Machines /\ Leads(g.sql, m) /\ Stacked(g.n, g.dirSp, m.stack, O)
        /\ g.dirSp[s.dir] = 0 => m.world = Strict(s.dir)
    BY <1>1, <1>2, <1>3
  <2>2. /\ h \in Gens
        /\ h.n = g.n /\ h.tests = g.tests /\ h.testSp = g.testSp /\ h.dirSp = g.dirSp
        /\ \E w \in Machines :
             /\ Leads(h.sql, w) /\ Stacked(g.n, g.dirSp, w.stack, O \ {s.dir})
             /\ w.world = Strict(s.dir) /\ w.ran = m.ran
    BY ONLY <2>1, TeardownRow
  <2> HIDE DEF h
  <2> QED BY <1>2, <2>2
<1> HIDE DEF h
<1>9. PICK w \in Machines :
           /\ Leads(h.sql, w) /\ Stacked(g.n, g.dirSp, w.stack, O \ {d})
           /\ w.world = Strict(d) /\ w.ran = m.ran
  BY <1>8
<1>10. HasRun(w, X)
  BY <1>1, <1>9 DEF HasRun
<1>11. Between(h, w, O \ {d}, X)
  BY <1>1, <1>8, <1>9, <1>10 DEF Between
<1> QED BY <1>7, <1>8, <1>9, <1>11 DEF r, h, Left

----------------------------------------------------------------------------
(* The visits, one after the other                                         *)

(* Being inside is transitive.                                             *)
LEMMA EnclosesTransitive ==
  ASSUME NEW d \in Dirs, NEW e \in Dirs, NEW f \in Dirs, Encloses(d, e), Encloses(e, f)
  PROVE  Encloses(d, f)
<1>1. /\ d \in Paths /\ e \in Paths /\ f \in Paths
      /\ Len(d) \in Nat /\ Len(e) \in Nat /\ Len(f) \in Nat
  BY DirIsPath
<1>2. Len(d) < Len(e) /\ SubSeq(e, 1, Len(d)) = d /\ Len(e) < Len(f) /\ SubSeq(f, 1, Len(e)) = e
  BY DEF Encloses
<1> DEFINE a == Len(d)
           b == Len(e)
           u == SubSeq(f, 1, a)
<1>3. a \in 0..Len(e) /\ a \in 0..Len(f) /\ b \in 0..Len(f) /\ \A i \in 1..a : i \in 1..b
  BY <1>1, <1>2
<1>4. u \in Paths /\ Len(u) = a /\ \A i \in 1..a : u[i] = f[i]
  BY <1>1, <1>3, PathStart
<1>5. \A i \in 1..a : SubSeq(e, 1, a)[i] = e[i]
  BY <1>1, <1>3, PathStart
<1>6. \A i \in 1..b : SubSeq(f, 1, b)[i] = f[i]
  BY <1>1, <1>3, PathStart
<1>7. \A i \in 1..a : u[i] = d[i]
  BY <1>2, <1>3, <1>4, <1>5, <1>6
<1> HIDE DEF u
<1>8. u = d
  BY <1>1, <1>4, <1>7, SeqEqual DEF Paths
<1> QED BY <1>1, <1>2, <1>8 DEF Encloses, u

(* A directory above a used one is used if it holds anything.              *)
LEMMA AboveUsed ==
  ASSUME NEW d \in Used, NEW e \in Dirs, content[e] # {}, e = d \/ Encloses(e, d)
  PROVE  e \in Used
<1>1. d \in Registered /\ e \in Registered /\ d \in Dirs
  BY DEF Used, Registered
<1>2. PICK f \in Registered : Matching(f) # {} /\ (d = f \/ Encloses(d, f))
  BY <1>1, UsedIs
<1>3. f \in Dirs
  BY DEF Registered
<1>4. e = f \/ Encloses(e, f)
  BY <1>1, <1>2, <1>3, EnclosesTransitive
<1> QED BY <1>1, <1>2, <1>4, UsedIs

(* After the visit k: the open directories, those ever entered, what has   *)
(* run; the fixtures of some directories; the directories around d.        *)
Open(at, k) == {d \in Used : at[<<d, FALSE>>] <= k /\ k < at[<<d, TRUE>>]}
Entered(at, k) == {d \in Used : at[<<d, FALSE>>] <= k}
RanBy(at, k) == UNION {Own(d) \cup Ours(d) : d \in Entered(at, k)}
WorldOf(O) == {x \in Dirs \X Fixtures : x[2] \in content[x[1]] /\ x[1] \in O}
Enclosing(d) == {e \in Used : Encloses(e, d)}

(* The fixtures of the open directories are those a test of d sees.        *)
LEMMA EnclosingWorld ==
  ASSUME NEW d \in Used
  PROVE  WorldOf(Enclosing(d)) = Strict(d) /\ WorldOf(Enclosing(d) \cup {d}) = Strict(d) \cup Own(d)
<1>1. d \in Dirs
  BY DEF Used, Registered
<1>2. ASSUME NEW x \in Dirs \X Fixtures, x[2] \in content[x[1]]
      PROVE  Encloses(x[1], d) => x[1] \in Used
  BY <1>2, AboveUsed
<1>3. WorldOf(Enclosing(d)) = Strict(d)
  BY <1>2 DEF WorldOf, Enclosing, Strict
<1>4. WorldOf(Enclosing(d) \cup {d}) = WorldOf(Enclosing(d)) \cup Own(d)
  <2>1. ASSUME NEW x
        PROVE  x \in Own(d) <=> x \in Dirs \X Fixtures /\ x[2] \in content[x[1]] /\ x[1] = d
    <3>1. ASSUME x \in Own(d) PROVE x \in Dirs \X Fixtures /\ x[2] \in content[x[1]] /\ x[1] = d
      BY <1>1, <3>1 DEF Own
    <3>2. ASSUME x \in Dirs \X Fixtures, x[2] \in content[x[1]], x[1] = d PROVE x \in Own(d)
      <4>1. x = <<d, x[2]>> /\ x[2] \in Fixtures
        BY <3>2
      <4> QED BY <3>2, <4>1 DEF Own
    <3> QED BY <3>1, <3>2
  <2>2. \A x : x \in WorldOf(Enclosing(d)) <=> x \in Dirs \X Fixtures /\ x[2] \in content[x[1]] /\ x[1] \in Enclosing(d)
    BY DEF WorldOf
  <2>3. \A x : x \in WorldOf(Enclosing(d) \cup {d}) <=> x \in Dirs \X Fixtures /\ x[2] \in content[x[1]] /\ (x[1] \in Enclosing(d) \/ x[1] = d)
    BY DEF WorldOf
  <2> QED BY <2>1, <2>2, <2>3
<1> QED BY <1>3, <1>4

(* Where a visit stands among the others.                                  *)
LEMMA EntryAt ==
  ASSUME NEW at, Nests(at), NEW k \in 1..Len(Visits), NEW d \in Used, Visits[k] = <<d, FALSE>>
  PROVE  /\ Open(at, k-1) = Enclosing(d) /\ d \notin Enclosing(d)
         /\ Open(at, k) = Enclosing(d) \cup {d}
         /\ Entered(at, k) = Entered(at, k-1) \cup {d} /\ d \notin Entered(at, k-1)
<1>2. \A e \in Used : \A b \in BOOLEAN : <<e, b>> \in Stops /\ at[<<e, b>>] \in Nat /\ Visits[at[<<e, b>>]] = <<e, b>>
  BY DEF Nests, Stops
<1>1. at[<<d, FALSE>>] = k
  BY DEF Nests
<1>3. k \in Nat /\ k >= 1
  BY DEF Nests
<1>4. ASSUME NEW e \in Used, e # d PROVE at[<<e, FALSE>>] # k /\ at[<<e, TRUE>>] # k
  <2>1. ASSUME NEW b \in BOOLEAN PROVE at[<<e, b>>] # k
    <3>1. SUFFICES ASSUME at[<<e, b>>] = k PROVE FALSE
      OBVIOUS
    <3>2. <<e, b>> = <<d, FALSE>>
      BY <1>2, <3>1
    <3> QED BY <1>4, <3>2
  <2> QED BY <2>1
<1>6. /\ \A e \in Used : at[<<e, FALSE>>] < at[<<e, TRUE>>]
      /\ \A e \in Used : Encloses(e, d) => at[<<e, FALSE>>] < k /\ at[<<d, TRUE>>] < at[<<e, TRUE>>]
      /\ \A e \in Used : Encloses(d, e) => k < at[<<e, FALSE>>]
      /\ \A e \in Used : d # e /\ ~Encloses(e, d) /\ ~Encloses(d, e) =>
           at[<<d, TRUE>>] < at[<<e, FALSE>>] \/ at[<<e, TRUE>>] < k
  BY <1>1 DEF Nests
<1>7. d \in Dirs /\ ~Encloses(d, d)
  <2>1. d \in Dirs
    BY DEF Used, Registered
  <2> QED BY <2>1, DirIsPath DEF Encloses
<1>8. ASSUME NEW e \in Used, e # d
      PROVE  /\ at[<<e, FALSE>>] <= k <=> at[<<e, FALSE>>] <= k - 1
             /\ k < at[<<e, TRUE>>] <=> k - 1 < at[<<e, TRUE>>]
             /\ Encloses(e, d) <=> at[<<e, FALSE>>] <= k /\ k < at[<<e, TRUE>>]
  <2> DEFINE p == at[<<e, FALSE>>]
             q == at[<<e, TRUE>>]
             z == at[<<d, TRUE>>]
  <2>1. p \in Nat /\ q \in Nat /\ p # k /\ q # k /\ z \in Nat /\ k < z /\ p < q
    BY <1>1, <1>2, <1>4, <1>6, <1>8
  <2>2. Encloses(e, d) => p < k /\ z < q
    BY <1>6
  <2>3. Encloses(d, e) => k < p
    BY <1>6
  <2>4. ~Encloses(e, d) /\ ~Encloses(d, e) => z < p \/ q < k
    BY <1>6, <1>8
  <2> HIDE DEF p, q, z
  <2>5. /\ p <= k <=> p <= k - 1
        /\ k < q <=> k - 1 < q
        /\ Encloses(e, d) <=> p <= k /\ k < q
    <3>1. (p <= k <=> p <= k - 1) /\ (k < q <=> k - 1 < q)
      BY <1>3, <2>1
    <3>2. Encloses(e, d) => p <= k /\ k < q
      BY <1>3, <2>1, <2>2
    <3>3. p <= k /\ k < q => ~(k < p) /\ ~(z < p) /\ ~(q < k)
      BY <1>3, <2>1
    <3> QED BY <2>3, <2>4, <3>1, <3>2, <3>3
  <2> QED BY <2>5 DEF p, q
<1>9. k <= k /\ ~(k <= k - 1)
  BY <1>3
<1>10. k < at[<<d, TRUE>>]
  BY <1>1, <1>6
<1>11. ASSUME NEW e \in Used
       PROVE  /\ e \in Open(at, k-1) <=> e \in Enclosing(d)
              /\ e \in Open(at, k) <=> e \in Enclosing(d) \cup {d}
              /\ e \in Entered(at, k) <=> e \in Entered(at, k-1) \cup {d}
  <2>1. CASE e = d
    BY <1>1, <1>7, <1>9, <1>10, <2>1 DEF Open, Enclosing, Entered
  <2>2. CASE e # d
    <3>1. /\ at[<<e, FALSE>>] <= k <=> at[<<e, FALSE>>] <= k - 1
          /\ k < at[<<e, TRUE>>] <=> k - 1 < at[<<e, TRUE>>]
          /\ Encloses(e, d) <=> at[<<e, FALSE>>] <= k /\ k < at[<<e, TRUE>>]
      BY <1>8, <2>2
    <3> QED BY <2>2, <3>1 DEF Open, Enclosing, Entered
  <2> QED BY <2>1, <2>2
<1>12. \A j : Open(at, j) \subseteq Used /\ Entered(at, j) \subseteq Used /\ Enclosing(d) \cup {d} \subseteq Used
  BY DEF Open, Entered, Enclosing
<1>13. d \notin Enclosing(d) /\ d \notin Entered(at, k-1)
  BY <1>1, <1>7, <1>9 DEF Enclosing, Entered
<1> QED BY <1>11, <1>12, <1>13

(* Leaving d closes d and nothing else.                                    *)
LEMMA ExitAt ==
  ASSUME NEW at, Nests(at), NEW k \in 1..Len(Visits), NEW d \in Used, Visits[k] = <<d, TRUE>>
  PROVE  /\ Open(at, k-1) = Enclosing(d) \cup {d} /\ d \notin Enclosing(d)
         /\ Open(at, k) = Enclosing(d)
         /\ Entered(at, k) = Entered(at, k-1)
<1>1. \A e \in Used : \A b \in BOOLEAN : <<e, b>> \in Stops /\ at[<<e, b>>] \in Nat /\ Visits[at[<<e, b>>]] = <<e, b>>
  BY DEF Nests, Stops
<1>2. at[<<d, TRUE>>] = k
  BY DEF Nests
<1>3. k \in Nat /\ k >= 1
  BY DEF Nests
<1>4. ASSUME NEW e \in Used, e # d PROVE at[<<e, FALSE>>] # k /\ at[<<e, TRUE>>] # k
  <2>1. ASSUME NEW b \in BOOLEAN PROVE at[<<e, b>>] # k
    <3>1. SUFFICES ASSUME at[<<e, b>>] = k PROVE FALSE
      OBVIOUS
    <3>2. <<e, b>> = <<d, TRUE>>
      BY <1>1, <3>1
    <3> QED BY <1>4, <3>2
  <2> QED BY <2>1
<1>5. /\ \A e \in Used : at[<<e, FALSE>>] < at[<<e, TRUE>>]
      /\ \A e \in Used : Encloses(e, d) => at[<<e, FALSE>>] < at[<<d, FALSE>>] /\ k < at[<<e, TRUE>>]
      /\ \A e \in Used : Encloses(d, e) => at[<<e, TRUE>>] < k
      /\ \A e \in Used : d # e /\ ~Encloses(e, d) /\ ~Encloses(d, e) =>
           k < at[<<e, FALSE>>] \/ at[<<e, TRUE>>] < at[<<d, FALSE>>]
  BY <1>2 DEF Nests
<1>6. d \in Dirs /\ ~Encloses(d, d)
  <2>1. d \in Dirs
    BY DEF Used, Registered
  <2> QED BY <2>1, DirIsPath DEF Encloses
<1>7. ASSUME NEW e \in Used, e # d
      PROVE  /\ at[<<e, FALSE>>] <= k <=> at[<<e, FALSE>>] <= k - 1
             /\ k < at[<<e, TRUE>>] <=> k - 1 < at[<<e, TRUE>>]
             /\ Encloses(e, d) <=> at[<<e, FALSE>>] <= k /\ k < at[<<e, TRUE>>]
  <2> DEFINE p == at[<<e, FALSE>>]
             q == at[<<e, TRUE>>]
             y == at[<<d, FALSE>>]
  <2>1. p \in Nat /\ q \in Nat /\ p # k /\ q # k /\ y \in Nat /\ y < k /\ p < q
    BY <1>1, <1>2, <1>4, <1>5, <1>7
  <2>2. Encloses(e, d) => p < y /\ k < q
    BY <1>5
  <2>3. Encloses(d, e) => q < k
    BY <1>5
  <2>4. ~Encloses(e, d) /\ ~Encloses(d, e) => k < p \/ q < y
    BY <1>5, <1>7
  <2> HIDE DEF p, q, y
  <2>5. /\ p <= k <=> p <= k - 1
        /\ k < q <=> k - 1 < q
        /\ Encloses(e, d) <=> p <= k /\ k < q
    <3>1. (p <= k <=> p <= k - 1) /\ (k < q <=> k - 1 < q)
      BY <1>3, <2>1
    <3>2. Encloses(e, d) => p <= k /\ k < q
      BY <1>3, <2>1, <2>2
    <3>3. p <= k /\ k < q => ~(k < p) /\ ~(q < y) /\ ~(q < k)
      BY <1>3, <2>1
    <3> QED BY <2>3, <2>4, <3>1, <3>2, <3>3
  <2> QED BY <2>5 DEF p, q
<1>8. ~(k < k) /\ k - 1 < k
  BY <1>3
<1>9. at[<<d, FALSE>>] <= k - 1 /\ at[<<d, FALSE>>] <= k
  <2> DEFINE y == at[<<d, FALSE>>]
  <2>1. y \in Nat /\ y < k
    BY <1>1, <1>2, <1>5
  <2> HIDE DEF y
  <2>2. y <= k - 1 /\ y <= k
    BY <1>3, <2>1
  <2> QED BY <2>2 DEF y
<1>10. ASSUME NEW e \in Used
       PROVE  /\ e \in Open(at, k-1) <=> e \in Enclosing(d) \cup {d}
              /\ e \in Open(at, k) <=> e \in Enclosing(d)
              /\ e \in Entered(at, k) <=> e \in Entered(at, k-1)
  <2>1. CASE e = d
    BY <1>2, <1>6, <1>8, <1>9, <2>1 DEF Open, Enclosing, Entered
  <2>2. CASE e # d
    <3>1. /\ at[<<e, FALSE>>] <= k <=> at[<<e, FALSE>>] <= k - 1
          /\ k < at[<<e, TRUE>>] <=> k - 1 < at[<<e, TRUE>>]
          /\ Encloses(e, d) <=> at[<<e, FALSE>>] <= k /\ k < at[<<e, TRUE>>]
      BY <1>7, <2>2
    <3> QED BY <2>2, <3>1 DEF Open, Enclosing, Entered
  <2> QED BY <2>1, <2>2
<1>11. \A j : Open(at, j) \subseteq Used /\ Entered(at, j) \subseteq Used /\ Enclosing(d) \cup {d} \subseteq Used
  BY DEF Open, Entered, Enclosing
<1>12. d \notin Enclosing(d)
  BY <1>6 DEF Enclosing
<1> QED BY <1>10, <1>11, <1>12

(* Between the visits k and k + 1.                                         *)
Planned(at, h, w, k) ==
  /\ Between(h, w, Open(at, k), RanBy(at, k))
  /\ w.world = WorldOf(Open(at, k))
  /\ \A d \in Dirs : d \notin Entered(at, k) => h.dirSp[d] = 0 /\ h.testSp[d] = 0
  /\ \A d \in Open(at, k) : h.dirSp[d] = 0 => Own(d) = {}

(* A used directory and those around it.                                   *)
LEMMA UsedAre ==
  ASSUME NEW d \in Used
  PROVE  d \in Dirs /\ Enclosing(d) \in SUBSET Dirs /\ \A e \in Enclosing(d) : Encloses(e, d)
BY DEF Used, Registered, Enclosing

(* The visit k enters d.                                                   *)
LEMMA EntryStep ==
  ASSUME NEW at, Nests(at), NEW k \in 1..Len(Visits), NEW d \in Used, Visits[k] = <<d, FALSE>>,
         NEW g, NEW m, Planned(at, g, m, k-1)
  PROVE  \E w : Planned(at, AddSteps(g, StepsOf(d, FALSE)), w, k)
<1> DEFINE O == Enclosing(d)
           X == RanBy(at, k-1)
           h == AddSteps(g, StepsOf(d, FALSE))
<1>1. /\ Open(at, k-1) = O /\ d \notin O /\ Open(at, k) = O \cup {d}
      /\ Entered(at, k) = Entered(at, k-1) \cup {d} /\ d \notin Entered(at, k-1)
  <2>1. Nests(at) /\ k \in 1..Len(Visits) /\ d \in Used /\ Visits[k] = <<d, FALSE>>
    OBVIOUS
  <2>2. /\ Open(at, k-1) = Enclosing(d) /\ d \notin Enclosing(d)
        /\ Open(at, k) = Enclosing(d) \cup {d}
        /\ Entered(at, k) = Entered(at, k-1) \cup {d} /\ d \notin Entered(at, k-1)
    BY ONLY <2>1, EntryAt
  <2> QED BY <2>2
<1>2. d \in Dirs /\ O \in SUBSET Dirs /\ \A e \in O : Encloses(e, d)
  BY UsedAre
<1>3. /\ Between(g, m, O, X) /\ m.world = WorldOf(O)
      /\ \A e \in Dirs : e \notin Entered(at, k-1) => g.dirSp[e] = 0 /\ g.testSp[e] = 0
      /\ \A e \in O : g.dirSp[e] = 0 => Own(e) = {}
  BY <1>1 DEF Planned
<1>4. m.world = Strict(d)
  BY <1>3, EnclosingWorld
<1>5. \A f : <<d, f>> \notin X
  BY <1>1 DEF RanBy, Own, Ours
<1>6. g.dirSp[d] = 0 /\ g.testSp[d] = 0
  BY <1>1, <1>2, <1>3
<1> HIDE DEF O, X
<1>7. /\ Others(g, h, d)
      /\ \E w : /\ Between(h, w, O \cup {d}, X \cup (Own(d) \cup Ours(d)))
                /\ w.world = Strict(d) \cup Own(d)
                /\ h.dirSp[d] = 0 => Own(d) = {}
  <2>1. /\ Between(g, m, O, X) /\ d \in Dirs /\ O \in SUBSET Dirs /\ d \notin O
        /\ \A e \in O : Encloses(e, d)
        /\ g.dirSp[d] = 0 /\ g.testSp[d] = 0 /\ m.world = Strict(d) /\ \A f : <<d, f>> \notin X
    BY <1>1, <1>2, <1>3, <1>4, <1>5, <1>6
  <2> QED BY ONLY <2>1, Entry DEF h
<1> HIDE DEF h
<1>8. PICK w : /\ Between(h, w, O \cup {d}, X \cup (Own(d) \cup Ours(d)))
               /\ w.world = Strict(d) \cup Own(d)
               /\ h.dirSp[d] = 0 => Own(d) = {}
  BY <1>7
<1>9. X \cup (Own(d) \cup Ours(d)) = RanBy(at, k)
  BY <1>1 DEF RanBy, X
<1>10. w.world = WorldOf(Open(at, k))
  BY <1>1, <1>8, EnclosingWorld DEF O
<1>11. \A e \in Dirs : e \notin Entered(at, k) => h.dirSp[e] = 0 /\ h.testSp[e] = 0
  BY <1>1, <1>3, <1>7 DEF Others
<1>12. \A e \in Open(at, k) : h.dirSp[e] = 0 => Own(e) = {}
  <2>1. \A e \in O : e \in Dirs /\ e # d
    BY <1>1, <1>2
  <2> QED BY <1>1, <1>3, <1>7, <1>8, <2>1 DEF Others
<1>13. Planned(at, h, w, k)
  BY <1>1, <1>8, <1>9, <1>10, <1>11, <1>12 DEF Planned
<1> QED BY <1>13 DEF h

(* The visit k leaves d.                                                   *)
LEMMA ExitStep ==
  ASSUME NEW at, Nests(at), NEW k \in 1..Len(Visits), NEW d \in Used, Visits[k] = <<d, TRUE>>,
         NEW g, NEW m, Planned(at, g, m, k-1)
  PROVE  \E w : Planned(at, AddSteps(g, StepsOf(d, TRUE)), w, k)
<1> DEFINE O == Enclosing(d) \cup {d}
           X == RanBy(at, k-1)
           h == AddSteps(g, StepsOf(d, TRUE))
<1>1. /\ Open(at, k-1) = O /\ O \ {d} = Open(at, k) /\ Open(at, k) = Enclosing(d)
      /\ Entered(at, k) = Entered(at, k-1) /\ d \in O
  <2>1. Nests(at) /\ k \in 1..Len(Visits) /\ d \in Used /\ Visits[k] = <<d, TRUE>>
    OBVIOUS
  <2>2. /\ Open(at, k-1) = Enclosing(d) \cup {d} /\ d \notin Enclosing(d)
        /\ Open(at, k) = Enclosing(d)
        /\ Entered(at, k) = Entered(at, k-1)
    BY ONLY <2>1, ExitAt
  <2> QED BY <2>2
<1>2. d \in Dirs /\ Innermost(d, O)
  BY UsedAre DEF Innermost, Above
<1>3. /\ Between(g, m, O, X) /\ m.world = WorldOf(O)
      /\ \A e \in Dirs : e \notin Entered(at, k-1) => g.dirSp[e] = 0 /\ g.testSp[e] = 0
      /\ \A e \in O : g.dirSp[e] = 0 => Own(e) = {}
  BY <1>1 DEF Planned
<1>4. m.world = Strict(d) \cup Own(d)
  BY <1>3, EnclosingWorld
<1>5. g.dirSp[d] = 0 => m.world = Strict(d)
  BY <1>1, <1>3, <1>4
<1> HIDE DEF O, X
<1>6. /\ h.dirSp = g.dirSp /\ h.testSp = g.testSp
      /\ \E w : Between(h, w, O \ {d}, X) /\ w.world = Strict(d)
  <2>1. Between(g, m, O, X) /\ d \in Dirs /\ Innermost(d, O) /\ (g.dirSp[d] = 0 => m.world = Strict(d))
    BY <1>2, <1>3, <1>5
  <2>2. Left(g, AddSteps(g, StepsOf(d, TRUE)), O, X, d)
    BY ONLY <2>1, Exit
  <2> QED BY <2>2 DEF Left
<1> HIDE DEF h
<1>7. PICK w : Between(h, w, O \ {d}, X) /\ w.world = Strict(d)
  BY <1>6
<1>8. X = RanBy(at, k)
  BY <1>1 DEF RanBy, X
<1>9. w.world = WorldOf(Open(at, k))
  BY <1>1, <1>7, EnclosingWorld
<1>10. Planned(at, h, w, k)
  BY <1>1, <1>3, <1>6, <1>7, <1>8, <1>9 DEF Planned
<1> QED BY <1>10 DEF h

(* The matching tests and the fixtures of the directories they are in.     *)
Needed == Wanted \cup UNION {FixturesAbove(x[1]) : x \in Wanted}

(* What the visits run is what the matching tests need.                    *)
LEMMA AllRun ==
  UNION {Own(d) \cup Ours(d) : d \in Used} = Needed
<1>1. ASSUME NEW d \in Used PROVE Own(d) \cup Ours(d) \subseteq Needed
  <2>1. d \in Registered /\ d \in Dirs
    BY DEF Used, Registered
  <2>2. Ours(d) \subseteq Wanted
    <3>1. SUFFICES ASSUME NEW f \in Matching(d) PROVE <<d, f>> \in Wanted
      BY DEF Ours
    <3>2. <<d, f>> \in AllTests
      BY <2>1 DEF AllTests, Matching
    <3> QED BY <3>2 DEF Wanted
  <2>3. PICK e \in Registered : Matching(e) # {} /\ (d = e \/ Encloses(d, e))
    BY <2>1, UsedIs
  <2>4. PICK f : f \in Matching(e)
    BY <2>3
  <2>5. e \in Dirs /\ <<e, f>> \in Wanted
    BY <2>4 DEF Wanted, AllTests, Matching, Registered
  <2>6. Own(d) \subseteq FixturesAbove(e)
    <3>1. FixturesAbove(e) = Strict(e) \cup Own(e)
      BY <2>5, AboveIs
    <3>2. CASE d = e
      BY <3>1, <3>2
    <3>3. CASE Encloses(d, e)
      BY <2>1, <3>1, <3>3 DEF Own, Strict
    <3> QED BY <2>3, <3>2, <3>3
  <2>7. FixturesAbove(e) \subseteq UNION {FixturesAbove(x[1]) : x \in Wanted}
    <3>1. <<e, f>>[1] = e
      OBVIOUS
    <3> QED BY <2>5, <3>1
  <2> QED BY <2>2, <2>6, <2>7 DEF Needed
<1>2. ASSUME NEW x \in Wanted PROVE x[1] \in Used /\ x \in Ours(x[1])
  <2>1. x \in AllTests /\ x[2] \in Matching(x[1])
    BY DEF Wanted
  <2>2. x = <<x[1], x[2]>> /\ x[1] \in Dirs
    BY <2>1 DEF AllTests
  <2>3. x[1] \in Registered
    BY <2>1, <2>2 DEF Registered, Matching
  <2>4. x[1] \in Used
    BY <2>1, <2>3, UsedIs
  <2> QED BY <2>1, <2>2, <2>4 DEF Ours
<1>3. ASSUME NEW x \in Wanted, NEW y \in FixturesAbove(x[1]) PROVE y[1] \in Used /\ y \in Own(y[1])
  <2>1. x[1] \in Used /\ x[1] \in Dirs
    BY <1>2 DEF Used, Registered
  <2> DEFINE d == x[1]
  <2> HIDE DEF d
  <2>2. y \in Strict(d) \cup Own(d)
    BY <2>1, AboveIs DEF d
  <2>3. CASE y \in Own(d)
    BY <2>1, <2>3 DEF Own, d
  <2>4. CASE y \in Strict(d)
    <3>1. y \in Dirs \X Fixtures /\ y[2] \in content[y[1]] /\ Encloses(y[1], d)
      BY <2>4 DEF Strict
    <3>2. y = <<y[1], y[2]>> /\ y[1] \in Dirs /\ y[2] \in Fixtures
      BY <3>1
    <3>3. y[1] \in Used
      BY <2>1, <3>1, <3>2, AboveUsed DEF d
    <3> QED BY <3>1, <3>2, <3>3 DEF Own
  <2> QED BY <2>2, <2>3, <2>4
<1>4. UNION {Own(d) \cup Ours(d) : d \in Used} \subseteq Needed
  BY <1>1
<1>5. Needed \subseteq UNION {Own(d) \cup Ours(d) : d \in Used}
  BY <1>2, <1>3 DEF Needed
<1> QED BY <1>4, <1>5

(* Before the first visit.                                                 *)
LEMMA PlanStarts ==
  ASSUME NEW at, Nests(at)
  PROVE  Planned(at, Start, Idle, 0)
<1>1. \A d \in Used : at[<<d, FALSE>>] \in Nat /\ at[<<d, FALSE>>] >= 1
  <2>1. \A d \in Used : <<d, FALSE>> \in Stops
    BY DEF Stops
  <2>2. \A v \in Stops : at[v] \in 1..Len(Visits)
    BY DEF Nests
  <2>3. \A i \in 1..Len(Visits) : i \in Nat /\ i >= 1
    BY DEF Nests
  <2> QED BY <2>1, <2>2, <2>3
<1>2. \A n \in Nat : n >= 1 => ~(n <= 0)
  OBVIOUS
<1>3. Entered(at, 0) = {} /\ Open(at, 0) = {}
  <2>1. \A d \in Used : ~(at[<<d, FALSE>>] <= 0)
    BY <1>1, <1>2
  <2> QED BY <2>1 DEF Entered, Open
<1>4. RanBy(at, 0) = {} /\ WorldOf({}) = {}
  BY <1>3 DEF RanBy, WorldOf
<1>5. Idle.world = {} /\ Idle.stack = <<>> /\ Idle.ran = <<>>
  BY DEF Idle
<1>6. HasRun(Idle, {})
  <2>1. \A i \in 1..Len(<<>>) : FALSE
    BY EmptySeq
  <2> HIDE DEF Idle
  <2> QED BY <1>5, <2>1 DEF HasRun
<1>7. /\ Start \in Gens /\ Start.tests = 0 /\ Start.n = 0
      /\ \A d \in Dirs : Start.dirSp[d] = 0 /\ Start.testSp[d] = 0
  BY StartIs DEF Start
<1>8. Stacked(Start.n, Start.dirSp, Idle.stack, {})
  <2>1. 0 \in Nat
    OBVIOUS
  <2> HIDE DEF Start, Idle
  <2> QED BY <1>5, <1>7, <2>1, StackedEmpty
<1>9. Between(Start, Idle, {}, {})
  <2> HIDE DEF Start, Idle
  <2> QED BY <1>6, <1>7, <1>8, StartLeads DEF Between
<1> HIDE DEF Start, Idle
<1> QED BY <1>3, <1>4, <1>5, <1>7, <1>9 DEF Planned

(* One visit more.                                                         *)
LEMMA PlanSteps ==
  ASSUME NEW at, Nests(at), NEW k \in 1..Len(Visits), NEW g, NEW m, Planned(at, g, m, k-1)
  PROVE  \E w : Planned(at, AddSteps(g, StepsOf(Visits[k][1], Visits[k][2])), w, k)
<1>1. Visits[k] \in Stops
  BY DEF Nests
<1>2. PICK d \in Used, b \in BOOLEAN : Visits[k] = <<d, b>>
  BY <1>1 DEF Stops
<1>3. StepsOf(Visits[k][1], Visits[k][2]) = StepsOf(d, b)
  BY <1>2
<1>4. CASE b = TRUE
  <2>1. Nests(at) /\ k \in 1..Len(Visits) /\ d \in Used /\ Visits[k] = <<d, TRUE>> /\ Planned(at, g, m, k-1)
    BY <1>2, <1>4
  <2>2. \E w : Planned(at, AddSteps(g, StepsOf(d, TRUE)), w, k)
    BY ONLY <2>1, ExitStep
  <2> QED BY <1>3, <1>4, <2>2
<1>5. CASE b = FALSE
  <2>1. Nests(at) /\ k \in 1..Len(Visits) /\ d \in Used /\ Visits[k] = <<d, FALSE>> /\ Planned(at, g, m, k-1)
    BY <1>2, <1>5
  <2>2. \E w : Planned(at, AddSteps(g, StepsOf(d, FALSE)), w, k)
    BY ONLY <2>1, EntryStep
  <2> QED BY <1>3, <1>5, <2>2
<1> QED BY <1>2, <1>4, <1>5

(* The whole plan: everything has run, and nothing of it is left.          *)
LEMMA PlanRuns ==
  LET g == AddPlan(Visits)
  IN  /\ g \in Gens
      /\ g.tests # 0 => Wanted # {}
      /\ \E w \in Machines : /\ Leads(g.sql, w) /\ HasRun(w, Needed)
                             /\ w.world = {} /\ w.stack = <<>>
<1>1. PICK at : Nests(at)
  BY VisitsNest
<1>2. PICK t : VisitLoop(t) /\ AddPlan(Visits) = t[Len(Visits)]
  BY VisitsLoop
<1> DEFINE n == Len(Visits)
           G == {k \in 0..n : \E w : Planned(at, t[k], w, k)}
<1>3. n \in Nat
  BY <1>1 DEF Nests
<1>4. t[0] = Start /\ \A k \in 1..n : t[k] = AddSteps(t[k-1], StepsOf(Visits[k][1], Visits[k][2]))
  BY <1>2 DEF VisitLoop
<1>5. 0 \in G
  <2>1. 0 \in 0..n
    BY <1>3
  <2> QED BY <1>1, <1>4, <2>1, PlanStarts
<1>6. ASSUME NEW k \in 0+1..n, k - 1 \in G PROVE k \in G
  <2>1. k \in 1..n /\ k \in 0..n
    BY <1>3
  <2>2. PICK m : Planned(at, t[k-1], m, k-1)
    BY <1>6
  <2>3. \E w : Planned(at, AddSteps(t[k-1], StepsOf(Visits[k][1], Visits[k][2])), w, k)
    BY <1>1, <2>1, <2>2, PlanSteps
  <2> QED BY <1>4, <2>1, <2>3
<1>7. n \in G
  <2>1. 0 \in Nat /\ 0 <= n /\ n \in 0..n
    BY <1>3
  <2>2. 0..n \subseteq G
    <3> HIDE DEF G
    <3> QED BY <1>3, <1>5, <1>6, <2>1, Climb
  <2> QED BY <2>1, <2>2
<1>8. PICK w : Planned(at, t[n], w, n)
  BY <1>7
<1> DEFINE g == t[n]
<1>9. \A v \in Stops : at[v] \in Nat /\ at[v] <= n
  BY <1>1, <1>3 DEF Nests
<1>10. \A d \in Used : at[<<d, FALSE>>] <= n /\ ~(n < at[<<d, TRUE>>])
  <2>1. \A d \in Used : <<d, FALSE>> \in Stops /\ <<d, TRUE>> \in Stops
    BY DEF Stops
  <2>2. \A a \in Nat : a <= n => ~(n < a)
    BY <1>3
  <2> HIDE DEF n
  <2> QED BY <1>9, <2>1, <2>2
<1>11. Open(at, n) = {} /\ Entered(at, n) = Used
  BY <1>10 DEF Open, Entered
<1>12. RanBy(at, n) = Needed
  BY <1>11, AllRun DEF RanBy
<1>13. /\ g \in Gens /\ w \in Machines /\ Leads(g.sql, w) /\ HasRun(w, Needed)
       /\ Stacked(g.n, g.dirSp, w.stack, {})
       /\ g.tests # 0 => Wanted # {}
       /\ w.world = WorldOf({})
  <2> HIDE DEF g, n
  <2> QED BY <1>8, <1>11, <1>12 DEF Planned, Between, g
<1>14. w.world = {}
  BY <1>13 DEF WorldOf
<1> HIDE DEF g
<1>15. w.stack = <<>>
  <2>1. \E own : own \in [1..Len(w.stack) -> {}]
    <3>1. PICK own : StackedBy(own, g.n, g.dirSp, w.stack, {})
      BY <1>13 DEF Stacked
    <3> QED BY <3>1 DEF StackedBy
  <2>2. w.stack \in Seq(Saved) /\ Len(w.stack) \in Nat
    BY <1>13, MachinesAre
  <2>3. ~(1 \in 1..Len(w.stack))
    BY <2>1
  <2>4. Len(w.stack) = 0
    BY <2>2, <2>3
  <2> QED BY <2>2, <2>4, EmptySeq
<1> QED BY <1>2, <1>13, <1>14, <1>15 DEF g

----------------------------------------------------------------------------
(* The generated script                                                    *)

(* A suite that has done its work.                                         *)
Complete(m) == Wanted # {} /\ HasRun(m, Needed) /\ m.world = {} /\ m.stack = <<>>

(* The script raises, or it runs to a complete end.                        *)
LEMMA GeneratedRuns ==
  \/ Generated = << <<"raise">> >>
  \/ /\ Generated \in Seq(Ops)
     /\ \E w \in Machines : Leads(Generated, w) /\ Complete(w)
<1> DEFINE g == AddPlan(Visits)
<1>1. CASE g.tests = 0
  BY <1>1 DEF Generated
<1>2. CASE g.tests # 0
  <2>1. PICK w \in Machines : /\ Leads(g.sql, w) /\ HasRun(w, Needed)
                              /\ w.world = {} /\ w.stack = <<>>
    BY PlanRuns
  <2>2. g \in Gens /\ Wanted # {}
    BY <1>2, PlanRuns
  <2> HIDE DEF g
  <2>3. g.sql \in Seq(Ops)
    BY <2>2 DEF Gens
  <2>4. SuiteEnd \in Ops /\ SuiteEnd[1] = "event"
    <3>1. "suite_end" \in Notices /\ "" \in Names
      BY DEF Notices, Names
    <3>2. SuiteEnd \in {"event"} \X Notices \X (Dirs \cup {NoDir}) \X Names
      BY <3>1 DEF SuiteEnd
    <3> QED BY <3>2 DEF Ops, SuiteEnd
  <2>5. Step(SuiteEnd, w, w)
    BY <2>4 DEF Step
  <2>6. Put(g.sql, SuiteEnd) \in Seq(Ops) /\ Leads(Put(g.sql, SuiteEnd), w)
    <3>1. g.sql \in Seq(Ops) /\ SuiteEnd \in Ops /\ w \in Machines /\ Leads(g.sql, w) /\ Step(SuiteEnd, w, w)
      BY <2>1, <2>3, <2>4, <2>5
    <3> QED BY ONLY <3>1, LeadsOn
  <2>7. Put(g.sql, SuiteEnd) = Append(g.sql, SuiteEnd)
    BY <2>3, <2>4 DEF Put
  <2>8. Generated = Append(g.sql, SuiteEnd)
    BY <1>2 DEF Generated, g
  <2> HIDE DEF SuiteEnd
  <2> QED BY <2>1, <2>2, <2>6, <2>7, <2>8 DEF Complete
<1> QED BY <1>1, <1>2

----------------------------------------------------------------------------
(* The transaction follows the script                                      *)

(* The transaction as it is now.                                           *)
Moment == [world |-> world, stack |-> stack, ran |-> ran]

(* Nothing expanded yet.                                                   *)
Loaded == prog = <<>> /\ pos = 1 /\ Moment = Idle

(* The script of a plan without a test.                                    *)
Refused == prog = << <<"raise">> >> /\ pos = 1 /\ status \in {"running", "failed"}

(* f holds the state of the transaction before each statement of q.        *)
Runs(f, q) == Follows(f, q) /\ Complete(f[Len(q)+1]) /\ q \in Seq(Ops)

(* The transaction is where the script leads after pos - 1 statements.     *)
Underway ==
  \E f, q : /\ q = prog /\ Runs(f, q)
            /\ pos \in 1..Len(q)+1 /\ f[pos] = Moment
            /\ status = "passed" => pos = Len(q)+1

(* The inductive invariant.                                                *)
SuiteInv ==
  /\ status \in {"loaded", "running", "passed", "failed"}
  /\ status = "loaded" => Loaded
  /\ status # "loaded" => Refused \/ Underway

(* Steps that keep the files and the pattern keep what a script does.      *)
LEMMA RunsStays ==
  ASSUME content' = content, pattern' = pattern, NEW f, NEW q, Runs(f, q)
  PROVE  Runs(f, q)'
<1>1. \A d : FixturesAbove(d)' = FixturesAbove(d)
  BY DEF FixturesAbove
<1>2. Wanted' = Wanted
  BY DEF Wanted, Matching
<1>3. Needed' = Needed
  BY <1>1, <1>2 DEF Needed
<1>4. Complete(f[Len(q)+1])'
  BY <1>2, <1>3 DEF Runs, Complete, HasRun
<1>5. Follows(f, q)'
  BY <1>1 DEF Runs, Follows, Step
<1> QED BY <1>4, <1>5 DEF Runs

(* Where a running script stands.                                          *)
LEMMA Standing ==
  ASSUME Underway, NEW op, At(op)
  PROVE  \E f, q : /\ q = prog /\ Runs(f, q) /\ pos \in 1..Len(q)
                   /\ pos + 1 \in 1..Len(q)+1 /\ f[pos+1] \in Machines
                   /\ Moment \in Machines /\ f[pos] = Moment
                   /\ Step(prog[pos], Moment, f[pos+1])
<1>1. PICK f, q : /\ q = prog /\ Runs(f, q) /\ pos \in 1..Len(q)+1 /\ f[pos] = Moment
  BY DEF Underway
<1>2. Len(q) \in Nat
  BY <1>1 DEF Runs
<1>3. pos \in 1..Len(q) /\ pos + 1 \in 1..Len(q)+1
  BY <1>1, <1>2 DEF At
<1>4. /\ f \in [1..Len(q)+1 -> Machines]
      /\ \A i \in 1..Len(q) : Step(q[i], f[i], f[i+1])
  BY <1>1 DEF Runs, Follows
<1>5. Step(prog[pos], Moment, f[pos+1]) /\ f[pos] \in Machines /\ f[pos+1] \in Machines
  BY <1>1, <1>3, <1>4
<1> HIDE DEF Moment
<1> QED BY <1>1, <1>3, <1>5

(* One step on: what a successful statement has to show.                   *)
LEMMA Advances ==
  ASSUME content' = content, pattern' = pattern, prog' = prog, status' = status, pos' = pos + 1,
         NEW op, At(op), NEW f, NEW q, q = prog, Runs(f, q),
         pos + 1 \in 1..Len(q)+1, f[pos+1] = Moment'
  PROVE  Underway'
<1>1. Runs(f, q)'
  BY RunsStays
<1>2. status' # "passed"
  BY DEF At
<1> HIDE DEF Moment
<1> QED BY <1>1, <1>2 DEF Underway

(* PostgreSQL finds the only savepoint of the name.                        *)
LEMMA FoundIs ==
  ASSUME stack \in Seq(Saved), NEW i, Only(stack, prog[pos][2], i)
  PROVE  /\ {j \in DOMAIN stack : stack[j].name = prog[pos][2]} = {i}
         /\ Found = i /\ i \in 1..Len(stack) /\ i \in Nat
<1>1. {j \in DOMAIN stack : stack[j].name = prog[pos][2]} = {i}
  BY DEF Only
<1>2. i \in 1..Len(stack) /\ i \in Nat /\ {i} \in SUBSET Nat /\ {i} # {}
  BY DEF Only
<1>3. Max({i}) = i
  <2>1. \A x \in {i} : x <= i
    BY <1>2
  <2>2. Max({i}) \in {i}
    BY <1>2, <2>1, MaxIs
  <2> QED BY <2>2
<1> QED BY <1>1, <1>2, <1>3 DEF Found

(* The script that raises does nothing else.                               *)
LEMMA NotRefused ==
  ASSUME NEW op, At(op), op # "raise"
  PROVE  ~Refused
<1>1. << <<"raise">> >>[1][1] = "raise"
  OBVIOUS
<1> QED BY <1>1 DEF At, Refused

(* Every step keeps the invariant.                                         *)
LEMMA SuiteStep ==
  ASSUME SuiteInv, [Next]_vars
  PROVE  SuiteInv'
<1>1. CASE Expand
  <2>1. /\ Moment' = Idle /\ pos' = 1 /\ prog' = Generated /\ status' = "running"
        /\ content' = content /\ pattern' = pattern
    BY <1>1 DEF Expand, SuiteInv, Loaded, Moment
  <2>2. CASE Generated = << <<"raise">> >>
    <3>1. Refused'
      BY <2>1, <2>2 DEF Refused
    <3> QED BY <2>1, <3>1 DEF SuiteInv
  <2>3. CASE Generated \in Seq(Ops) /\ \E w \in Machines : Leads(Generated, w) /\ Complete(w)
    <3>1. PICK w \in Machines : Leads(Generated, w) /\ Complete(w)
      BY <2>3
    <3> DEFINE q == Generated
    <3>2. PICK f : Follows(f, q) /\ f[Len(q)+1] = w
      BY <3>1 DEF Leads
    <3>3. f[1] = Idle /\ Runs(f, q)
      BY <2>3, <3>1, <3>2 DEF Runs, Follows
    <3>4. 1 \in 1..Len(q)+1
      <4>1. Len(q) \in Nat
        BY <2>3
      <4> QED BY <4>1
    <3>5. \E y, z : z = Generated /\ Runs(y, z) /\ y[1] = Idle /\ 1 \in 1..Len(z)+1
      <4> HIDE DEF q
      <4> QED BY <3>3, <3>4 DEF q
    <3>6. PICK y, z : z = Generated /\ Runs(y, z) /\ y[1] = Idle /\ 1 \in 1..Len(z)+1
      BY <3>5
    <3>7. Runs(y, z)'
      BY <2>1, <3>6, RunsStays
    <3>8. z = prog' /\ y[pos'] = Moment' /\ pos' \in 1..Len(z)+1
      BY <2>1, <3>6
    <3> HIDE DEF Moment
    <3>9. Underway'
      BY <2>1, <3>7, <3>8 DEF Underway
    <3> QED BY <2>1, <3>9 DEF SuiteInv
  <2> QED BY <2>2, <2>3, GeneratedRuns
<1>2. ASSUME NEW op, At(op), op # "raise",
             content' = content, pattern' = pattern, prog' = prog, status' = status, pos' = pos + 1,
             \A w : Step(prog[pos], Moment, w) /\ Moment \in Machines => w = Moment'
      PROVE  SuiteInv'
  <2>1. status = "running" /\ Underway
    BY <1>2, NotRefused DEF SuiteInv, At
  <2>2. PICK f, q : /\ q = prog /\ Runs(f, q) /\ pos \in 1..Len(q)
                    /\ pos + 1 \in 1..Len(q)+1
                    /\ Moment \in Machines
                    /\ Step(prog[pos], Moment, f[pos+1])
    BY <1>2, <2>1, Standing
  <2>3. f[pos+1] = Moment'
    BY <1>2, <2>2
  <2>4. Underway'
    BY <1>2, <2>2, <2>3, Advances
  <2> QED BY <1>2, <2>1, <2>4 DEF SuiteInv
<1>3. CASE Notify
  <2>1. At("event") /\ content' = content /\ pattern' = pattern /\ prog' = prog /\ status' = status /\ pos' = pos + 1
        /\ Moment' = Moment
    BY <1>3 DEF Notify, Forward, Setup, Moment
  <2>2. \A w : Step(prog[pos], Moment, w) => w = Moment
    BY <2>1 DEF Step, At
  <2> HIDE DEF Moment
  <2> QED BY <1>2, <2>1, <2>2
<1>4. CASE RunScript
  <2>1. At("run") /\ content' = content /\ pattern' = pattern /\ prog' = prog /\ status' = status /\ pos' = pos + 1
        /\ Moment' = Did(Moment, prog[pos][3], prog[pos][4])
    BY <1>4 DEF RunScript, Forward, Setup, Moment, Did
  <2>2. \A w : Step(prog[pos], Moment, w) => w = Did(Moment, prog[pos][3], prog[pos][4])
    BY <2>1 DEF Step, At
  <2> HIDE DEF Moment
  <2> QED BY <1>2, <2>1, <2>2
<1>5. CASE TakeSavepoint
  <2>1. At("savepoint") /\ content' = content /\ pattern' = pattern /\ prog' = prog /\ status' = status /\ pos' = pos + 1
        /\ Moment' = Kept(Moment, prog[pos][2])
    BY <1>5 DEF TakeSavepoint, Forward, Setup, Moment, Kept
  <2>2. \A w : Step(prog[pos], Moment, w) => w = Kept(Moment, prog[pos][2])
    BY <2>1 DEF Step, At
  <2> HIDE DEF Moment
  <2> QED BY <1>2, <2>1, <2>2
<1>6. CASE RollBackToSavepoint
  <2>1. At("rollback_to") /\ content' = content /\ pattern' = pattern /\ prog' = prog /\ status' = status /\ pos' = pos + 1
        /\ Moment' = Back(Moment, Found)
    BY <1>6 DEF RollBackToSavepoint, Forward, Setup, Moment, Back
  <2>2. ASSUME NEW w, Step(prog[pos], Moment, w), Moment \in Machines PROVE w = Back(Moment, Found)
    <3>1. PICK i : Only(Moment.stack, prog[pos][2], i) /\ w = Back(Moment, i)
      BY <2>1, <2>2 DEF Step, At
    <3>2. Moment.stack = stack /\ stack \in Seq(Saved)
      BY <2>2, MachinesAre DEF Moment
    <3> HIDE DEF Moment
    <3> QED BY <3>1, <3>2, FoundIs
  <2> HIDE DEF Moment
  <2> QED BY <1>2, <2>1, <2>2
<1>7. CASE ReleaseSavepoint
  <2>1. At("release") /\ content' = content /\ pattern' = pattern /\ prog' = prog /\ status' = status /\ pos' = pos + 1
        /\ Moment' = Freed(Moment, Found)
    BY <1>7 DEF ReleaseSavepoint, Forward, Setup, Moment, Freed
  <2>2. ASSUME NEW w, Step(prog[pos], Moment, w), Moment \in Machines PROVE w = Freed(Moment, Found)
    <3>1. PICK i : Only(Moment.stack, prog[pos][2], i) /\ w = Freed(Moment, i)
      BY <2>1, <2>2 DEF Step, At
    <3>2. Moment.stack = stack /\ stack \in Seq(Saved)
      BY <2>2, MachinesAre DEF Moment
    <3> HIDE DEF Moment
    <3> QED BY <3>1, <3>2, FoundIs
  <2> HIDE DEF Moment
  <2> QED BY <1>2, <2>1, <2>2
<1>8. ASSUME content' = content, pattern' = pattern, prog' = prog, pos' = pos, Moment' = Moment, Underway,
             status' \in {"running", "passed", "failed"},
             status' = "passed" => status = "passed" \/ pos > Len(prog)
      PROVE  SuiteInv'
  <2>1. PICK f, q : /\ q = prog /\ Runs(f, q) /\ pos \in 1..Len(q)+1 /\ f[pos] = Moment
                    /\ status = "passed" => pos = Len(q)+1
    BY <1>8 DEF Underway
  <2>2. Runs(f, q)'
    BY <1>8, <2>1, RunsStays
  <2>3. Len(q) \in Nat
    BY <2>1 DEF Runs
  <2>4. status' = "passed" => pos = Len(q)+1
    BY <1>8, <2>1, <2>3
  <2> HIDE DEF Moment
  <2>5. Underway'
    BY <1>8, <2>1, <2>2, <2>4 DEF Underway
  <2> QED BY <1>8, <2>5 DEF SuiteInv
<1>9. ASSUME ScriptFails \/ RaiseNoTests PROVE SuiteInv'
  <2>1. /\ content' = content /\ pattern' = pattern /\ prog' = prog /\ pos' = pos /\ Moment' = Moment
        /\ status = "running" /\ status' = "failed"
    BY <1>9 DEF ScriptFails, RaiseNoTests, Setup, At, Moment
  <2>2. CASE Refused
    <3>1. Refused'
      BY <2>1, <2>2 DEF Refused
    <3> QED BY <2>1, <3>1 DEF SuiteInv
  <2> HIDE DEF Moment
  <2>3. CASE Underway
    BY <1>8, <2>1, <2>3
  <2> QED BY <2>1, <2>2, <2>3 DEF SuiteInv
<1>10. CASE Passed
  <2>1. /\ content' = content /\ pattern' = pattern /\ prog' = prog /\ pos' = pos /\ Moment' = Moment
        /\ status = "running" /\ status' = "passed" /\ pos > Len(prog)
    BY <1>10 DEF Passed, Setup, Moment
  <2>2. ~Refused
    <3>1. Len(<< <<"raise">> >>) = 1
      OBVIOUS
    <3> QED BY <2>1, <3>1 DEF Refused
  <2> HIDE DEF Moment
  <2>3. Underway
    BY <2>1, <2>2 DEF SuiteInv
  <2> QED BY <1>8, <2>1, <2>3
<1>11. CASE UNCHANGED vars
  <2>1. /\ content' = content /\ pattern' = pattern /\ prog' = prog /\ pos' = pos /\ Moment' = Moment
        /\ status' = status
    BY <1>11 DEF vars, Moment
  <2>2. CASE status = "loaded"
    <3>1. Loaded'
      BY <2>1, <2>2 DEF SuiteInv, Loaded, Idle
    <3> QED BY <2>1, <2>2, <3>1 DEF SuiteInv
  <2>3. CASE Refused
    <3>1. Refused'
      BY <2>1, <2>3 DEF Refused
    <3> QED BY <2>1, <2>3, <3>1 DEF SuiteInv, Refused
  <2> HIDE DEF Moment
  <2>4. CASE Underway /\ status # "loaded"
    <3>1. status' \in {"running", "passed", "failed"}
      BY <2>1, <2>4 DEF SuiteInv
    <3> QED BY <1>8, <2>1, <2>4, <3>1
  <2> QED BY <2>2, <2>3, <2>4 DEF SuiteInv
<1>12. CASE Over
  BY <1>11, <1>12 DEF Over
<1> QED BY <1>1, <1>3, <1>4, <1>5, <1>6, <1>7, <1>9, <1>10, <1>11, <1>12 DEF Next

(* Whatever was expanded, the transaction is where the script says.        *)
THEOREM SuiteHolds == Spec => []SuiteInv
<1>1. Init => SuiteInv
  <2> SUFFICES ASSUME Init PROVE SuiteInv
    OBVIOUS
  <2>1. Moment = Idle /\ prog = <<>> /\ pos = 1 /\ status = "loaded"
    BY DEF Init, Moment, Idle
  <2> HIDE DEF Moment
  <2> QED BY <2>1 DEF SuiteInv, Loaded
<1>2. SuiteInv /\ [Next]_vars => SuiteInv'
  BY SuiteStep
<1> QED BY <1>1, <1>2, PTL DEF Spec

(* The statement about to run does what Step says.                         *)
LEMMA AtWork ==
  ASSUME SuiteInv, NEW op, At(op), op # "raise"
  PROVE  \E w : Moment \in Machines /\ Step(prog[pos], Moment, w)
<1>1. Underway
  BY NotRefused DEF SuiteInv, At
<1> HIDE DEF Moment
<1> QED BY <1>1, Standing

(* A test starts with the fixtures of its own and of every enclosing       *)
(* directory and nothing else, for any tree of directories, any files in   *)
(* them and any pattern.                                                   *)
THEOREM SuiteFixtures == Spec => []TestSeesItsFixtures
<1>1. ASSUME SuiteInv PROVE TestSeesItsFixtures
  <2> SUFFICES ASSUME At("run"), prog[pos][2] = "test" PROVE world = FixturesAbove(prog[pos][3])
    BY DEF TestSeesItsFixtures
  <2>1. PICK w : Step(prog[pos], Moment, w)
    BY <1>1, AtWork
  <2>2. Moment.world = FixturesAbove(prog[pos][3])
    BY <2>1 DEF Step, At
  <2> QED BY <2>2 DEF Moment
<1> QED BY <1>1, SuiteHolds, PTL

(* A sequence without repetition is as long as it has members.             *)
LEMMA CountOnce ==
  ASSUME NEW R, NEW q \in Seq(R), \A i, j \in 1..Len(q) : q[i] = q[j] => i = j
  PROVE  ToSet(q) = {q[i] : i \in 1..Len(q)} /\ Cardinality(ToSet(q)) = Len(q)
<1> DEFINE n == Len(q)
           S == {q[i] : i \in 1..n}
           f == [i \in 1..n |-> q[i]]
<1>1. n \in Nat /\ DOMAIN q = 1..n
  OBVIOUS
<1>2. ToSet(q) = S
  BY DEF ToSet
<1>3. f \in Bijection(1..n, S)
  <2>1. f \in [1..n -> S]
    OBVIOUS
  <2>2. \A i, j \in 1..n : f[i] = f[j] => i = j
    OBVIOUS
  <2>3. \A y \in S : \E i \in 1..n : f[i] = y
    OBVIOUS
  <2>4. DOMAIN f = 1..n
    OBVIOUS
  <2> HIDE DEF f, S, n
  <2> QED BY <2>1, <2>2, <2>3, <2>4 DEF Bijection, Injection, Surjection, IsInjective
<1>4. ExistsBijection(1..n, S)
  <2> HIDE DEF f, S, n
  <2> QED BY <1>3 DEF ExistsBijection
<1> HIDE DEF S, n
<1>5. Cardinality(S) = n
  BY <1>1, <1>4, FS_CountingElements
<1> QED BY <1>2, <1>5 DEF S, n

(* A suite that passed is complete.                                        *)
LEMMA AtTheEnd ==
  ASSUME SuiteInv, status = "passed"
  PROVE  Complete(Moment) /\ Moment \in Machines
<1>1. Underway
  BY DEF SuiteInv, Refused
<1>2. PICK f, q : /\ q = prog /\ Runs(f, q)
                  /\ pos \in 1..Len(q)+1 /\ f[pos] = Moment
                  /\ status = "passed" => pos = Len(q)+1
  BY <1>1 DEF Underway
<1> HIDE DEF Moment
<1>3. Complete(f[Len(q)+1]) /\ f \in [1..Len(q)+1 -> Machines]
  BY <1>2 DEF Runs, Follows
<1> QED BY <1>2, <1>3

(* A passing suite has run the matching tests and the fixtures they need,  *)
(* each once, and there was a matching test.                               *)
THEOREM SuiteRunsAll == Spec => []PassMeansAllRan
<1>1. ASSUME SuiteInv PROVE PassMeansAllRan
  <2> SUFFICES ASSUME status = "passed"
               PROVE  /\ Wanted # {}
                      /\ ToSet(ran) = Needed
                      /\ Len(ran) = Cardinality(ToSet(ran))
    BY DEF PassMeansAllRan, Needed
  <2>1. Complete(Moment) /\ Moment \in Machines
    BY <1>1, AtTheEnd
  <2>2. Wanted # {} /\ HasRun(Moment, Needed)
    BY <2>1 DEF Complete
  <2>3. Moment.ran = ran /\ ran \in Seq(Written)
    BY <2>1, MachinesAre DEF Moment
  <2> HIDE DEF Moment
  <2>4. /\ {ran[i] : i \in 1..Len(ran)} = Needed
        /\ \A i, j \in 1..Len(ran) : ran[i] = ran[j] => i = j
    BY <2>2, <2>3 DEF HasRun
  <2>5. ToSet(ran) = {ran[i] : i \in 1..Len(ran)} /\ Cardinality(ToSet(ran)) = Len(ran)
    BY <2>3, <2>4, CountOnce
  <2> QED BY <2>2, <2>4, <2>5
<1> QED BY <1>1, SuiteHolds, PTL

(* Every savepoint rolled back to or released is on the stack exactly      *)
(* once, and a passing suite leaves no writes and no savepoint behind.     *)
THEOREM SuiteSavepoints == Spec => []SavepointsResolve
<1>1. ASSUME SuiteInv PROVE SavepointsResolve
  <2>1. ASSUME At("rollback_to") \/ At("release")
        PROVE  Cardinality({i \in DOMAIN stack : stack[i].name = prog[pos][2]}) = 1
    <3>1. PICK w : Moment \in Machines /\ Step(prog[pos], Moment, w)
      BY <1>1, <2>1, AtWork
    <3>2. PICK i : Only(Moment.stack, prog[pos][2], i)
      BY <2>1, <3>1 DEF Step, At
    <3>3. Moment.stack = stack /\ stack \in Seq(Saved)
      BY <3>1, MachinesAre DEF Moment
    <3> HIDE DEF Moment
    <3>4. {j \in DOMAIN stack : stack[j].name = prog[pos][2]} = {i}
      BY <3>2, <3>3, FoundIs
    <3> QED BY <3>4, FS_Singleton
  <2>2. ASSUME status = "passed" PROVE world = {} /\ stack = <<>>
    <3>1. Complete(Moment)
      BY <1>1, <2>2, AtTheEnd
    <3> QED BY <3>1 DEF Complete, Moment
  <2> QED BY <2>1, <2>2 DEF SavepointsResolve
<1> QED BY <1>1, SuiteHolds, PTL
=============================================================================
