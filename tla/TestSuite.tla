----------------------------- MODULE TestSuite -----------------------------
(***************************************************************************)
(* CALL pgmi_test(): the test directories the loader registers, the plan   *)
(* pgmi_test_plan orders by string keys, the savepoint script              *)
(* pgmi_test_generate writes from it, and that script run by PostgreSQL    *)
(* (savepoint stack, external) inside the deploy transaction.              *)
(*                                                                         *)
(* A directory is the sequence of its path segments, a segment the         *)
(* sequence of its bytes: the plan's order is a byte order on paths.       *)
(***************************************************************************)
EXTENDS Naturals, Sequences, SequencesExt

CONSTANTS
  Dirs,        \* candidate test directories, all below some __test__
  TestFiles,   \* names of test files, in byte order
  Contents,    \* sets of files a directory may hold
  Patterns     \* what pgmi_test(pattern) may match: sets of <<dir, file>>

Fixtures  == {"_setup.sql", "_setup.psql"}
Files     == ToSet(TestFiles) \cup Fixtures \cup {"README.md"}
AllTests  == Dirs \X ToSet(TestFiles)

Dot == 46
Slash == 47
Tilde == 126
Separator == 1

(* A segment holds no slash and not the byte 1, with which the plan joins  *)
(* its sort keys; the code trusts file names not to.                       *)
ASSUME DirsAssumption ==
  /\ IsFiniteSet(Dirs)
  /\ \A d \in Dirs :
       /\ d \in Seq(Seq(Nat)) /\ d # <<>>
       /\ \A i \in DOMAIN d : \A j \in DOMAIN d[i] : d[i][j] \notin {Separator, Slash}

ASSUME TestFilesAssumption ==
  /\ TestFiles \in Seq(STRING)
  /\ \A i, j \in DOMAIN TestFiles : TestFiles[i] = TestFiles[j] => i = j
  /\ \A i \in DOMAIN TestFiles : TestFiles[i] \notin Fixtures

ASSUME ContentsAreFiles == Contents \subseteq SUBSET Files
ASSUME PatternsMatchTests == Patterns \subseteq SUBSET AllTests

VARIABLES
  content,     \* files of each directory
  pattern,     \* the tests the pattern matches; AllTests when it is NULL
  status,      \* "loaded", "running", "passed", "failed"
  prog,        \* the generated script
  pos,         \* its next statement
  world,       \* what the scripts run so far have left in the transaction
  stack,       \* savepoints, oldest first, with the state each would restore
  ran          \* history: scripts executed, in order

vars == <<content, pattern, status, prog, pos, world, stack, ran>>

----------------------------------------------------------------------------
(* Loader.insertTestDirectories                                            *)

(* Only a directory that directly holds a file is registered.              *)
Registered == {d \in Dirs : content[d] # {}}
NoDir == <<>>

Parent_Immediate(d) ==
  IF Front(d) \in Registered THEN Front(d) ELSE NoDir

(* findParentTestDirectory: the nearest registered ancestor.               *)
Parent(d) ==
  LET up == {i \in 1..Len(d) - 1 : SubSeq(d, 1, i) \in Registered}
  IN  IF up = {} THEN NoDir ELSE SubSeq(d, 1, Max(up))

----------------------------------------------------------------------------
(* pgmi_test_plan                                                          *)

Matching(d) == {f \in content[d] \cap ToSet(TestFiles) : <<d, f>> \in pattern}

(* The chain of parents of a directory, root first, itself last.           *)
Ancestry ==
  LET anc[d \in Registered] ==
        IF Parent(d) = NoDir THEN <<d>> ELSE Append(anc[Parent(d)], d)
  IN  anc

(* pgmi_has_tests looks down the whole subtree.                            *)
HasTests(anc, d) ==
  \E e \in Registered : Matching(e) # {} /\ Contains(anc[e], d)

PathBytes(d) ==
  LET bytes[i \in 0..Len(d)] ==
        IF i = 0 THEN <<Dot, Slash>> ELSE bytes[i-1] \o d[i] \o <<Slash>>
  IN  bytes[Len(d)]

(* array_to_string(ancestry || sentinel, E'\x01'): '' sorts before any     *)
(* child, '~' after all of them.                                           *)
SortKey(chain, exit) ==
  LET bytes[i \in 0..Len(chain)] ==
        IF i = 0 THEN <<>> ELSE bytes[i-1] \o PathBytes(chain[i]) \o <<Separator>>
  IN  bytes[Len(chain)] \o (IF exit THEN <<Tilde>> ELSE <<>>)

(* COLLATE "C".                                                            *)
ByteLess(s, t) ==
  \/ /\ Len(s) < Len(t)
     /\ \A i \in 1..Len(s) : s[i] = t[i]
  \/ \E i \in 1..Len(s) :
       i <= Len(t) /\ s[i] < t[i] /\ \A j \in 1..i-1 : s[j] = t[j]

(* An entry and an exit of every directory with tests, by row number.      *)
Visits ==
  LET anc == Ancestry
      visits == {d \in Registered : HasTests(anc, d)} \X BOOLEAN
      key == [v \in visits |-> SortKey(anc[v[1]], v[2])]
      number == [v \in visits |-> Cardinality({w \in visits : ByteLess(key[w], key[v])}) + 1]
  IN  [k \in 1..Cardinality(visits) |-> CHOOSE v \in visits : number[v] = k]

(* The members of S in the order of seq.                                   *)
Pick(seq, S) ==
  LET kept[i \in 0..Len(seq)] ==
        IF i = 0 THEN <<>>
        ELSE IF seq[i] \in S THEN Append(kept[i-1], seq[i]) ELSE kept[i-1]
  IN  kept[Len(seq)]

(* Entry: fixtures, in no particular order, then the matching tests by     *)
(* filename.  Exit: teardown.                                              *)
StepsOf(dir, exit) ==
  LET step(type, f) == [type |-> type, dir |-> dir, file |-> f]
      fixtures == SetToSeq(content[dir] \cap Fixtures)
      tests == Pick(TestFiles, Matching(dir))
  IN  IF exit
      THEN <<step("teardown", "")>>
      ELSE [i \in 1..Len(fixtures) + Len(tests) |->
              IF i <= Len(fixtures) THEN step("fixture", fixtures[i])
                                    ELSE step("test", tests[i - Len(fixtures)])]

----------------------------------------------------------------------------
(* pgmi_test_generate                                                      *)

Event(e, s)    == <<"event", e, s.dir, s.file>>
RunSource(s)   == <<"run", s.type, s.dir, s.file>>
Savepoint(n)   == <<"savepoint", n>>
RollbackTo(n)  == <<"rollback_to", n>>
ReleaseSp(n)   == <<"release", n>>

(* What the generator carries: savepoint and test counters, and the first  *)
(* savepoint taken for a directory and for its tests (0: none), as the     *)
(* array lookups return it.                                                *)
Start == [sql |-> << <<"event", "suite_start", NoDir, "">> >>, n |-> 0, tests |-> 0,
          dirSp |-> [d \in Dirs |-> 0], testSp |-> [d \in Dirs |-> 0]]

FirstOf(f, d, n) == IF f[d] = 0 THEN [f EXCEPT ![d] = n] ELSE f

AddFixture(g, s) ==
  [g EXCEPT !.n = @ + 1,
            !.dirSp = FirstOf(@, s.dir, g.n + 1),
            !.sql = @ \o <<Savepoint(g.n + 1), Event("fixture_start", s),
                           RunSource(s), Event("fixture_end", s)>>]

AddTest(g, s) ==
  LET needDir == g.dirSp[s.dir] = 0
      needTest == g.testSp[s.dir] = 0
      dirN == g.n + (IF needDir THEN 1 ELSE 0)
      testN == dirN + (IF needTest THEN 1 ELSE 0)
      sp == FirstOf(g.testSp, s.dir, testN)
  IN  [g EXCEPT !.n = testN,
                !.tests = @ + 1,
                !.dirSp = FirstOf(@, s.dir, dirN),
                !.testSp = sp,
                !.sql = @ \o (IF needDir THEN <<Savepoint(dirN)>> ELSE <<>>)
                          \o (IF needTest THEN <<Savepoint(testN)>> ELSE <<>>)
                          \o <<Event("test_start", s), RunSource(s), Event("test_end", s),
                               Event("rollback", s), RollbackTo(sp[s.dir])>>]

AddTeardown_ReleaseFirst(g, s) ==
  [g EXCEPT !.sql = @ \o <<Event("teardown_start", s)>>
                      \o (IF g.dirSp[s.dir] # 0
                          THEN <<ReleaseSp(g.dirSp[s.dir]), RollbackTo(g.dirSp[s.dir])>>
                          ELSE <<>>)
                      \o <<Event("teardown_end", s)>>]

AddTeardown(g, s) ==
  [g EXCEPT !.sql = @ \o <<Event("teardown_start", s)>>
                      \o (IF g.dirSp[s.dir] # 0
                          THEN <<RollbackTo(g.dirSp[s.dir]), ReleaseSp(g.dirSp[s.dir])>>
                          ELSE <<>>)
                      \o <<Event("teardown_end", s)>>]

Add(g, s) ==
  CASE s.type = "fixture"  -> AddFixture(g, s)
    [] s.type = "test"     -> AddTest(g, s)
    [] s.type = "teardown" -> AddTeardown(g, s)

AddSteps(g, steps) ==
  LET add[i \in 0..Len(steps)] == IF i = 0 THEN g ELSE Add(add[i-1], steps[i])
  IN  add[Len(steps)]

(* The loop over the rows of the plan, one visit after the other.          *)
AddPlan(visits) ==
  LET add[k \in 0..Len(visits)] ==
        IF k = 0 THEN Start
        ELSE AddSteps(add[k-1], StepsOf(visits[k][1], visits[k][2]))
  IN  add[Len(visits)]

SuiteEnd == <<"event", "suite_end", NoDir, "">>

Generated_EmptyPasses == Append(AddPlan(Visits).sql, SuiteEnd)

(* A plan without a test becomes a script that raises.                     *)
Generated ==
  LET g == AddPlan(Visits)
  IN  IF g.tests = 0 THEN << <<"raise">> >> ELSE Append(g.sql, SuiteEnd)

----------------------------------------------------------------------------
Init ==
  /\ content \in [Dirs -> Contents]
  /\ pattern \in Patterns \cup {AllTests}
  /\ status = "loaded"
  /\ prog = <<>>
  /\ pos = 1
  /\ world = {}
  /\ stack = <<>>
  /\ ran = <<>>

(* Pipeline.Process replaces the macro by the generated script.            *)
Expand ==
  /\ status = "loaded"
  /\ status' = "running"
  /\ prog' = Generated
  /\ UNCHANGED <<content, pattern, pos, world, stack, ran>>

At(op) == status = "running" /\ pos <= Len(prog) /\ prog[pos][1] = op
Forward == pos' = pos + 1
Setup == <<content, pattern, prog>>

Notify ==
  /\ At("event")
  /\ Forward
  /\ UNCHANGED <<Setup, status, world, stack, ran>>

(* pgmi_run_test_source; every script writes something.                    *)
RunScript ==
  /\ At("run")
  /\ Forward
  /\ world' = world \cup {<<prog[pos][3], prog[pos][4]>>}
  /\ ran' = Append(ran, <<prog[pos][3], prog[pos][4]>>)
  /\ UNCHANGED <<Setup, status, stack>>

(* The script raises: the transaction is aborted, nothing more runs.       *)
ScriptFails ==
  /\ At("run")
  /\ status' = "failed"
  /\ UNCHANGED <<Setup, pos, world, stack, ran>>

RaiseNoTests ==
  /\ At("raise")
  /\ status' = "failed"
  /\ UNCHANGED <<Setup, pos, world, stack, ran>>

TakeSavepoint ==
  /\ At("savepoint")
  /\ Forward
  /\ stack' = Append(stack, [name |-> prog[pos][2], world |-> world])
  /\ UNCHANGED <<Setup, status, world, ran>>

(* The newest savepoint of that name; 0 when PostgreSQL knows none.        *)
Found ==
  LET named == {i \in DOMAIN stack : stack[i].name = prog[pos][2]}
  IN  IF named = {} THEN 0 ELSE Max(named)

RollBackToSavepoint ==
  /\ At("rollback_to")
  /\ Found # 0
  /\ Forward
  /\ world' = stack[Found].world
  /\ stack' = SubSeq(stack, 1, Found)
  /\ UNCHANGED <<Setup, status, ran>>

ReleaseSavepoint ==
  /\ At("release")
  /\ Found # 0
  /\ Forward
  /\ stack' = SubSeq(stack, 1, Found - 1)
  /\ UNCHANGED <<Setup, status, world, ran>>

Passed ==
  /\ status = "running" /\ pos > Len(prog)
  /\ status' = "passed"
  /\ UNCHANGED <<Setup, pos, world, stack, ran>>

Over ==
  /\ status \in {"passed", "failed"}
  /\ UNCHANGED vars

Next ==
  \/ Expand \/ Notify \/ RunScript \/ ScriptFails \/ RaiseNoTests
  \/ TakeSavepoint \/ RollBackToSavepoint \/ ReleaseSavepoint
  \/ Passed \/ Over

Spec == Init /\ [][Next]_vars

----------------------------------------------------------------------------
(* Properties                                                              *)

Wanted == {x \in AllTests : x[2] \in Matching(x[1])}

(* Fixtures of the directories on the path from the root to d, whatever    *)
(* directories in between hold no file.                                    *)
FixturesAbove(d) ==
  {x \in Dirs \X Fixtures : x[2] \in content[x[1]] /\ IsPrefix(x[1], d)}

(* When a test starts, the transaction holds the fixtures of its own and   *)
(* of every enclosing directory and nothing else: no other test's writes,  *)
(* no sibling's fixture, whatever directories are empty or filtered out.   *)
TestSeesItsFixtures ==
  At("run") /\ prog[pos][2] = "test" => world = FixturesAbove(prog[pos][3])

(* A passing suite has run exactly the matching tests, each once, and each *)
(* fixture they need once; a suite that matches nothing does not pass.     *)
PassMeansAllRan ==
  status = "passed" =>
    /\ Wanted # {}
    /\ ToSet(ran) = Wanted \cup UNION {FixturesAbove(x[1]) : x \in Wanted}
    /\ Len(ran) = Cardinality(ToSet(ran))

(* Every savepoint the script names exists, exactly once, when the name is *)
(* used: directories that were pruned, hold no fixture or hold two of them *)
(* never make PostgreSQL miss a savepoint or take another one for it.  A   *)
(* passing suite leaves nothing in the deploy transaction: no script's     *)
(* writes, no savepoint.                                                   *)
SavepointsResolve ==
  /\ At("rollback_to") \/ At("release") =>
       Cardinality({i \in DOMAIN stack : stack[i].name = prog[pos][2]}) = 1
  /\ status = "passed" => world = {} /\ stack = <<>>
=============================================================================
