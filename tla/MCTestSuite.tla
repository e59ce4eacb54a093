---------------------------- MODULE MCTestSuite ----------------------------
(* A test tree with the shapes that matter: a nested directory whose       *)
(* parent may be empty, a sibling whose name extends another's by a byte   *)
(* below "/", and a second root.                                           *)
EXTENDS TestSuite

T    == <<95>>            \* "__test__", abridged
A    == <<97>>
AB   == <<97, 45>>        \* "a-": sorts before "a/"

Tree     == {<<T>>, <<T, A>>, <<T, A, A>>, <<T, AB>>, <<A, T>>}

Tests == <<"test_a.sql", "test_b.sql">>

Shapes == {{}, {"README.md"}, {"_setup.sql"}, {"test_a.sql"},
           {"_setup.sql", "test_a.sql", "test_b.sql"},
           {"_setup.sql", "_setup.psql", "test_b.sql"}}

Named == {{x \in AllTests : x[2] = "test_b.sql"},
          {x \in AllTests : x[1] = <<T, A, A>>}, {}}
=============================================================================
