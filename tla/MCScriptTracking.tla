-------------------------- MODULE MCScriptTracking --------------------------
(* Two paths with the same base name and a file that is no SQL, in the     *)
(* byte order ./a/x.sql, ./b/x.sql, ./notes.md, then a key 3, the key 4   *)
(* that scaffolding generates from the base name, and a key 5.             *)
EXTENDS ScriptTracking, TLC

CONSTANTS d1, d2

MCDeployers    == {d1, d2}
MCPaths        == {0, 1, 2}
MCSqlPaths     == {0, 1}
MCGeneratedKey == [p \in MCPaths |-> 4]

(* One identity as a one-time and as an idempotent script, with keys in    *)
(* descending order and repeated; another identity; no metadata; a block   *)
(* that does not validate.                                                 *)
MCDrafts ==
  {File(Meta(ExplicitId(1), FALSE, <<5, 3>>), "v1"),
   File(Meta(ExplicitId(1), TRUE, <<5, 3, 3>>), "v2"),
   File(Meta(ExplicitId(2), FALSE, <<>>), "v1"),
   File(NoMeta, "v1"),
   File(Malformed, "v1")}

MCProjects == {[p \in MCPaths |-> IF p = 0 THEN f ELSE Absent] : f \in MCDrafts}

Symmetry == Permutations(MCDeployers)
=============================================================================
