---------------------------- MODULE MCPipelines ----------------------------
(***************************************************************************)
(* Pipelines for TLC: the tasks of one pipeline are alike.                 *)
(***************************************************************************)
EXTENDS Pipelines, TLC

Alike == Permutations(Depin) \cup Permutations(Game) \cup Permutations(Social)
=============================================================================
