--------------------------- MODULE MCExecutionRun ---------------------------
(***************************************************************************)
(* ExecutionRun on small instances.  One configuration runs the            *)
(* TOKENIZE_ONLY scope with every source of variety (two hashes, two       *)
(* inclusions, two status texts); the other runs all three operations with *)
(* one of each, because what one operation leaves behind is all the next   *)
(* ones can see of it.                                                     *)
(***************************************************************************)
EXTENDS ExecutionRunInv, TLC

Symmetry == Permutations(Hashes) \cup Permutations(Blocks)

=============================================================================
