---------------------------- MODULE MCSubmission ----------------------------
(***************************************************************************)
(* Submission on small instances: two requests and two tabs are the least  *)
(* that can race for everything there is to race for, and two faults are   *)
(* one more than the page is built to survive.                             *)
(***************************************************************************)
EXTENDS SubmissionInv, TLC

Symmetry == Permutations(Requests) \cup Permutations(Tabs)

=============================================================================
