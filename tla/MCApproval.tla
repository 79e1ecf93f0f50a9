----------------------------- MODULE MCApproval ------------------------------
(***************************************************************************)
(* One run, one page, one announced wallet beside the legacy one, any      *)
(* number of attempts.  The section may have a second approval under way   *)
(* while the first, given up, has still not reached the server.            *)
(***************************************************************************)
EXTENDS ApprovalInv

MCMaxPosts == [s \in Surfaces |-> IF s = "SECTION" THEN 2 ELSE 1]
=============================================================================
