----------------------------- MODULE MCTracking -----------------------------
(***************************************************************************)
(* Tracking on small instances: two polls are the least that can conflict, *)
(* two blocks the least between which an inclusion can move.  The results  *)
(* are the cases of an inclusion that moves, up to renaming the blocks.    *)
(***************************************************************************)
EXTENDS TrackingInv, TLC

CONSTANTS b1, b2

Lost == b1 :> "EFFECTIVE" @@ b2 :> "REVERTED"

Gained == b1 :> "INEFFECTIVE" @@ b2 :> "EFFECTIVE"

Case(operations, identities, results, registries) ==
    [operation : operations, identity : identities, result : results, registry : registries]

\* What Brickken has on record is read of an approved transaction only, and the
\* operations differ at the read-back only.  That Brickken agrees makes no
\* difference to its not answering.
Cases ==
    Case({"TOKENIZE"}, Comparisons, {Lost, Gained}, {"OTHER"})
    \cup Case({"TOKENIZE"}, {"WITHIN_ENVELOPE"}, {Gained}, {"CONTRADICTS"})
    \cup Case({"WHITELIST", "MINT"}, {"WITHIN_ENVELOPE"}, {Gained}, {"OTHER"})

\* A mint that had its effect, and that Brickken agrees with.
MintDone == Case({"MINT"}, {"WITHIN_ENVELOPE"}, {Lost}, {"AGREES"})

=============================================================================
