----------------------------- MODULE ChainReads ------------------------------
(***************************************************************************)
(* What the server concludes from a node.                                  *)
(*                                                                         *)
(* A reading is one evaluation of the signer and the latest block:         *)
(*   answers   every call came back with what was asked for                *)
(*   nonce     the signer's pending nonce                                  *)
(*   balance   the signer's pending balance                                *)
(*   baseFee   of the latest block, or None before EIP-1559                *)
(*   clock     the timestamp of the latest block                           *)
(*                                                                         *)
(* `chain` is what the node shows of the reviewed protocol (SendPolicy).   *)
(* How a call is retried and how its answer is parsed is left out: it ends *)
(* in an answer or in none.                                                *)
(***************************************************************************)
EXTENDS Brickken

RequiredBalance(tx) == tx.value + Caps(tx).network

\* evaluatePreparedFreshness of a prepared operation.
FreshnessOutcome(tx, r) ==
    IF ~r.answers \/ r.baseFee = None THEN "RPC_UNAVAILABLE"
    ELSE IF tx.call = "OTHER" THEN "MALFORMED_PRICE_REPORT_CALLDATA"
    ELSE IF Expired(tx, r.clock) THEN "PRICE_REPORT_EXPIRED"
    ELSE IF TooClose(tx, r.clock) THEN "PRICE_REPORT_TOO_CLOSE_TO_EXPIRY"
    ELSE IF r.nonce # tx.nonce THEN "STALE_NONCE"
    ELSE IF r.balance < RequiredBalance(tx) THEN "INSUFFICIENT_BALANCE"
    ELSE IF r.baseFee > Caps(tx).maxFee THEN "FEE_CAP_EXCEEDED_BY_BASE_FEE"
    ELSE "ELIGIBLE"

\* The outcomes that another preparation can mend.
MarksStale(outcome) ==
    outcome \in {"STALE_NONCE", "PRICE_REPORT_EXPIRED", "PRICE_REPORT_TOO_CLOSE_TO_EXPIRY"}

-----------------------------------------------------------------------------
(* preflightWalletAuthorization: freshness, protocol, policy, freshness.   *)
(* `evaluation` is the last freshness, `detail` what the caller is told.   *)

Preflight(tx, before, chain, after) ==
    LET first == FreshnessOutcome(tx, before)
        last == FreshnessOutcome(tx, after)
        verdict == ProtocolVerdict(tx, chain)
    IN
    IF first # "ELIGIBLE"
    THEN [reason |-> "FRESHNESS_CHECK_FAILED", detail |-> first, evaluation |-> first]
    ELSE IF verdict = "STALE"
    THEN [reason |-> "FRESHNESS_CHECK_FAILED", detail |-> "PRICE_REPORT_EXPIRED",
          evaluation |-> first]
    ELSE IF verdict = "REFUSED" \/ ~SemanticallyAllowed(tx)
    THEN [reason |-> "AUTHORIZATION_DENIED", detail |-> None, evaluation |-> first]
    ELSE IF last # "ELIGIBLE"
    THEN [reason |-> "FRESHNESS_CHECK_FAILED", detail |-> last, evaluation |-> last]
    ELSE [reason |-> "AUTHORIZED", detail |-> None, evaluation |-> last]

-----------------------------------------------------------------------------
(* After the wallet: the mined transaction and the event it left *)

\* compareOnchainTransaction.  The base fee is read for type 0 only; None when
\* that read failed, which the comparison does not tell from zero.
Compare(approved, mined, baseFee) ==
    IF Identity(mined) # Identity(approved) THEN "MISMATCH"
    ELSE IF FeeCompliant(Caps(approved), mined, baseFee) THEN "WITHIN_ENVELOPE"
    ELSE "POLICY_VIOLATION"

\* deriveTokenizationEventEvidence: a receipt whose logs name exactly one new
\* token.  `events` are the factory's NewTokenization logs in it.
TokenBound(logs) ==
    /\ logs.to = "FACTORY" /\ logs.implementation = "REVIEWED"
    /\ \E e \in logs.events :
           /\ logs.events = {e}
           /\ e.included   \* names the receipt's transaction and block
           /\ e.token # e.escrow /\ "FACTORY" \notin {e.token, e.escrow}

=============================================================================
