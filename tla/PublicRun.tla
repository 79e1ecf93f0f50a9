------------------------------ MODULE PublicRun ------------------------------
(***************************************************************************)
(* The run as the server shows it and as the page reads it.                *)
(*                                                                         *)
(* A row holds what the projection of the active operation looks at:       *)
(*                                                                         *)
(*   rev, schema, status, outcome, stage, hash     as in the snapshot      *)
(*   error      operations[0].brickkenError                                *)
(*   tx         operations[0].unsignedTransaction                          *)
(*   attempts   how many preparations schema 4.0 counts                    *)
(*   prompt     walletPromptAuthorization is set                           *)
(*   unspent    its providerInvocation is PROVEN_NOT_INVOKED               *)
(*   remaining  reservations of tracking that are left                     *)
(*                                                                         *)
(* The phase is TOKENIZATION and the plan executable and approved; lengths *)
(* and formats of the DTO are left out.                                    *)
(***************************************************************************)
EXTENDS ChainReads

\* deriveExecutionPreparationProjection
Preparation(r) ==
    CASE r.status = "PREPARING" /\ r.stage = "NOT_STARTED" -> "READY_FOR_PREPARATION"
      [] r.status = "PREPARING" /\ r.stage \in {"PREPARE_INTENT", "REPREPARE_INTENT"} ->
             "PREPARATION_PENDING"
      [] r.status = "AWAITING_WALLET" /\ r.stage \in {"PREPARED", "WALLET_PROMPT_RECORDED"} ->
             "PREPARED_FOR_REVIEW"
      [] r.status = "AWAITING_WALLET" /\ r.stage = "PREPARED_STALE" -> "PREPARED_STALE"
      [] r.status = "RECONCILIATION_REQUIRED" /\ r.stage = "PREPARE_UNKNOWN" ->
             "PREPARATION_UNCONFIRMED"
      [] r.outcome = "FAILED" /\ r.stage \in {"REJECTED", "PREPARE_UNKNOWN"} ->
             "PREPARATION_FAILED"
      [] OTHER -> None

\* The interrupted preparation keeps its error while the run is ready again.
FailureCode(r) ==
    CASE Preparation(r) = "READY_FOR_PREPARATION" -> r.error
      [] Preparation(r) = "PREPARATION_UNCONFIRMED" ->
             IF r.error = None THEN "PREPARATION_UNCONFIRMED" ELSE r.error
      [] Preparation(r) = "PREPARATION_FAILED" ->
             IF r.error = None THEN "PREPARATION_REFUSED" ELSE r.error
      [] OTHER -> None

\* preparedReview does not throw.
Reviewable(tx) == Projects(tx) /\ tx.chain = "SEPOLIA" /\ tx.from = "SIGNER"

\* assertExecutionProjection, and the review in front of it: anything else is a
\* PersistenceDataError, and the answer a 503.
Readable(r) ==
    /\ Preparation(r) = "PREPARED_FOR_REVIEW" => Reviewable(r.tx)
    /\ (FailureCode(r) # None) =
           (Preparation(r) \in {"PREPARATION_FAILED", "PREPARATION_UNCONFIRMED"})

StaleReprepareEligible(r) ==
    r.stage = "PREPARED_STALE" /\ r.hash = None /\ ~r.prompt /\ r.attempts < 2

ExecuteEligibleFaultCountsLate(r) ==
    /\ r.outcome = None /\ r.status \in {"PREPARING", "AWAITING_WALLET"}
    /\ r.hash = None
    /\ \/ r.stage \in {"NOT_STARTED", "PREPARED"}
       \/ r.stage = "PREPARED_STALE" /\ ~r.prompt /\ r.attempts <= 2
       \/ r.schema = "4.0" /\ r.stage = "WALLET_PROMPT_RECORDED" /\ r.unspent

\* projectedRun: executeEligible
ExecuteEligible(r) ==
    /\ r.outcome = None /\ r.status \in {"PREPARING", "AWAITING_WALLET"}
    /\ r.hash = None
    /\ \/ r.stage \in {"NOT_STARTED", "PREPARED"}
       \/ StaleReprepareEligible(r)
       \/ r.schema = "4.0" /\ r.stage = "WALLET_PROMPT_RECORDED" /\ r.unspent

\* projectPublicRun
Projection(r) ==
    [rev |-> r.rev, status |-> r.status, outcome |-> r.outcome, stage |-> r.stage,
     hash |-> r.hash, executable |-> ExecuteEligible(r), remaining |-> r.remaining,
     review |-> IF Preparation(r) = "PREPARED_FOR_REVIEW" THEN r.tx ELSE None]

\* planningRun: canCancel
CanCancel(v) ==
    v.outcome = None /\ v.status # "RECONCILIATION_REQUIRED" /\ v.hash = None

\* shouldPollVerification; the fee mismatch that canTrack excludes besides needs
\* RECONCILIATION_REQUIRED, which this excludes already.
CanTrack(v) ==
    /\ v.outcome = None /\ v.status \notin {"RECONCILIATION_REQUIRED", "FAILED"}
    /\ v.hash # None /\ v.stage # "READ_BACK_VERIFIED"

-----------------------------------------------------------------------------
(* What an error becomes.  "LOST" stands for a request without an answer.  *)

\* The gateway's post.  The server's EXECUTION_AUTHORIZATION_UNAVAILABLE does not
\* arise while execution is enabled.
GatewayCode(route, code) ==
    CASE code = "LOST" ->
             IF route = "execute" THEN "AUTHORIZATION_RESPONSE_UNKNOWN" ELSE "SERVER_REJECTION"
      [] code \in {"AUTHORIZATION_POLICY_REFUSED", "FRESHNESS_CHECK_FAILED"} ->
             IF route = "execute" THEN code ELSE "SERVER_REJECTION"
      [] code \in {"REVISION_CONFLICT", "INVALID_REQUEST", "UPSTREAM_RATE_LIMITED",
                   "UPSTREAM_SERVER_ERROR"} -> code
      [] OTHER -> "SERVER_REJECTION"

\* executeSendAuthorizedEnvelopeFromUserAction, before the envelope.
BoundaryCode(code) ==
    CASE code = "AUTHORIZATION_POLICY_REFUSED" -> "SEMANTIC_POLICY_REFUSED"
      [] code = "REVISION_CONFLICT" -> "AUTHORIZATION_STATE_CHANGED"
      [] code \in {"FRESHNESS_CHECK_FAILED", "AUTHORIZATION_RESPONSE_UNKNOWN"} -> code
      [] OTHER -> "AUTHORIZATION_REQUEST_REFUSED"

PageCode(route, code) ==
    IF route = "execute" THEN BoundaryCode(GatewayCode(route, code)) ELSE GatewayCode(route, code)

DetailFaultForgetsUnknown(code) ==
    [submission |-> "NO",
     retry |-> code \notin {"SEMANTIC_POLICY_REFUSED", "INVALID_REQUEST", "REVISION_CONFLICT"}]

\* classifyWalletExecutionErrorDetail: what the page says of a failed click, and
\* whether it offers the button again.  reprepareEligible is never false at a
\* click: the run would not be executable.
Detail(code) ==
    [submission |-> IF code = "BROADCAST_OUTCOME_UNKNOWN" THEN "UNKNOWN" ELSE "NO",
     retry |-> code \notin {"BROADCAST_OUTCOME_UNKNOWN", "SEMANTIC_POLICY_REFUSED",
                            "INVALID_REQUEST", "REVISION_CONFLICT"}]

\* classifyWalletExecutionFailure and reduceWalletExecutionUi.  `locked` and
\* `inProgress` follow from the state.
ModelAfter(code) ==
    CASE code = "BROADCAST_OUTCOME_UNKNOWN" -> "BROADCAST_UNCERTAIN"
      [] code = "SEMANTIC_POLICY_REFUSED" -> "AUTHORIZATION_POLICY_REFUSED"
      [] code = "FRESHNESS_CHECK_FAILED" -> "FRESHNESS_CHECK_FAILED"
      [] code = "WALLET_NOT_READY" -> "READY"
      [] OTHER -> "DURABLE_REFRESH_REQUIRED"

RefreshAfter(code) == code \notin {"SEMANTIC_POLICY_REFUSED", "WALLET_NOT_READY"}

LockingStates == {"BROADCAST_UNCERTAIN", "AUTHORIZATION_POLICY_REFUSED",
                  "DURABLE_REFRESH_REQUIRED", "HASH_RECORDED"}

\* isLocked: a recorded hash the view does not show yet locks nothing.
Locked(model, v) ==
    model \in LockingStates /\ ~(v.hash = None /\ model = "HASH_RECORDED")

\* START: only READY leads to the prompt.
ModelStarted(model) == IF model = "READY" THEN "PROMPT_IN_PROGRESS" ELSE model

=============================================================================
