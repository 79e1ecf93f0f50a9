---------------------------- MODULE ExecutionRun ----------------------------
(***************************************************************************)
(* The durable state of one Edict execution run and every write the server *)
(* can commit to it.                                                       *)
(*                                                                         *)
(* A run is one database row.  A request reads the row, computes the next  *)
(* snapshot with a pure transition function and writes it back with a      *)
(* compare-and-swap on `revision`.  A request that lost a race writes      *)
(* nothing, so a committed write is atomic: one action below is one        *)
(* committed write, with the guard of the service method that computes it  *)
(* and of the transition function the method calls.                        *)
(*                                                                         *)
(* Tracking strings several writes together.  A poll checks once, when it  *)
(* enters, that the run may still be tracked, and then walks through five  *)
(* steps, each a write guarded by what that step reads.  At any moment the *)
(* next write can come from a poll that has just entered on the current    *)
(* snapshot, or from the poll that made it; `pollStep` remembers the step  *)
(* of the latter, which no longer checks what entering polls check.        *)
(*                                                                         *)
(* A run starts with schema 2.0 (plan, approval, first preparation), is    *)
(* promoted to schema 4.0 when the prepared TOKENIZE transaction goes to   *)
(* the wallet, and stays there.                                            *)
(***************************************************************************)
EXTENDS Naturals, Sequences, FiniteSets

CONSTANTS
    Scope,            \* plan.executionScope: "TOKENIZE_ONLY" or "LEGACY_FULL"
    Hashes,           \* transaction hashes a browser may report
    Blocks,           \* inclusions (block hash, number, index) a receipt may name
    StatusTexts,      \* status texts Brickken may report: pending, success, rejected
    MaxPreparations,  \* Brickken preparations per operation (2 in the code)
    MaxCorrelations,  \* correlation authorizations per operation (3 in the code)
    TrackBudget,      \* tracking reservations per run (30 in the code)
    None

ASSUME ScopeAssumption == Scope \in {"TOKENIZE_ONLY", "LEGACY_FULL"}
ASSUME BudgetAssumption ==
    /\ MaxPreparations \in Nat \ {0}
    /\ MaxCorrelations \in Nat \ {0}
    /\ TrackBudget \in Nat

Kinds == {"TOKENIZE", "WHITELIST", "MINT"}

PhaseOf == [TOKENIZE |-> "TOKENIZATION", WHITELIST |-> "WHITELIST", MINT |-> "MINT"]

Phases == {"PLAN", "TOKENIZATION", "WHITELIST", "MINT", "VERIFICATION"}

Statuses == {"AWAITING_APPROVAL", "PREPARING", "AWAITING_WALLET", "BROADCAST_RECORDED",
             "CONFIRMING", "SUCCEEDED", "FAILED", "RECONCILIATION_REQUIRED"}

Outcomes == {"FAILED", "VERIFICATION_FAILED", "CANCELLED"}

\* Stages an operation reaches before the wallet holds send authority.
PreparationStages == {"NOT_STARTED", "PREPARE_INTENT", "PREPARED", "PREPARED_STALE",
                      "REPREPARE_INTENT", "PREPARE_UNKNOWN", "REJECTED"}

\* Stages the codec accepts only with a prompt whose authority was released.
ReleasedStages == {"BROADCAST_UNKNOWN", "BROADCAST_HASH_PERSISTED",
                   "RPC_TRANSACTION_VERIFIED", "POLICY_VIOLATION_ONCHAIN",
                   "RPC_TRANSACTION_RECONCILIATION_REQUIRED",
                   "BRICKKEN_CORRELATION_PENDING", "BRICKKEN_CORRELATED",
                   "READ_BACK_VERIFIED"}

PromptStages == {"WALLET_PROMPT_RECORDED", "WALLET_REJECTED"} \cup ReleasedStages

Stages == PreparationStages \cup PromptStages

ReceiptStages == {"RPC_TRANSACTION_VERIFIED", "POLICY_VIOLATION_ONCHAIN",
                  "RPC_TRANSACTION_RECONCILIATION_REQUIRED",
                  "BRICKKEN_CORRELATION_PENDING", "BRICKKEN_CORRELATED"}

AttemptStates == {"PREPARED", "STALE", "REPREPARE_INTENT", "PREPARE_UNKNOWN", "REFUSED"}

Prompts == [invocation : {"PROVEN_NOT_INVOKED", "INVOKED_OR_UNKNOWN"},
            attempt : 1..MaxPreparations]

\* rpcTransactionEvidence: absent, immutable fields differ, fees outside the
\* approved envelope, or accepted.
Comparisons == {"NONE", "MISMATCH", "POLICY_VIOLATION", "WITHIN_ENVELOPE"}

\* The codec and finality.ts keep reconciliationStatus REQUIRED equivalent to
\* identityStatus MISMATCH, so one field stands for both.
Receipts == [execution : {"SUCCESS", "REVERTED"}, identity : {"MATCH", "MISMATCH"},
             finality : {"INCLUDED", "FINALIZED"}, block : Blocks]

\* The two uncertain results of an attempt are treated alike everywhere.
Correlations == [attempt : 1..MaxPreparations, hash : Hashes,
                 lifecycle : {"PENDING", "CORRELATED"}, count : 1..MaxCorrelations,
                 last : {"AUTHORIZED", "UNCERTAIN"}]

\* None stands for null: no value of a nullable field.
ASSUME NoneAssumption ==
    None \notin Hashes \cup StatusTexts \cup Outcomes
                \cup Prompts \cup Receipts \cup Correlations

VARIABLES
    schema,        \* schemaVersion
    phase,         \* phase
    status,        \* status
    outcome,       \* terminalOutcome
    eligible,      \* receiptEligible
    tokenIdentity, \* tokenIdentity.tokenizationTxHash, or None
    stage,         \* operations[k].stage
    attempts,      \* operations[k].preparationAttempts, states only; the last is active
    prompt,        \* operations[k].walletPromptAuthorization
    hash,          \* operations[k].blockchainTxHash
    rpc,           \* operations[k].rpcTransactionEvidence
    receipt,       \* operations[k].transactionReceiptEvidence
    correlation,   \* operations[k].brickkenCorrelation
    statusText,    \* status of the last brickkenStatusEvidence of operation k
    released,      \* AUTHORIZE_PROVIDER_INVOCATION events of operation k
    reserved,      \* TRACK_EXECUTION_RESERVED events of the run
    pollStep,      \* step of the poll that made the last write; 0 if no poll made it
    refused        \* some event that ends correlation for the run is in the log

runVars == <<schema, phase, status, outcome, eligible, tokenIdentity>>
walletVars == <<stage, attempts, prompt>>
chainVars == <<hash, rpc, receipt>>
brickkenVars == <<correlation, statusText>>
logVars == <<released, reserved, refused>>
vars == <<runVars, walletVars, chainVars, brickkenVars, logVars, pollStep>>

Init ==
    /\ schema = "2.0" /\ phase = "PLAN" /\ status = "AWAITING_APPROVAL"
    /\ outcome = None /\ eligible = FALSE /\ tokenIdentity = None
    /\ stage = [k \in Kinds |-> "NOT_STARTED"]
    /\ attempts = [k \in Kinds |-> << >>]
    /\ prompt = [k \in Kinds |-> None]
    /\ hash = [k \in Kinds |-> None]
    /\ rpc = [k \in Kinds |-> "NONE"]
    /\ receipt = [k \in Kinds |-> None]
    /\ correlation = [k \in Kinds |-> None]
    /\ statusText = [k \in Kinds |-> None]
    /\ released = [k \in Kinds |-> 0]
    /\ reserved = 0
    /\ refused = FALSE
    /\ pollStep = 0

-----------------------------------------------------------------------------
(* Helpers.  A definition whose name contains "Fault" is not part of the      *)
(* model: it is a seeded bug that PROJECT.json swaps in for the definition    *)
(* after it, to show that a property notices it.                              *)

Blocked == outcome # None \/ status = "RECONCILIATION_REQUIRED"

\* deriveActiveOperation: the operation of the current phase.
Active(k) == phase = PhaseOf[k]

ActiveV4(k) == schema = "4.0" /\ Active(k)

SetActiveAttempt(k, state) == [attempts EXCEPT ![k][Len(attempts[k])] = state]

PredecessorVerified(k) ==
    CASE k = "TOKENIZE" -> TRUE
      [] k = "WHITELIST" -> stage["TOKENIZE"] = "READ_BACK_VERIFIED"
      [] k = "MINT" -> stage["WHITELIST"] = "READ_BACK_VERIFIED"

\* After TOKENIZE every wallet-facing step needs the token it acts on.
TokenKnown(k) == k # "TOKENIZE" => tokenIdentity # None

PromptUnspentFaultIgnoresInvocation(k) ==
    stage[k] = "WALLET_PROMPT_RECORDED" /\ prompt[k] # None

\* A prompt whose send authority nobody has been given yet.
PromptUnspent(k) ==
    /\ stage[k] = "WALLET_PROMPT_RECORDED"
    /\ prompt[k] # None
    /\ prompt[k].invocation = "PROVEN_NOT_INVOKED"

HoldsAuthorityFaultAfterUnknown(k) ==
    /\ stage[k] \in {"WALLET_PROMPT_RECORDED", "BROADCAST_UNKNOWN"}
    /\ prompt[k] # None
    /\ prompt[k].invocation = "INVOKED_OR_UNKNOWN"
    /\ hash[k] = None

\* assertInvokedPrompt: the wallet may have been called and nothing came back.
HoldsAuthority(k) ==
    /\ stage[k] = "WALLET_PROMPT_RECORDED"
    /\ prompt[k] # None
    /\ prompt[k].invocation = "INVOKED_OR_UNKNOWN"
    /\ hash[k] = None

AwaitingFinality(k) ==
    /\ receipt[k] # None
    /\ receipt[k].execution = "SUCCESS"
    /\ receipt[k].identity = "MATCH"
    /\ receipt[k].finality = "INCLUDED"

Reverted(k) == receipt[k] # None /\ receipt[k].execution = "REVERTED"

\* Entry guard of trackExecution and reconcileSubmittedRun, the only callers of
\* the five steps.
Trackable(k) ==
    /\ ActiveV4(k)
    /\ ~Blocked
    /\ hash[k] # None
    /\ stage[k] # "READ_BACK_VERIFIED"

PollStepFaultSkipsEntryGuard(k, n, after) ==
    ActiveV4(k) /\ pollStep' = n

\* Step n of #reconcilePipeline, taken by a poll that enters now or by the poll
\* that made the last write, at one of the steps `after`.
PollStep(k, n, after) ==
    /\ ActiveV4(k)
    /\ Trackable(k) \/ pollStep \in after
    /\ pollStep' = n

NotPolling == pollStep' = 0

-----------------------------------------------------------------------------
(* Plan, approval and the first preparation (schema 2.0) *)

Approve ==
    /\ phase = "PLAN" /\ status = "AWAITING_APPROVAL"
    /\ phase' = "TOKENIZATION" /\ status' = "PREPARING"
    /\ NotPolling
    /\ UNCHANGED <<schema, outcome, eligible, tokenIdentity,
                   walletVars, chainVars, brickkenVars, logVars>>

\* applyRunEvent refuses a schema 4.0 run, so a promoted run cannot be cancelled.
Cancel ==
    /\ schema = "2.0"
    /\ ~Blocked
    /\ \A k \in Kinds : hash[k] = None
    /\ status' = "FAILED" /\ outcome' = "CANCELLED"
    /\ NotPolling
    /\ UNCHANGED <<schema, phase, eligible, tokenIdentity,
                   walletVars, chainVars, brickkenVars, logVars>>

PrepareStep(k, from, to, newStatus, newOutcome) ==
    /\ schema = "2.0"
    /\ ~Blocked
    /\ stage[k] = from
    /\ stage' = [stage EXCEPT ![k] = to]
    /\ status' = newStatus /\ outcome' = newOutcome
    /\ NotPolling
    /\ UNCHANGED <<schema, phase, eligible, tokenIdentity, attempts, prompt,
                   chainVars, brickkenVars, logVars>>

BeginPrepare(k) ==
    /\ Active(k)
    /\ PredecessorVerified(k)
    /\ PrepareStep(k, "NOT_STARTED", "PREPARE_INTENT", "PREPARING", outcome)

RecordPrepared(k) ==
    PrepareStep(k, "PREPARE_INTENT", "PREPARED", "AWAITING_WALLET", outcome)

RecordPrepareUnknown(k) ==
    PrepareStep(k, "PREPARE_INTENT", "PREPARE_UNKNOWN", "RECONCILIATION_REQUIRED", outcome)

RecordPrepareFailure(k) ==
    PrepareStep(k, "PREPARE_INTENT", "REJECTED", "FAILED", "FAILED")

RecordPrepareInterrupted(k) ==
    PrepareStep(k, "PREPARE_INTENT", "NOT_STARTED", "PREPARING", outcome)

Promote(k) ==
    /\ schema = "2.0"
    /\ Active(k)
    /\ ~Blocked /\ status # "FAILED"
    /\ stage[k] = "PREPARED"
    /\ schema' = "4.0"
    /\ attempts' = [attempts EXCEPT ![k] = <<"PREPARED">>]
    /\ NotPolling
    /\ UNCHANGED <<phase, status, outcome, eligible, tokenIdentity, stage, prompt,
                   chainVars, brickkenVars, logVars>>

-----------------------------------------------------------------------------
(* Preparation attempts (schema 4.0) *)

\* Frame of the wallet-side writes: the operation's stage and the run's status
\* change, nothing the chain or Brickken reported does.
WalletStep(k, to, newStatus) ==
    /\ ActiveV4(k)
    /\ stage' = [stage EXCEPT ![k] = to]
    /\ status' = newStatus
    /\ NotPolling
    /\ UNCHANGED <<schema, phase, eligible, tokenIdentity, rpc, receipt,
                   brickkenVars, reserved, refused>>

RecordInitialPreparation(k) ==
    /\ status = "PREPARING"
    /\ stage[k] = "NOT_STARTED" /\ attempts[k] = << >> /\ hash[k] = None
    /\ WalletStep(k, "PREPARED", "AWAITING_WALLET")
    /\ attempts' = [attempts EXCEPT ![k] = <<"PREPARED">>]
    /\ UNCHANGED <<outcome, prompt, hash, released>>

MarkPreparedStale(k) ==
    /\ stage[k] = "PREPARED" /\ prompt[k] = None /\ TokenKnown(k)
    /\ WalletStep(k, "PREPARED_STALE", "AWAITING_WALLET")
    /\ attempts' = SetActiveAttempt(k, "STALE")
    /\ UNCHANGED <<outcome, prompt, hash, released>>

MayPrepareAgainFaultOffByOne(k) == Len(attempts[k]) <= MaxPreparations

MayPrepareAgain(k) == Len(attempts[k]) < MaxPreparations

BeginReprepare(k) ==
    /\ MayPrepareAgain(k)
    /\ stage[k] = "PREPARED_STALE" /\ attempts[k][Len(attempts[k])] = "STALE"
    /\ prompt[k] = None /\ hash[k] = None
    /\ WalletStep(k, "REPREPARE_INTENT", "PREPARING")
    /\ attempts' = [attempts EXCEPT ![k] = Append(@, "REPREPARE_INTENT")]
    /\ UNCHANGED <<outcome, prompt, hash, released>>

EndReprepare(k, state, to, newStatus) ==
    /\ stage[k] = "REPREPARE_INTENT" /\ attempts[k][Len(attempts[k])] = "REPREPARE_INTENT"
    /\ WalletStep(k, to, newStatus)
    /\ attempts' = SetActiveAttempt(k, state)
    /\ UNCHANGED <<prompt, hash, released>>

RecordReprepared(k) ==
    EndReprepare(k, "PREPARED", "PREPARED", "AWAITING_WALLET") /\ UNCHANGED outcome

RecordReprepareUnknown(k) ==
    EndReprepare(k, "PREPARE_UNKNOWN", "PREPARE_UNKNOWN", "RECONCILIATION_REQUIRED")
    /\ UNCHANGED outcome

RecordReprepareRefused(k) ==
    EndReprepare(k, "REFUSED", "REJECTED", "FAILED") /\ outcome' = "FAILED"

-----------------------------------------------------------------------------
(* The wallet prompt and the one-time send authority *)

NewPrompt(k, invocation) ==
    [prompt EXCEPT ![k] = [invocation |-> invocation, attempt |-> Len(attempts[k])]]

RecordWalletPrompt(k) ==
    /\ status = "AWAITING_WALLET"
    /\ stage[k] = "PREPARED" /\ prompt[k] = None /\ TokenKnown(k)
    /\ WalletStep(k, "WALLET_PROMPT_RECORDED", "AWAITING_WALLET")
    /\ prompt' = NewPrompt(k, "PROVEN_NOT_INVOKED")
    /\ UNCHANGED <<outcome, attempts, hash, released>>

\* releaseSendAuthority finds a recorded prompt stale: the prompt is dropped
\* and the preparation marked stale in one write.
DropPromptAndMarkStale(k) ==
    /\ status = "AWAITING_WALLET"
    /\ PromptUnspent(k) /\ TokenKnown(k)
    /\ WalletStep(k, "PREPARED_STALE", "AWAITING_WALLET")
    /\ attempts' = SetActiveAttempt(k, "STALE")
    /\ prompt' = [prompt EXCEPT ![k] = None]
    /\ UNCHANGED <<outcome, hash, released>>

\* The final write of releaseSendAuthority rebinds the prompt to the evidence
\* just evaluated and authorizes the invocation; only then is the envelope built.
ReleaseSendAuthority(k) ==
    /\ status = "AWAITING_WALLET"
    /\ PromptUnspent(k) /\ hash[k] = None /\ TokenKnown(k)
    /\ WalletStep(k, "WALLET_PROMPT_RECORDED", "AWAITING_WALLET")
    /\ prompt' = NewPrompt(k, "INVOKED_OR_UNKNOWN")
    /\ released' = [released EXCEPT ![k] = @ + 1]
    /\ UNCHANGED <<outcome, attempts, hash>>

RecordWalletRejected(k) ==
    /\ PromptUnspent(k)
    /\ WalletStep(k, "WALLET_REJECTED", status)
    /\ UNCHANGED <<outcome, attempts, prompt, hash, released>>

RecordBroadcastUnknown(k) ==
    /\ HoldsAuthority(k)
    /\ WalletStep(k, "BROADCAST_UNKNOWN", "RECONCILIATION_REQUIRED")
    /\ UNCHANGED <<outcome, attempts, prompt, hash, released>>

RecordBroadcastHash(k, h) ==
    /\ HoldsAuthority(k)
    /\ WalletStep(k, "BROADCAST_HASH_PERSISTED", "BROADCAST_RECORDED")
    /\ hash' = [hash EXCEPT ![k] = h]
    /\ UNCHANGED <<outcome, attempts, prompt, released>>

-----------------------------------------------------------------------------
(* What the RPC endpoint shows: the transaction, then its receipt *)

\* Frame of the evidence writes.
EvidenceStep(k, n) ==
    /\ PollStep(k, n, 1..(n - 1))
    /\ UNCHANGED <<schema, phase, eligible, tokenIdentity, attempts, prompt, hash,
                   correlation, released, reserved>>

\* A transaction too malformed to compare leaves no evidence but needs a person.
VerifyTransaction(k, comparison) ==
    /\ stage[k] = "BROADCAST_HASH_PERSISTED"
    /\ EvidenceStep(k, 1)
    /\ rpc' = [rpc EXCEPT ![k] = comparison]
    /\ stage' = [stage EXCEPT ![k] =
           CASE comparison = "WITHIN_ENVELOPE" -> "RPC_TRANSACTION_VERIFIED"
             [] comparison = "POLICY_VIOLATION" -> "POLICY_VIOLATION_ONCHAIN"
             [] OTHER -> "RPC_TRANSACTION_RECONCILIATION_REQUIRED"]
    /\ status' = IF comparison = "WITHIN_ENVELOPE"
                 THEN "BROADCAST_RECORDED" ELSE "RECONCILIATION_REQUIRED"
    /\ UNCHANGED <<outcome, receipt, statusText, refused>>

\* evaluateAndRecordReceiptFinality returns before, or recordRpcReceiptEvidenceV4
\* throws on, every other receipt that follows an earlier one.
ReceiptAcceptedFaultReplacesFinal(k, r) ==
    receipt[k] # None =>
        \/ r.identity = "MISMATCH"
        \/ r.block = receipt[k].block /\ r.finality = "FINALIZED"

ReceiptAccepted(k, r) ==
    receipt[k] # None =>
        /\ receipt[k].finality = "INCLUDED"
        /\ \/ r.identity = "MISMATCH"
           \/ r.block = receipt[k].block /\ r.finality = "FINALIZED"

ReconcileFaultIgnoresPolicy(k, r) == r.identity = "MISMATCH"

ReceiptNeedsReconciliation(k, r) ==
    rpc[k] # "WITHIN_ENVELOPE" \/ r.identity = "MISMATCH"

RecordReceipt(k, r) ==
    /\ stage[k] \in ReceiptStages /\ rpc[k] # "NONE"
    /\ ReceiptAccepted(k, r)
    /\ EvidenceStep(k, 2)
    /\ receipt' = [receipt EXCEPT ![k] = r]
    /\ IF ReceiptNeedsReconciliation(k, r)
       THEN status' = "RECONCILIATION_REQUIRED" /\ UNCHANGED outcome
       ELSE IF r.execution = "REVERTED"
       THEN status' = "FAILED" /\ outcome' = "FAILED"
       ELSE UNCHANGED <<status, outcome>>
    /\ UNCHANGED <<stage, rpc, statusText, refused>>

-----------------------------------------------------------------------------
(* Brickken correlation and status *)

\* Frame of the correlation writes.
CorrelationStep(k, after) ==
    /\ PollStep(k, 3, after)
    /\ status # "FAILED"
    /\ rpc[k] \in {"POLICY_VIOLATION", "WITHIN_ENVELOPE"}
    /\ ~Reverted(k)
    /\ ~refused
    /\ UNCHANGED <<schema, phase, eligible, tokenIdentity, attempts, prompt,
                   chainVars, statusText, released, reserved>>

\* The last authorized attempt may be in flight, and its answer unknown.
CorrelationAuthorized(k) ==
    /\ stage[k] = "BRICKKEN_CORRELATION_PENDING"
    /\ correlation[k] # None
    /\ correlation[k].lifecycle = "PENDING"
    /\ correlation[k].last = "AUTHORIZED"

CorrelationUncertain(k) ==
    /\ stage[k] = "BRICKKEN_CORRELATION_PENDING"
    /\ correlation[k] # None
    /\ correlation[k].lifecycle = "PENDING"
    /\ correlation[k].last = "UNCERTAIN"

\* Both writes that move correlation forward recompute the status from the fee
\* verdict alone.
StatusAfterCorrelationFaultForgetsPolicy(k) == "CONFIRMING"

StatusAfterCorrelation(k) ==
    IF rpc[k] = "POLICY_VIOLATION" THEN "RECONCILIATION_REQUIRED" ELSE "CONFIRMING"

BeginCorrelation(k) ==
    /\ stage[k] \in {"RPC_TRANSACTION_VERIFIED", "POLICY_VIOLATION_ONCHAIN"}
    /\ correlation[k] = None
    /\ CorrelationStep(k, {1, 2})
    /\ stage' = [stage EXCEPT ![k] = "BRICKKEN_CORRELATION_PENDING"]
    /\ correlation' = [correlation EXCEPT ![k] =
           [attempt |-> Len(attempts[k]), hash |-> hash[k], lifecycle |-> "PENDING",
            count |-> 1, last |-> "AUTHORIZED"]]
    /\ status' = StatusAfterCorrelation(k)
    /\ UNCHANGED <<outcome, refused>>

RecordCorrelationUncertain(k) ==
    /\ CorrelationAuthorized(k)
    /\ CorrelationStep(k, {1, 2, 3})
    /\ correlation' = [correlation EXCEPT ![k].last = "UNCERTAIN"]
    /\ UNCHANGED <<stage, status, outcome, refused>>

AuthorizeCorrelationRetry(k) ==
    /\ CorrelationUncertain(k)
    /\ correlation[k].count < MaxCorrelations
    /\ CorrelationStep(k, {1, 2})
    /\ correlation' = [correlation EXCEPT ![k].last = "AUTHORIZED", ![k].count = @ + 1]
    /\ UNCHANGED <<stage, status, outcome, refused>>

ExhaustCorrelation(k) ==
    /\ CorrelationUncertain(k)
    /\ correlation[k].count >= MaxCorrelations
    /\ CorrelationStep(k, {1, 2})
    /\ status' = "RECONCILIATION_REQUIRED" /\ refused' = TRUE
    /\ UNCHANGED <<stage, outcome, correlation>>

RecordCorrelated(k) ==
    /\ CorrelationAuthorized(k)
    /\ CorrelationStep(k, {1, 2, 3})
    /\ stage' = [stage EXCEPT ![k] = "BRICKKEN_CORRELATED"]
    /\ correlation' = [correlation EXCEPT ![k].lifecycle = "CORRELATED"]
    /\ status' = StatusAfterCorrelation(k)
    /\ UNCHANGED <<outcome, refused>>

\* A refusal, a contradiction or a mismatch of the prepared transaction: the
\* snapshot is written with terminalOutcome null.
RefuseCorrelation(k) ==
    /\ CorrelationAuthorized(k)
    /\ CorrelationStep(k, {1, 2, 3})
    /\ status' = "RECONCILIATION_REQUIRED" /\ outcome' = None /\ refused' = TRUE
    /\ UNCHANGED <<stage, correlation>>

\* Only a change of the text is written down; it decides nothing.
RecordStatus(k, text) ==
    /\ stage[k] = "BRICKKEN_CORRELATED" /\ statusText[k] # text
    /\ EvidenceStep(k, 4)
    /\ statusText' = [statusText EXCEPT ![k] = text]
    /\ UNCHANGED <<stage, status, outcome, rpc, receipt, refused>>

RecordStatusContradiction(k) ==
    /\ stage[k] = "BRICKKEN_CORRELATED"
    /\ EvidenceStep(k, 4)
    /\ status' = "RECONCILIATION_REQUIRED"
    /\ UNCHANGED <<stage, outcome, rpc, receipt, statusText, refused>>

-----------------------------------------------------------------------------
(* Read-back and the tracking budget *)

ReadBackReadyFaultIncluded(k) ==
    /\ ActiveV4(k)
    /\ stage[k] = "BRICKKEN_CORRELATED"
    /\ receipt[k] # None
    /\ receipt[k].execution = "SUCCESS" /\ receipt[k].identity = "MATCH"
    /\ rpc[k] = "WITHIN_ENVELOPE"
    /\ status # "RECONCILIATION_REQUIRED"

\* Every gate in front of a read-back: what the chain shows is final and is the
\* approved transaction, and Brickken correlated this very preparation with it.
ReadBackReady(k) ==
    /\ ActiveV4(k)
    /\ stage[k] = "BRICKKEN_CORRELATED"
    /\ correlation[k] # None
    /\ correlation[k].lifecycle = "CORRELATED"
    /\ correlation[k].attempt = Len(attempts[k])
    /\ correlation[k].hash = hash[k]
    /\ receipt[k] # None
    /\ receipt[k].execution = "SUCCESS"
    /\ receipt[k].finality = "FINALIZED"
    /\ receipt[k].identity = "MATCH"
    /\ rpc[k] = "WITHIN_ENVELOPE"
    /\ status # "RECONCILIATION_REQUIRED"

ReadBackStepFaultForgetsStage(k, nextPhase, nextStatus, nextEligible, nextIdentity) ==
    /\ PollStep(k, 5, 1..4)
    /\ ReadBackReady(k)
    /\ phase' = nextPhase /\ status' = nextStatus
    /\ eligible' = nextEligible /\ tokenIdentity' = nextIdentity
    /\ UNCHANGED <<schema, outcome, walletVars, chainVars, brickkenVars, logVars>>

\* Frame of the successful read-backs.
ReadBackStep(k, nextPhase, nextStatus, nextEligible, nextIdentity) ==
    /\ PollStep(k, 5, 1..4)
    /\ ReadBackReady(k)
    /\ k # "TOKENIZE" => outcome = None
    /\ stage' = [stage EXCEPT ![k] = "READ_BACK_VERIFIED"]
    /\ phase' = nextPhase /\ status' = nextStatus
    /\ eligible' = nextEligible /\ tokenIdentity' = nextIdentity
    /\ UNCHANGED <<schema, outcome, attempts, prompt, chainVars, brickkenVars, logVars>>

RecordTokenIdentity ==
    IF Scope = "LEGACY_FULL"
    THEN ReadBackStep("TOKENIZE", "WHITELIST", "PREPARING", eligible, hash["TOKENIZE"])
    ELSE ReadBackStep("TOKENIZE", "TOKENIZATION", "SUCCEEDED", eligible, hash["TOKENIZE"])

RecordWhitelistReadBackFaultSkipsMint ==
    ReadBackStep("WHITELIST", "VERIFICATION", "SUCCEEDED", TRUE, tokenIdentity)

RecordWhitelistReadBack ==
    ReadBackStep("WHITELIST", "MINT", "PREPARING", FALSE, tokenIdentity)

RecordMintReadBack ==
    ReadBackStep("MINT", "VERIFICATION", "SUCCEEDED", TRUE, tokenIdentity)

\* #completeReadBackOrFailClosed on a mismatch or an unresolved binding.
RecordReadBackMismatch(k) ==
    /\ PollStep(k, 5, 1..4)
    /\ ReadBackReady(k) /\ outcome = None
    /\ status' = "FAILED" /\ outcome' = "VERIFICATION_FAILED"
    /\ UNCHANGED <<schema, phase, eligible, tokenIdentity, walletVars, chainVars,
                   brickkenVars, logVars>>

ReservationLeft == reserved < TrackBudget

ReserveTracking(k) ==
    /\ Trackable(k)
    /\ ~AwaitingFinality(k)
    /\ ReservationLeft
    /\ reserved' = reserved + 1
    /\ NotPolling
    /\ UNCHANGED <<runVars, walletVars, chainVars, brickkenVars, released, refused>>

ExhaustTracking(k) ==
    /\ Trackable(k)
    /\ receipt[k] # None /\ receipt[k].finality = "FINALIZED"
    /\ ~ReservationLeft
    /\ status' = "RECONCILIATION_REQUIRED"
    /\ NotPolling
    /\ UNCHANGED <<schema, phase, outcome, eligible, tokenIdentity, walletVars,
                   chainVars, brickkenVars, logVars>>

-----------------------------------------------------------------------------
(* The run *)

PrepareV2 ==
    \E k \in Kinds :
        \/ BeginPrepare(k) \/ RecordPrepared(k) \/ RecordPrepareUnknown(k)
        \/ RecordPrepareFailure(k) \/ RecordPrepareInterrupted(k) \/ Promote(k)

PrepareV4 ==
    \E k \in Kinds :
        \/ RecordInitialPreparation(k) \/ MarkPreparedStale(k) \/ BeginReprepare(k)
        \/ RecordReprepared(k) \/ RecordReprepareUnknown(k) \/ RecordReprepareRefused(k)

Wallet ==
    \E k \in Kinds :
        \/ RecordWalletPrompt(k) \/ DropPromptAndMarkStale(k) \/ ReleaseSendAuthority(k)
        \/ RecordWalletRejected(k) \/ RecordBroadcastUnknown(k)
        \/ \E h \in Hashes : RecordBroadcastHash(k, h)

Evidence ==
    \E k \in Kinds :
        \/ \E c \in Comparisons : VerifyTransaction(k, c)
        \/ \E r \in Receipts : RecordReceipt(k, r)

Brickken ==
    \E k \in Kinds :
        \/ BeginCorrelation(k) \/ RecordCorrelationUncertain(k)
        \/ AuthorizeCorrelationRetry(k) \/ ExhaustCorrelation(k)
        \/ RecordCorrelated(k) \/ RefuseCorrelation(k)
        \/ \E t \in StatusTexts : RecordStatus(k, t)
        \/ RecordStatusContradiction(k)

Tracking ==
    \/ RecordTokenIdentity \/ RecordWhitelistReadBack \/ RecordMintReadBack
    \/ \E k \in Kinds :
           RecordReadBackMismatch(k) \/ ReserveTracking(k) \/ ExhaustTracking(k)

Next == Approve \/ Cancel \/ PrepareV2 \/ PrepareV4 \/ Wallet \/ Evidence \/ Brickken \/ Tracking

Spec == Init /\ [][Next]_vars

-----------------------------------------------------------------------------
(* Properties *)

\* Every variable keeps to the snapshot schema, the two attempt limits and the
\* tracking budget included.
TypeOK ==
    /\ schema \in {"2.0", "4.0"}
    /\ phase \in Phases
    /\ status \in Statuses
    /\ outcome \in Outcomes \cup {None}
    /\ eligible \in BOOLEAN
    /\ tokenIdentity \in Hashes \cup {None}
    /\ stage \in [Kinds -> Stages]
    /\ attempts \in [Kinds -> Seq(AttemptStates)]
    /\ \A k \in Kinds : Len(attempts[k]) <= MaxPreparations
    /\ prompt \in [Kinds -> Prompts \cup {None}]
    /\ hash \in [Kinds -> Hashes \cup {None}]
    /\ rpc \in [Kinds -> Comparisons]
    /\ receipt \in [Kinds -> Receipts \cup {None}]
    /\ correlation \in [Kinds -> Correlations \cup {None}]
    /\ statusText \in [Kinds -> StatusTexts \cup {None}]
    /\ released \in [Kinds -> Nat]
    /\ reserved \in 0..TrackBudget
    /\ refused \in BOOLEAN
    /\ pollStep \in 0..5

\* What parseSnapshot (persistence/codec.ts) demands of one operation of a
\* schema 4.0 snapshot.
AttemptFitsStage(k) ==
    attempts[k] # << >> =>
        LET active == attempts[k][Len(attempts[k])] IN
        CASE stage[k] = "PREPARED" ->
                 active = "PREPARED" /\ prompt[k] = None /\ hash[k] = None
          [] stage[k] = "PREPARED_STALE" ->
                 active = "STALE" /\ prompt[k] = None /\ hash[k] = None
          [] stage[k] = "REPREPARE_INTENT" -> active = "REPREPARE_INTENT"
          [] stage[k] = "PREPARE_UNKNOWN" -> active = "PREPARE_UNKNOWN"
          [] stage[k] = "REJECTED" -> active = "REFUSED"
          [] stage[k] \in PromptStages -> active = "PREPARED"
          [] OTHER -> FALSE

PromptFitsStage(k) ==
    /\ stage[k] \in PromptStages => prompt[k] # None
    /\ prompt[k] # None =>
           /\ attempts[k] # << >>
           /\ prompt[k].attempt = Len(attempts[k])
           /\ stage[k] = "WALLET_REJECTED" => prompt[k].invocation = "PROVEN_NOT_INVOKED"
           /\ stage[k] \in ReleasedStages => prompt[k].invocation = "INVOKED_OR_UNKNOWN"

CorrelationFitsStage(k) ==
    /\ stage[k] = "BRICKKEN_CORRELATION_PENDING" =>
           correlation[k] # None /\ correlation[k].lifecycle = "PENDING"
    /\ stage[k] \in {"BRICKKEN_CORRELATED", "READ_BACK_VERIFIED"} =>
           correlation[k] # None /\ correlation[k].lifecycle = "CORRELATED"
    /\ correlation[k] # None =>
           /\ correlation[k].attempt = Len(attempts[k])
           /\ correlation[k].hash = hash[k]
           /\ rpc[k] \in {"POLICY_VIOLATION", "WITHIN_ENVELOPE"}
    /\ statusText[k] # None => correlation[k] # None

EvidenceFitsStage(k) ==
    /\ rpc[k] # "NONE" => hash[k] # None /\ attempts[k] # << >>
    /\ rpc[k] \in {"MISMATCH", "POLICY_VIOLATION"} => status = "RECONCILIATION_REQUIRED"
    /\ stage[k] = "RPC_TRANSACTION_VERIFIED" => rpc[k] = "WITHIN_ENVELOPE"
    /\ stage[k] = "POLICY_VIOLATION_ONCHAIN" => rpc[k] = "POLICY_VIOLATION"
    /\ stage[k] = "RPC_TRANSACTION_RECONCILIATION_REQUIRED" => rpc[k] \in {"NONE", "MISMATCH"}
    /\ receipt[k] # None => rpc[k] # "NONE" /\ hash[k] # None

\* The codec never refuses what a transition function wrote.  parseSnapshot runs
\* on every encode and decode, in a file of its own: a snapshot it refused would
\* lose the write (or make the run unreadable) at a stage nobody tested.
CodecAccepts ==
    schema = "4.0" =>
        /\ \A k \in Kinds :
               /\ AttemptFitsStage(k)
               /\ PromptFitsStage(k)
               /\ CorrelationFitsStage(k)
               /\ EvidenceFitsStage(k)
        /\ tokenIdentity # None =>
               /\ stage["TOKENIZE"] = "READ_BACK_VERIFIED"
               /\ rpc["TOKENIZE"] = "WITHIN_ENVELOPE"
               /\ tokenIdentity = hash["TOKENIZE"]

\* An operation gets send authority at most once, over every preparation it
\* ever has, and a hash, evidence or a correlation exists only after that
\* (releaseSendAuthority; README: exactly one eth_sendTransaction per step).
SingleAuthority ==
    \A k \in Kinds :
        /\ released[k] <= 1
        /\ stage[k] \in ReleasedStages => released[k] = 1
        /\ released[k] = 1 => prompt[k] # None /\ prompt[k].invocation = "INVOKED_OR_UNKNOWN"
        /\ hash[k] # None => released[k] = 1

\* Work on an operation means its predecessor was verified on chain, and a
\* prompt after TOKENIZE means the token it addresses is the one this run
\* created (prepareOperation checks neither; it trusts the phase).
ChainOfVerification ==
    \A k \in Kinds :
        /\ stage[k] # "NOT_STARTED" => PredecessorVerified(k)
        /\ prompt[k] # None /\ k # "TOKENIZE" =>
               tokenIdentity # None /\ tokenIdentity = hash["TOKENIZE"]

\* A verified operation has a finalized, successful, canonical receipt of a
\* transaction inside its approved fees, correlated by Brickken with exactly
\* the preparation that was prompted (recordTokenIdentityFromReadBack,
\* recordLifecycleReadBack).
VerifiedMeansFinal ==
    \A k \in Kinds : stage[k] = "READ_BACK_VERIFIED" =>
        /\ receipt[k] # None
        /\ receipt[k].execution = "SUCCESS" /\ receipt[k].finality = "FINALIZED"
        /\ receipt[k].identity = "MATCH"
        /\ rpc[k] = "WITHIN_ENVELOPE"
        /\ prompt[k].attempt = correlation[k].attempt
        /\ correlation[k].hash = hash[k]

\* The run may issue its receipt exactly when all three operations are
\* verified, and a run that reports success has nothing left open.
SuccessMeansVerified ==
    /\ eligible <=> phase = "VERIFICATION"
    /\ eligible => status = "SUCCEEDED" /\ \A k \in Kinds : stage[k] = "READ_BACK_VERIFIED"
    /\ status = "SUCCEEDED" =>
           /\ outcome = None
           /\ stage["TOKENIZE"] = "READ_BACK_VERIFIED"
           /\ Scope = "LEGACY_FULL" => eligible

\* Once the run has a terminal outcome, or needs a person, nothing gives
\* authority, starts a preparation or takes a hash any more; an outcome never
\* changes, although a refused correlation writes terminalOutcome null.
BlockedRunIsInert ==
    [][/\ Blocked => UNCHANGED <<released, attempts, prompt, hash, phase, eligible>>
       /\ outcome # None => outcome' = outcome]_vars

\* What was observed is never replaced by something weaker: a hash is written
\* once, the comparison with the approved transaction is written once, a final
\* receipt stays, and a verified operation is never touched again.
EvidenceIsDurable ==
    [][\A k \in Kinds :
           /\ hash[k] # None => hash'[k] = hash[k]
           /\ rpc[k] # "NONE" => rpc'[k] = rpc[k]
           /\ (receipt[k] # None /\ receipt[k].finality = "FINALIZED") => receipt'[k] = receipt[k]
           /\ stage[k] = "READ_BACK_VERIFIED" =>
                  /\ stage'[k] = stage[k]
                  /\ UNCHANGED <<attempts[k], prompt[k], receipt[k], correlation[k]>>]_vars

\* An ambiguous submission or preparation is never resent: the stage is
\* absorbing and the run stays in RECONCILIATION_REQUIRED (README: ambiguous
\* submissions fail closed, no automatic resend).
AmbiguityFailsClosed ==
    [][\A k \in Kinds : stage[k] \in {"BROADCAST_UNKNOWN", "PREPARE_UNKNOWN"} =>
           stage'[k] = stage[k] /\ status' = "RECONCILIATION_REQUIRED"]_vars

\* README, Verification model: "Genuine data contradictions fail closed."  A
\* durable receipt that contradicts the canonical chain or the approved
\* transaction keeps the run in RECONCILIATION_REQUIRED (codec.ts demands it of
\* schema 3.0 snapshots).  The code does not keep this for schema 4.0.
ContradictionFailsClosed ==
    \A k \in Kinds :
        (receipt[k] # None /\ receipt[k].identity = "MISMATCH")
            => status = "RECONCILIATION_REQUIRED"

=============================================================================
