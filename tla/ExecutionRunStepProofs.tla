----------------------- MODULE ExecutionRunStepProofs ------------------------
(***************************************************************************)
(* What a write of ExecutionRun may never do: the three action properties, *)
(* for every value of the constants.                                       *)
(*                                                                         *)
(* Every write works on the operation of the current phase.  Safe(k) says  *)
(* what all of them have in common; it is shown action by action, together *)
(* with the preservation of BlockedInv, which the guards alone do not give:*)
(* that a run which is blocked has no operation left to work on.           *)
(***************************************************************************)
EXTENDS ExecutionRunProofs

Ambiguous(k) == stage[k] \in {"BROADCAST_UNKNOWN", "PREPARE_UNKNOWN"}

\* What every write on operation k respects.
Safe(k) ==
    /\ Active(k) /\ stage[k] # "READ_BACK_VERIFIED" /\ ~Ambiguous(k)
    /\ \A j \in Kinds : j # k => SameOperation(j)
    /\ Blocked => UNCHANGED <<released, attempts, prompt, hash, phase, eligible>>
    /\ outcome # None => outcome' = outcome
    /\ hash[k] # None => hash'[k] = hash[k]
    /\ rpc[k] # "NONE" => rpc'[k] = rpc[k]
    /\ (receipt[k] # None /\ receipt[k].finality = "FINALIZED") => receipt'[k] = receipt[k]

RunInv == IInv /\ SuccessInv /\ BlockedInv

\* Only the operation a write works on answers for BlockedInv.
LEMMA BlockedFrame ==
  ASSUME IInv, BlockedInv, NEW k \in Kinds, Active(k), phase' = phase,
         \A j \in Kinds : j # k => SameOperation(j),
         EndedShape',
         ActiveV4(k)' /\ stage'[k] \in OpenStages => ~Blocked',
         Ambiguous(k)' => status' = "RECONCILIATION_REQUIRED"
  PROVE  BlockedInv'
<1>1. WorkShape'
  BY OneActive DEF WorkShape, ActiveV4, Active, PhaseOf, Kinds
<1>2. AmbiguityShape'
  <2>1. SUFFICES ASSUME NEW j \in Kinds, j # k, Ambiguous(j)'
                 PROVE  FALSE
    BY DEF AmbiguityShape, Ambiguous
  <2>2. stage'[j] = stage[j]
    BY <2>1 DEF SameOperation
  <2> QED
    BY <2>1, <2>2, OthersSettled DEF IInv, Pristine, Ambiguous
<1> QED
  BY <1>1, <1>2 DEF BlockedInv

-----------------------------------------------------------------------------
(* Before the chain *)

LEMMA ApprovalIsSafe ==
  ASSUME RunInv, Approve \/ Cancel
  PROVE  /\ UNCHANGED <<eligible, walletVars, chainVars, brickkenVars, logVars>>
         /\ ~Blocked
         /\ \A k \in Kinds : ~Ambiguous(k)
         /\ BlockedInv'
<1>1. UNCHANGED <<eligible, walletVars, chainVars, brickkenVars, logVars>> /\ schema' = schema
  BY DEF Approve, Cancel
<1>2. ~Blocked
  BY DEF Approve, Cancel, Blocked, RunInv, BlockedInv, EndedShape
<1>3. \A k \in Kinds : ~Ambiguous(k)
  BY <1>2 DEF RunInv, BlockedInv, AmbiguityShape, Ambiguous, Blocked
<1>4. EndedShape' /\ AmbiguityShape'
  BY <1>1, <1>2, <1>3 DEF Approve, Cancel, Blocked, EndedShape, AmbiguityShape, Ambiguous, walletVars
<1>5. WorkShape'
  <2>1. CASE Approve
    BY <2>1, <1>2 DEF Approve, WorkShape, Blocked
  <2>2. CASE Cancel
    BY <2>2 DEF Cancel, WorkShape, ActiveV4
  <2> QED
    BY <2>1, <2>2
<1> QED
  BY <1>1, <1>2, <1>3, <1>4, <1>5 DEF BlockedInv

LEMMA PrepareIsSafe ==
  ASSUME RunInv, NEW k \in Kinds,
         \/ BeginPrepare(k) \/ RecordPrepared(k) \/ RecordPrepareUnknown(k)
         \/ RecordPrepareFailure(k) \/ RecordPrepareInterrupted(k)
  PROVE  Safe(k) /\ BlockedInv'
<1> USE DEF RunInv
<1>1. /\ schema = "2.0" /\ schema' = schema /\ phase' = phase /\ ~Blocked
      /\ stage[k] \in {"NOT_STARTED", "PREPARE_INTENT"}
      /\ stage[k] = "NOT_STARTED" => Active(k)
      /\ UNCHANGED <<attempts, prompt, released, hash, rpc, receipt, correlation, statusText, eligible>>
      /\ \A j \in Kinds : j # k => stage'[j] = stage[j]
  BY DEF BeginPrepare, RecordPrepared, RecordPrepareUnknown, RecordPrepareFailure,
     RecordPrepareInterrupted, PrepareStep, chainVars, brickkenVars, logVars, IInv, TypeOK
<1>2. Active(k)
  BY <1>1, OnlyTokenize DEF Active, PhaseOf
<1>3. Safe(k)
  BY <1>1, <1>2 DEF Safe, Ambiguous, SameOperation, Blocked
<1>4. EndedShape' /\ (Ambiguous(k)' => status' = "RECONCILIATION_REQUIRED")
  <2>1. outcome = None /\ stage'[k] \in Stages \cup {"PREPARE_INTENT"}
    BY <1>1 DEF Blocked, BeginPrepare, RecordPrepared, RecordPrepareUnknown, RecordPrepareFailure,
       RecordPrepareInterrupted, PrepareStep, IInv, TypeOK, Stages, PreparationStages
  <2> QED
    BY <2>1 DEF EndedShape, Ambiguous, BeginPrepare, RecordPrepared, RecordPrepareUnknown,
       RecordPrepareFailure, RecordPrepareInterrupted, PrepareStep, IInv, TypeOK
<1> QED
  BY <1>1, <1>2, <1>3, <1>4, BlockedFrame DEF Safe, ActiveV4

\* The writes before the wallet answered are made on an operation that is open.
LEMMA WalletIsSafe ==
  ASSUME RunInv, NEW k \in Kinds,
         \/ Promote(k) \/ RecordInitialPreparation(k) \/ MarkPreparedStale(k)
         \/ BeginReprepare(k) \/ RecordReprepared(k) \/ RecordReprepareUnknown(k)
         \/ RecordReprepareRefused(k) \/ RecordWalletPrompt(k) \/ DropPromptAndMarkStale(k)
         \/ ReleaseSendAuthority(k) \/ RecordWalletRejected(k) \/ RecordBroadcastUnknown(k)
         \/ \E h \in Hashes : RecordBroadcastHash(k, h)
  PROVE  Safe(k) /\ BlockedInv'
<1> DEFINE InV4 ==
           \/ RecordInitialPreparation(k) \/ MarkPreparedStale(k)
           \/ BeginReprepare(k) \/ RecordReprepared(k) \/ RecordReprepareUnknown(k)
           \/ RecordReprepareRefused(k) \/ RecordWalletPrompt(k) \/ DropPromptAndMarkStale(k)
           \/ ReleaseSendAuthority(k) \/ RecordWalletRejected(k) \/ RecordBroadcastUnknown(k)
           \/ \E h \in Hashes : RecordBroadcastHash(k, h)
<1> USE DEF RunInv
<1>1. Active(k) /\ phase' = phase /\ eligible' = eligible /\ rpc' = rpc /\ receipt' = receipt
  BY DEF Promote, RecordInitialPreparation, MarkPreparedStale, BeginReprepare, chainVars,
     RecordReprepared, RecordReprepareUnknown, RecordReprepareRefused, EndReprepare,
     RecordWalletPrompt, DropPromptAndMarkStale, ReleaseSendAuthority, RecordWalletRejected,
     RecordBroadcastUnknown, RecordBroadcastHash, WalletStep, ActiveV4
<1>2. stage[k] \in OpenStages
  BY DEF Promote, RecordInitialPreparation, MarkPreparedStale, BeginReprepare,
     RecordReprepared, RecordReprepareUnknown, RecordReprepareRefused, EndReprepare,
     RecordWalletPrompt, DropPromptAndMarkStale, ReleaseSendAuthority, RecordWalletRejected,
     RecordBroadcastUnknown, RecordBroadcastHash, PromptUnspent, HoldsAuthority, OpenStages
<1>3. ~Blocked
  <2>1. CASE Promote(k)
    BY <2>1 DEF Promote
  <2>2. CASE InV4
    <3>1. ActiveV4(k)
      BY <2>2 DEF RecordInitialPreparation, MarkPreparedStale, BeginReprepare,
         RecordReprepared, RecordReprepareUnknown, RecordReprepareRefused, EndReprepare,
         RecordWalletPrompt, DropPromptAndMarkStale, ReleaseSendAuthority, RecordWalletRejected,
         RecordBroadcastUnknown, RecordBroadcastHash, WalletStep
    <3> QED
      BY <3>1, <1>2 DEF BlockedInv, WorkShape
  <2> QED
    BY <2>1, <2>2
<1>4. hash[k] = None
  BY <1>2 DEF IInv, ChainShape, OpenStages, ReleasedStages
<1>5. \A j \in Kinds : j # k => SameOperation(j)
  BY DEF SameOperation, Promote, RecordInitialPreparation, MarkPreparedStale, BeginReprepare,
     RecordReprepared, RecordReprepareUnknown, RecordReprepareRefused, EndReprepare,
     RecordWalletPrompt, DropPromptAndMarkStale, ReleaseSendAuthority, RecordWalletRejected,
     RecordBroadcastUnknown, RecordBroadcastHash, WalletStep, SetActiveAttempt, NewPrompt,
     chainVars, brickkenVars, logVars, IInv, TypeOK
<1>6. Safe(k)
  BY <1>1, <1>2, <1>3, <1>4, <1>5 DEF Safe, Ambiguous, OpenStages, Blocked
<1>7. EndedShape' /\ (stage'[k] \in OpenStages => ~Blocked')
      /\ (Ambiguous(k)' => status' = "RECONCILIATION_REQUIRED")
  <2>0. stage \in [Kinds -> Stages] /\ outcome = None /\ status # "RECONCILIATION_REQUIRED"
    BY <1>3 DEF Blocked, IInv, TypeOK
  <2>1. CASE Promote(k)
    BY <1>2, <2>0, <2>1 DEF Promote, EndedShape, Blocked, Ambiguous, OpenStages
  <2>2. CASE \/ RecordInitialPreparation(k) \/ MarkPreparedStale(k) \/ BeginReprepare(k)
             \/ RecordReprepared(k) \/ RecordWalletPrompt(k) \/ DropPromptAndMarkStale(k)
             \/ ReleaseSendAuthority(k) \/ RecordWalletRejected(k)
    <3>1. outcome' = outcome /\ status' # "RECONCILIATION_REQUIRED" /\ stage'[k] \in OpenStages
      BY <2>0, <2>2 DEF RecordInitialPreparation, MarkPreparedStale, BeginReprepare,
         RecordReprepared, EndReprepare, RecordWalletPrompt, DropPromptAndMarkStale,
         ReleaseSendAuthority, RecordWalletRejected, WalletStep, OpenStages
    <3> QED
      BY <2>0, <3>1 DEF EndedShape, Blocked, Ambiguous, OpenStages
  <2>3. CASE RecordReprepareUnknown(k) \/ RecordBroadcastUnknown(k)
    <3>1. outcome' = outcome /\ status' = "RECONCILIATION_REQUIRED" /\ stage'[k] \notin OpenStages
      BY <2>0, <2>3 DEF RecordReprepareUnknown, RecordBroadcastUnknown, EndReprepare, WalletStep,
         OpenStages
    <3> QED
      BY <2>0, <3>1 DEF EndedShape
  <2>4. CASE RecordReprepareRefused(k)
    <3>1. outcome' = "FAILED" /\ status' = "FAILED" /\ stage'[k] = "REJECTED"
      BY <2>0, <2>4 DEF RecordReprepareRefused, EndReprepare, WalletStep
    <3> QED
      BY <3>1 DEF EndedShape, Ambiguous, OpenStages
  <2>5. CASE \E h \in Hashes : RecordBroadcastHash(k, h)
    <3>1. outcome' = outcome /\ stage'[k] = "BROADCAST_HASH_PERSISTED"
      BY <2>0, <2>5 DEF RecordBroadcastHash, WalletStep
    <3> QED
      BY <2>0, <3>1 DEF EndedShape, Ambiguous, OpenStages
  <2> QED
    BY <2>1, <2>2, <2>3, <2>4, <2>5
<1> QED
  BY <1>1, <1>5, <1>6, <1>7, BlockedFrame

-----------------------------------------------------------------------------
(* On the chain and at Brickken *)

\* These writes leave what the wallet side decided alone.
LEMMA EvidenceFacts ==
  ASSUME NEW k \in Kinds, NEW n, EvidenceStep(k, n)
  PROVE  /\ Active(k) /\ (Trackable(k) \/ pollStep \in 1..(n - 1)) /\ schema' = schema
         /\ UNCHANGED <<released, attempts, prompt, hash, phase, eligible, correlation>>
BY DEF EvidenceStep, PollStep, ActiveV4

LEMMA CorrelationFacts ==
  ASSUME NEW k \in Kinds, NEW after, after \subseteq 1..4, CorrelationStep(k, after)
  PROVE  /\ Active(k) /\ (Trackable(k) \/ pollStep \in 1..4) /\ schema' = schema /\ ~Reverted(k)
         /\ UNCHANGED <<released, attempts, prompt, hash, phase, eligible, rpc, receipt, statusText>>
BY DEF CorrelationStep, PollStep, ActiveV4, chainVars

\* A transaction is looked at on a run that is open to tracking.
LEMMA TransactionIsSafe ==
  ASSUME RunInv, NEW k \in Kinds, NEW c \in Comparisons, VerifyTransaction(k, c)
  PROVE  Safe(k) /\ BlockedInv'
<1> USE DEF RunInv
<1>1. /\ Active(k) /\ schema' = schema
      /\ UNCHANGED <<released, attempts, prompt, hash, phase, eligible, correlation>>
      /\ Trackable(k) \/ pollStep \in 1..0
  BY EvidenceFacts DEF VerifyTransaction
<1>2. /\ stage[k] = "BROADCAST_HASH_PERSISTED" /\ outcome' = outcome
      /\ \A j \in Kinds : j # k => SameOperation(j)
      /\ receipt' = receipt
      /\ stage'[k] \in {"RPC_TRANSACTION_VERIFIED", "POLICY_VIOLATION_ONCHAIN",
                        "RPC_TRANSACTION_RECONCILIATION_REQUIRED"}
  BY <1>1 DEF VerifyTransaction, SameOperation, IInv, TypeOK
<1>3. outcome = None
  BY <1>1 DEF Trackable, Blocked
<1>4. rpc[k] = "NONE"
  BY <1>2 DEF IInv, ChainShape, ReceiptStages
<1>5. Safe(k)
  BY <1>1, <1>2, <1>3, <1>4 DEF Safe, Ambiguous
<1>6. EndedShape' /\ stage'[k] \notin OpenStages /\ ~Ambiguous(k)'
  BY <1>2, <1>3 DEF EndedShape, OpenStages, Ambiguous
<1> QED
  BY <1>1, <1>2, <1>5, <1>6, BlockedFrame

LEMMA ReceiptIsSafe ==
  ASSUME RunInv, NEW k \in Kinds, NEW r \in Receipts, RecordReceipt(k, r)
  PROVE  Safe(k) /\ BlockedInv'
<1> USE DEF RunInv
<1>1. /\ Active(k) /\ schema' = schema
      /\ UNCHANGED <<released, attempts, prompt, hash, phase, eligible, correlation>>
      /\ Trackable(k) \/ pollStep \in 1..1
  BY EvidenceFacts DEF RecordReceipt
<1>2. /\ stage[k] \in ReceiptStages /\ stage' = stage /\ rpc' = rpc
      /\ \A j \in Kinds : j # k => SameOperation(j)
  BY <1>1 DEF RecordReceipt, SameOperation, IInv, TypeOK
<1>3. outcome = None
  <2>1. CASE Trackable(k)
    BY <2>1 DEF Trackable, Blocked
  <2>2. CASE pollStep \in 1..1
    BY <2>2 DEF SuccessInv, OutcomeShape
  <2> QED
    BY <1>1, <2>1, <2>2
<1>4. (receipt[k] # None /\ receipt[k].finality = "FINALIZED") => receipt'[k] = receipt[k]
  BY DEF RecordReceipt, ReceiptAccepted
<1>5. Safe(k)
  BY <1>1, <1>2, <1>3, <1>4 DEF Safe, Ambiguous, ReceiptStages
<1>6. outcome' # None => status' \in {"FAILED", "RECONCILIATION_REQUIRED"}
  BY <1>3 DEF RecordReceipt
<1>7. EndedShape' /\ stage'[k] \notin OpenStages /\ ~Ambiguous(k)'
  BY <1>2, <1>6 DEF EndedShape, OpenStages, Ambiguous, ReceiptStages
<1> QED
  BY <1>1, <1>2, <1>5, <1>7, BlockedFrame

\* Correlation goes on only with a run that has not ended, even when a refusal
\* writes the outcome anew.
LEMMA CorrelationIsSafe ==
  ASSUME RunInv, NEW k \in Kinds,
         \/ BeginCorrelation(k) \/ RecordCorrelationUncertain(k)
         \/ AuthorizeCorrelationRetry(k) \/ ExhaustCorrelation(k)
         \/ RecordCorrelated(k) \/ RefuseCorrelation(k)
  PROVE  Safe(k) /\ BlockedInv'
<1> USE DEF RunInv
<1>1. CorrelationStep(k, {1, 2}) \/ CorrelationStep(k, {1, 2, 3})
  BY DEF BeginCorrelation, RecordCorrelationUncertain, AuthorizeCorrelationRetry,
     ExhaustCorrelation, RecordCorrelated, RefuseCorrelation
<1>2. /\ Active(k) /\ (Trackable(k) \/ pollStep \in 1..4) /\ schema' = schema /\ ~Reverted(k)
      /\ UNCHANGED <<released, attempts, prompt, hash, phase, eligible, rpc, receipt, statusText>>
  BY <1>1, CorrelationFacts
<1>3. outcome = None
  BY <1>2, GoesOnUnended
<1>4. outcome' = None
  BY <1>3 DEF BeginCorrelation, RecordCorrelationUncertain, AuthorizeCorrelationRetry,
     ExhaustCorrelation, RecordCorrelated, RefuseCorrelation
<1>5. /\ stage[k] \in {"RPC_TRANSACTION_VERIFIED", "POLICY_VIOLATION_ONCHAIN",
                       "BRICKKEN_CORRELATION_PENDING"}
      /\ stage'[k] \in {"BRICKKEN_CORRELATION_PENDING", "BRICKKEN_CORRELATED"}
      /\ \A j \in Kinds : j # k => stage'[j] = stage[j] /\ correlation'[j] = correlation[j]
  BY DEF BeginCorrelation, RecordCorrelationUncertain, AuthorizeCorrelationRetry,
     ExhaustCorrelation, RecordCorrelated, RefuseCorrelation, CorrelationAuthorized,
     CorrelationUncertain, IInv, TypeOK
<1>6. Safe(k)
  BY <1>2, <1>3, <1>4, <1>5 DEF Safe, Ambiguous, SameOperation
<1>7. EndedShape' /\ stage'[k] \notin OpenStages /\ ~Ambiguous(k)'
  BY <1>4, <1>5 DEF EndedShape, OpenStages, Ambiguous
<1> QED
  BY <1>2, <1>6, <1>7, BlockedFrame DEF Safe

LEMMA StatusIsSafe ==
  ASSUME RunInv, NEW k \in Kinds,
         (\E t \in StatusTexts : RecordStatus(k, t)) \/ RecordStatusContradiction(k)
  PROVE  Safe(k) /\ BlockedInv'
<1> USE DEF RunInv
<1>1. /\ Active(k) /\ schema' = schema
      /\ UNCHANGED <<released, attempts, prompt, hash, phase, eligible, correlation>>
  BY EvidenceFacts DEF RecordStatus, RecordStatusContradiction
<1>2. /\ stage[k] = "BRICKKEN_CORRELATED" /\ UNCHANGED <<stage, rpc, receipt, outcome>>
      /\ \A j \in Kinds : j # k => SameOperation(j)
  BY <1>1 DEF RecordStatus, RecordStatusContradiction, SameOperation, IInv, TypeOK
<1>3. status' = status \/ status' = "RECONCILIATION_REQUIRED"
  BY DEF RecordStatus, RecordStatusContradiction
<1>4. Safe(k)
  BY <1>1, <1>2 DEF Safe, Ambiguous
<1>5. EndedShape' /\ stage'[k] \notin OpenStages /\ ~Ambiguous(k)'
  BY <1>2, <1>3 DEF EndedShape, OpenStages, Ambiguous, BlockedInv
<1> QED
  BY <1>1, <1>2, <1>4, <1>5, BlockedFrame

-----------------------------------------------------------------------------
(* Read-back and the budget *)

\* A read-back moves the run on only if nothing blocks it.
LEMMA ReadBackIsSafe ==
  ASSUME RunInv, RecordTokenIdentity \/ RecordWhitelistReadBack \/ RecordMintReadBack
  PROVE  (\E k \in Kinds : Safe(k)) /\ BlockedInv'
<1> USE DEF RunInv
<1>1. PICK k \in Kinds :
          /\ PollStep(k, 5, 1..4) /\ ReadBackReady(k) /\ outcome' = outcome
          /\ stage' = [stage EXCEPT ![k] = "READ_BACK_VERIFIED"]
          /\ UNCHANGED <<schema, attempts, prompt, chainVars, brickkenVars, logVars>>
          /\ status' \in {"PREPARING", "SUCCEEDED"}
          /\ \/ phase' = phase
             \/ k = "TOKENIZE" /\ phase' = "WHITELIST"
             \/ k = "WHITELIST" /\ phase' = "MINT"
             \/ k = "MINT" /\ phase' = "VERIFICATION"
  BY DEF RecordTokenIdentity, RecordWhitelistReadBack, RecordMintReadBack, ReadBackStep,
     PollStep, ReadBackReady, ActiveV4, Active, PhaseOf, Kinds
<1>2. /\ Active(k) /\ stage[k] = "BRICKKEN_CORRELATED" /\ ~Reverted(k)
      /\ Trackable(k) \/ pollStep \in 1..4
      /\ status # "RECONCILIATION_REQUIRED"
  BY <1>1 DEF PollStep, ReadBackReady, ActiveV4, Reverted
<1>3. outcome = None /\ ~Blocked
  BY <1>2, GoesOnUnended DEF Blocked
<1>4. \A j \in Kinds : j # k => SameOperation(j)
  BY <1>1 DEF SameOperation, chainVars, brickkenVars, logVars, IInv, TypeOK
<1>5. Safe(k)
  BY <1>1, <1>2, <1>3, <1>4 DEF Safe, Ambiguous, chainVars
<1>6. EndedShape' /\ WorkShape'
  BY <1>1, <1>3 DEF EndedShape, WorkShape, Blocked
<1>7. AmbiguityShape'
  <2>1. SUFFICES ASSUME NEW j \in Kinds, Ambiguous(j)'
                 PROVE  FALSE
    BY DEF AmbiguityShape, Ambiguous
  <2>2. j # k /\ stage'[j] = stage[j]
    BY <1>1, <1>4, <2>1 DEF SameOperation, Ambiguous, IInv, TypeOK
  <2> QED
    BY <1>2, <2>1, <2>2, OthersSettled DEF IInv, Pristine, Ambiguous
<1> QED
  BY <1>5, <1>6, <1>7 DEF BlockedInv

LEMMA BudgetIsSafe ==
  ASSUME RunInv, NEW k \in Kinds,
         RecordReadBackMismatch(k) \/ ReserveTracking(k) \/ ExhaustTracking(k)
  PROVE  Safe(k) /\ BlockedInv'
<1> USE DEF RunInv
<1>1. /\ Active(k) /\ stage[k] # "READ_BACK_VERIFIED"
      /\ stage[k] = "BRICKKEN_CORRELATED" \/ hash[k] # None
      /\ UNCHANGED <<schema, phase, eligible, stage, attempts, prompt, hash, rpc, receipt,
                     correlation, statusText, released>>
      /\ outcome = None
  BY DEF RecordReadBackMismatch, ReserveTracking, ExhaustTracking, PollStep, ReadBackReady,
     Trackable, ActiveV4, Blocked, runVars, walletVars, chainVars, brickkenVars, logVars
<1>2. stage[k] \notin OpenStages /\ ~Ambiguous(k)
  BY <1>1 DEF IInv, ChainShape, OpenStages, Ambiguous, ReleasedStages
<1>3. Safe(k)
  BY <1>1, <1>2 DEF Safe, SameOperation
<1>4. outcome' # None => status' = "FAILED"
  BY <1>1 DEF RecordReadBackMismatch, ReserveTracking, ExhaustTracking, runVars
<1>5. EndedShape' /\ stage'[k] \notin OpenStages /\ ~Ambiguous(k)'
  BY <1>1, <1>2, <1>4 DEF EndedShape, Ambiguous
<1> QED
  BY <1>1, <1>3, <1>5, BlockedFrame DEF Safe

-----------------------------------------------------------------------------
(* The action properties *)

\* A step leaves the operations alone, with a run that is not blocked; or works on
\* the active one and respects what every write respects.
LEMMA StepIsSafe ==
  ASSUME RunInv, Next
  PROVE  /\ BlockedInv'
         /\ \/ /\ UNCHANGED <<eligible, walletVars, chainVars, brickkenVars, logVars>>
               /\ ~Blocked /\ \A k \in Kinds : ~Ambiguous(k)
            \/ \E k \in Kinds : Safe(k)
<1>1. CASE Approve \/ Cancel
  BY <1>1, ApprovalIsSafe
<1>2. CASE PrepareV2
  BY <1>2, PrepareIsSafe, WalletIsSafe DEF PrepareV2
<1>3. CASE PrepareV4 \/ Wallet
  BY <1>3, WalletIsSafe DEF PrepareV4, Wallet
<1>4. CASE Evidence
  BY <1>4, TransactionIsSafe, ReceiptIsSafe DEF Evidence
<1>5. CASE Brickken
  BY <1>5, CorrelationIsSafe, StatusIsSafe DEF Brickken
<1>6. CASE Tracking
  BY <1>6, ReadBackIsSafe, BudgetIsSafe DEF Tracking
<1> QED
  BY <1>1, <1>2, <1>3, <1>4, <1>5, <1>6 DEF Next

LEMMA RunInvKept == ASSUME RunInv, [Next]_vars PROVE RunInv'
<1>1. IInv' /\ SuccessInv'
  BY NextKeeps, StutterKeeps, SuccessKept DEF RunInv
<1>2. CASE Next
  BY <1>1, <1>2, StepIsSafe DEF RunInv
<1>3. CASE UNCHANGED vars
  BY <1>1, <1>3 DEF RunInv, BlockedInv, EndedShape, WorkShape, AmbiguityShape, ActiveV4, Active,
     Blocked, vars, runVars, walletVars
<1> QED
  BY <1>2, <1>3

\* The run never leaves RunInv.
THEOREM RunInvariant == Spec => []RunInv
<1>1. Init => RunInv
  <2>1. Init => IInv
    BY InitHolds
  <2>2. Init => SuccessInv
    BY DEF Init, SuccessInv, SuccessMeansVerified, OutcomeShape
  <2>3. Init => BlockedInv
    BY DEF Init, BlockedInv, EndedShape, WorkShape, AmbiguityShape, Blocked
  <2> QED
    BY <2>1, <2>2, <2>3 DEF RunInv
<1>2. RunInv /\ [Next]_vars => RunInv'
  BY RunInvKept
<1> QED
  BY <1>1, <1>2, PTL DEF Spec

\* What blocks a run (assertNotTerminal, assertNotBlocked) blocks all of it: no stage is
\* left in which its user could start anything.
THEOREM BlockedInvariant == Spec => []BlockedInv
<1>1. RunInv => BlockedInv
  BY DEF RunInv
<1> QED
  BY <1>1, RunInvariant, PTL

\* A run that ended, or needs a person, gives no authority, starts no preparation and
\* takes no hash any more, and its outcome is not replaced.
THEOREM BlockedStaysInert == Spec => BlockedRunIsInert
<1>1. ASSUME RunInv, [Next]_vars
      PROVE  /\ Blocked => UNCHANGED <<released, attempts, prompt, hash, phase, eligible>>
             /\ outcome # None => outcome' = outcome
  <2>1. CASE Next
    BY <1>1, <2>1, StepIsSafe DEF Safe, Blocked
  <2>2. CASE UNCHANGED vars
    BY <2>2 DEF vars, runVars, walletVars, chainVars, logVars
  <2> QED
    BY <1>1, <2>1, <2>2
<1> QED
  BY <1>1, RunInvariant, PTL DEF Spec, BlockedRunIsInert

Durable ==
    \A k \in Kinds :
        /\ hash[k] # None => hash'[k] = hash[k]
        /\ rpc[k] # "NONE" => rpc'[k] = rpc[k]
        /\ (receipt[k] # None /\ receipt[k].finality = "FINALIZED") => receipt'[k] = receipt[k]
        /\ stage[k] = "READ_BACK_VERIFIED" =>
               /\ stage'[k] = stage[k]
               /\ UNCHANGED <<attempts[k], prompt[k], receipt[k], correlation[k]>>

LEMMA StepIsDurable == ASSUME RunInv, [Next]_vars PROVE Durable
<1> USE DEF Durable
<1>1. CASE \E k \in Kinds : Safe(k)
  BY <1>1 DEF Safe, SameOperation
<1>2. CASE UNCHANGED <<walletVars, chainVars, brickkenVars>>
  BY <1>2 DEF walletVars, chainVars, brickkenVars
<1> QED
  BY <1>1, <1>2, StepIsSafe DEF vars

\* A hash, a comparison and a final receipt are never replaced, and a verified
\* operation is never touched again.
THEOREM EvidenceStays == Spec => EvidenceIsDurable
<1>1. RunInv /\ [Next]_vars => Durable
  BY StepIsDurable
<1> QED
  BY <1>1, RunInvariant, PTL DEF Spec, EvidenceIsDurable, Durable

\* An ambiguous submission or preparation stays what it is, in a run that waits for a
\* person: nothing is resent.
THEOREM AmbiguityIsFinal == Spec => AmbiguityFailsClosed
<1>1. ASSUME RunInv, [Next]_vars
      PROVE  \A k \in Kinds : Ambiguous(k) =>
                 stage'[k] = stage[k] /\ status' = "RECONCILIATION_REQUIRED"
  <2>1. CASE Next
    <3>1. SUFFICES ASSUME NEW k \in Kinds, Ambiguous(k)
                   PROVE  stage'[k] = stage[k]
      BY <1>1, <2>1, StepIsSafe DEF BlockedInv, AmbiguityShape, Ambiguous
    <3> QED
      BY <1>1, <2>1, <3>1, StepIsSafe DEF Safe, SameOperation
  <2>2. CASE UNCHANGED vars
    BY <1>1, <2>2 DEF RunInv, BlockedInv, AmbiguityShape, Ambiguous, vars, runVars, walletVars
  <2> QED
    BY <1>1, <2>1, <2>2
<1> QED
  BY <1>1, RunInvariant, PTL DEF Spec, AmbiguityFailsClosed, Ambiguous

-----------------------------------------------------------------------------
(* States a run may be found in *)

\* A predecessor, prepared, prompted and correlated once and verified.
SettledAtFirst(j) ==
    /\ stage[j] = "READ_BACK_VERIFIED"
    /\ attempts[j] # << >> /\ Len(attempts[j]) = 1 /\ attempts[j][1] = "PREPARED"
    /\ prompt[j] # None /\ prompt[j].invocation = "INVOKED_OR_UNKNOWN" /\ prompt[j].attempt = 1
    /\ hash[j] # None /\ rpc[j] = "WITHIN_ENVELOPE"
    /\ receipt[j] # None /\ receipt[j].execution = "SUCCESS"
    /\ receipt[j].identity = "MATCH" /\ receipt[j].finality = "FINALIZED"
    /\ correlation[j] # None /\ correlation[j].attempt = 1 /\ correlation[j].hash = hash[j]
    /\ correlation[j].lifecycle = "CORRELATED" /\ released[j] = 1

LEMMA SettledHolds ==
  ASSUME NEW j \in Kinds, SettledAtFirst(j)
  PROVE  Shape(j)
<1> USE DEF SettledAtFirst
<1>1. WalletShape(j)
  BY DEF WalletShape, AttemptFitsStage, PromptStages, ReleasedStages, PreparationStages
<1>2. ChainShape(j)
  BY DEF ChainShape, ReceiptStages, ReleasedStages
<1>3. CorrelationShape(j)
  BY DEF CorrelationShape, CorrelationStages
<1> QED
  BY <1>1, <1>2, <1>3 DEF Shape

LEMMA PristineHolds == ASSUME NEW j \in Kinds, Pristine(j) PROVE Shape(j)
<1> USE DEF Pristine
<1>1. WalletShape(j)
  BY DEF WalletShape, AttemptFitsStage, PromptStages, ReleasedStages
<1>2. ChainShape(j)
  BY DEF ChainShape, ReceiptStages, ReleasedStages
<1>3. CorrelationShape(j)
  BY DEF CorrelationShape, CorrelationStages
<1> QED
  BY <1>1, <1>2, <1>3 DEF Shape

=============================================================================
