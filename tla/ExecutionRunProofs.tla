------------------------ MODULE ExecutionRunProofs --------------------------
(***************************************************************************)
(* Proofs about ExecutionRun, for every scope, every set of hashes,        *)
(* inclusions and status texts, and every value of the three limits.       *)
(*                                                                         *)
(* The invariance of IInv goes action by action.  An action works on the   *)
(* operation k of the current phase and leaves the other two alone, and    *)
(* those are settled: untouched, or verified.  StepFrame says once that    *)
(* what holds of them, and of the phase, keeps holding; each action then   *)
(* only answers for its own operation.                                     *)
(***************************************************************************)
EXTENDS ExecutionRunInv, TLAPS, SequenceTheorems

-----------------------------------------------------------------------------
(* Attempts *)

\* Changing the state of the active attempt keeps the list's length.
LEMMA ActiveAttemptReplaced ==
  ASSUME TypeOK, NEW k \in Kinds, attempts[k] # << >>, NEW state \in AttemptStates
  PROVE  LET new == SetActiveAttempt(k, state) IN
         /\ new \in [Kinds -> Seq(AttemptStates)]
         /\ \A j \in Kinds : j # k => new[j] = attempts[j]
         /\ \A j \in Kinds : Len(new[j]) = Len(attempts[j])
         /\ new[k] # << >>
         /\ new[k][Len(new[k])] = state
<1> DEFINE s == attempts[k]
           t == [s EXCEPT ![Len(s)] = state]
           new == [attempts EXCEPT ![k] = t]
<1>1. s \in Seq(AttemptStates)
  BY DEF TypeOK
<1>2. Len(s) \in 1..Len(s)
  BY <1>1
<1>3. /\ t \in Seq(AttemptStates)
      /\ Len(t) = Len(s)
      /\ t[Len(s)] = state
  <2>1. /\ t \in Seq(AttemptStates)
        /\ Len(t) = Len(s)
        /\ \A j \in 1..Len(s) : t[j] = IF j = Len(s) THEN state ELSE s[j]
    <3> HIDE DEF s
    <3> QED
      BY <1>1, <1>2, ExceptSeq
  <2> QED
    BY <2>1, <1>2
<1>4. SetActiveAttempt(k, state) = new
  BY DEF SetActiveAttempt
<1>5. new \in [Kinds -> Seq(AttemptStates)] /\ new[k] = t
      /\ \A j \in Kinds : j # k => new[j] = attempts[j]
  BY <1>3 DEF TypeOK
<1> QED
  BY <1>1, <1>2, <1>3, <1>4, <1>5

\* Appending an attempt makes it the active one.
LEMMA AttemptAppended ==
  ASSUME TypeOK, NEW k \in Kinds, NEW state \in AttemptStates
  PROVE  LET new == [attempts EXCEPT ![k] = Append(@, state)] IN
         /\ new \in [Kinds -> Seq(AttemptStates)]
         /\ \A j \in Kinds : j # k => new[j] = attempts[j]
         /\ Len(new[k]) = Len(attempts[k]) + 1
         /\ new[k] # << >>
         /\ new[k][Len(new[k])] = state
<1>1. attempts[k] \in Seq(AttemptStates)
  BY DEF TypeOK
<1>2. /\ Append(attempts[k], state) \in Seq(AttemptStates)
      /\ Append(attempts[k], state) # << >>
      /\ Len(Append(attempts[k], state)) = Len(attempts[k]) + 1
      /\ Append(attempts[k], state)[Len(attempts[k]) + 1] = state
  BY <1>1, AppendProperties
<1> QED
  BY <1>2 DEF TypeOK

\* A new prompt is bound to the active attempt.
LEMMA PromptBound ==
  ASSUME TypeOK, NEW k \in Kinds, attempts[k] # << >>,
         NEW i \in {"PROVEN_NOT_INVOKED", "INVOKED_OR_UNKNOWN"}
  PROVE  LET new == NewPrompt(k, i) IN
         /\ new \in [Kinds -> Prompts \cup {None}]
         /\ \A j \in Kinds : j # k => new[j] = prompt[j]
         /\ new[k] # None
         /\ new[k].invocation = i /\ new[k].attempt = Len(attempts[k])
<1> DEFINE p == [invocation |-> i, attempt |-> Len(attempts[k])]
<1>1. Len(attempts[k]) \in 1..MaxPreparations
  BY BudgetAssumption DEF TypeOK
<1>2. p \in Prompts
  BY <1>1 DEF Prompts
<1>3. p # None
  BY <1>2, NoneAssumption
<1> HIDE DEF p
<1>4. [prompt EXCEPT ![k] = p] \in [Kinds -> Prompts \cup {None}]
  BY <1>2 DEF TypeOK
<1>5. /\ [prompt EXCEPT ![k] = p][k] = p
      /\ \A j \in Kinds : j # k => [prompt EXCEPT ![k] = p][j] = prompt[j]
  BY DEF TypeOK
<1> QED
  BY <1>3, <1>4, <1>5 DEF NewPrompt, p

-----------------------------------------------------------------------------
(* Operations the current action does not work on *)

SameOperation(j) ==
    /\ stage'[j] = stage[j] /\ attempts'[j] = attempts[j] /\ prompt'[j] = prompt[j]
    /\ released'[j] = released[j] /\ hash'[j] = hash[j] /\ rpc'[j] = rpc[j]
    /\ receipt'[j] = receipt[j] /\ correlation'[j] = correlation[j]
    /\ statusText'[j] = statusText[j]

Shape(k) == WalletShape(k) /\ ChainShape(k) /\ CorrelationShape(k)

LEMMA OthersSettled ==
  ASSUME PhaseShape, NEW k \in Kinds, Active(k), NEW j \in Kinds, j # k
  PROVE  Pristine(j) \/ stage[j] = "READ_BACK_VERIFIED"
BY DEF PhaseShape, Active, PhaseOf, Kinds

LEMMA OthersKeepShape ==
  ASSUME IInv, NEW k \in Kinds, Active(k), schema' = schema,
         \A j \in Kinds : j # k => SameOperation(j)
  PROVE  \A j \in Kinds : j # k => Shape(j)'
<1> SUFFICES ASSUME NEW j \in Kinds, j # k
             PROVE  Shape(j)'
  OBVIOUS
<1>1. SameOperation(j) /\ Shape(j)
  BY DEF IInv, Shape
<1>2. WalletShape(j)'
  BY <1>1 DEF Shape, SameOperation, WalletShape, AttemptFitsStage
<1>3. rpc[j] \notin {"MISMATCH", "POLICY_VIOLATION"}
  BY <1>1, OthersSettled DEF IInv, Shape, ChainShape, Pristine
<1>4. ChainShape(j)'
  BY <1>1, <1>3 DEF Shape, SameOperation, ChainShape
<1>5. CorrelationShape(j)'
  BY <1>1 DEF Shape, SameOperation, CorrelationShape
<1> QED
  BY <1>2, <1>4, <1>5 DEF Shape

LEMMA StepFrame ==
  ASSUME IInv, NEW k \in Kinds, Active(k), schema = "4.0",
         schema' = schema, phase' = phase, tokenIdentity' = tokenIdentity,
         stage[k] # "READ_BACK_VERIFIED", stage'[k] # "READ_BACK_VERIFIED",
         \A j \in Kinds : j # k => SameOperation(j)
  PROVE  /\ PhaseShape' /\ SchemaShape' /\ TokenShape'
         /\ \A j \in Kinds : j # k => Shape(j)'
<1>1. PhaseShape'
  BY DEF IInv, PhaseShape, Pristine, SameOperation, Active, PhaseOf, Kinds
<1>2. SchemaShape'
  BY DEF SchemaShape
<1>3. TokenShape'
  BY DEF IInv, TokenShape, SameOperation, Kinds
<1> QED
  BY <1>1, <1>2, <1>3, OthersKeepShape

-----------------------------------------------------------------------------
(* Preparation and the wallet (schema 4.0) *)

\* The sets of stages are enumerations, expanded in every proof below.
USE DEF PreparationStages, PromptStages, ReleasedStages, ReceiptStages, CorrelationStages, Stages

\* Send authority aside, what the wallet-side writes have in common: the run
\* keeps its types, and keeps IInv if operation k keeps its shape.
LEMMA WalletFrame ==
  ASSUME IInv, NEW k \in Kinds, NEW to \in Stages \ {"READ_BACK_VERIFIED"},
         NEW newStatus \in Statuses, WalletStep(k, to, newStatus),
         stage[k] # "READ_BACK_VERIFIED",
         outcome' \in Outcomes \cup {None},
         attempts' \in [Kinds -> Seq(AttemptStates)], Len(attempts'[k]) <= MaxPreparations,
         prompt' \in [Kinds -> Prompts \cup {None}],
         hash' \in [Kinds -> Hashes \cup {None}],
         released' \in [Kinds -> Nat],
         \A j \in Kinds : j # k =>
             /\ attempts'[j] = attempts[j] /\ prompt'[j] = prompt[j]
             /\ hash'[j] = hash[j] /\ released'[j] = released[j]
  PROVE  /\ stage'[k] = to
         /\ Shape(k)' => IInv'
<1> USE DEF WalletStep, ActiveV4, NotPolling
<1>0. TypeOK
  BY DEF IInv
<1>1. stage' \in [Kinds -> Stages] /\ stage'[k] = to
      /\ \A j \in Kinds : j # k => stage'[j] = stage[j]
  BY <1>0 DEF TypeOK
<1>2. UNCHANGED <<schema, phase, eligible, tokenIdentity, rpc, receipt, correlation,
                  statusText, reserved, refused>>
  BY DEF brickkenVars
<1>3. status' \in Statuses /\ pollStep' \in 0..5
  OBVIOUS
<1>4. \A j \in Kinds : Len(attempts'[j]) <= MaxPreparations
  BY <1>0 DEF TypeOK
<1>5. TypeOK'
  <2> HIDE DEF WalletStep, NotPolling
  <2> QED
    BY <1>0, <1>1, <1>2, <1>3, <1>4 DEF TypeOK
<1>6. \A j \in Kinds : j # k => SameOperation(j)
  BY <1>1, <1>2 DEF SameOperation
<1> QED
  BY <1>1, <1>5, <1>6, StepFrame DEF IInv, Shape

LEMMA InitialPreparationKeeps ==
  ASSUME IInv, NEW k \in Kinds, RecordInitialPreparation(k)
  PROVE  IInv'
<1> USE DEF RecordInitialPreparation
<1>0. TypeOK /\ Shape(k)
  BY DEF IInv, Shape
<1>1. /\ attempts'[k] = <<"PREPARED">> /\ Len(attempts'[k]) = 1
      /\ attempts' \in [Kinds -> Seq(AttemptStates)]
      /\ \A j \in Kinds : j # k => attempts'[j] = attempts[j]
  BY <1>0 DEF TypeOK, AttemptStates
<1>2. Len(attempts'[k]) <= MaxPreparations
  BY <1>1, BudgetAssumption
<1>3. stage'[k] = "PREPARED" /\ (Shape(k)' => IInv')
  BY <1>0, <1>1, <1>2, WalletFrame
  DEF TypeOK, Statuses
<1>4. Shape(k)'
  BY <1>0, <1>1, <1>3
  DEF Shape, WalletShape, ChainShape, CorrelationShape, AttemptFitsStage, WalletStep, brickkenVars
<1> QED
  BY <1>3, <1>4

LEMMA WalletPromptKeeps ==
  ASSUME IInv, NEW k \in Kinds, RecordWalletPrompt(k)
  PROVE  IInv'
<1> USE DEF RecordWalletPrompt
<1>0. TypeOK /\ Shape(k)
  BY DEF IInv, Shape
<1>1. attempts[k] # << >>
  BY <1>0 DEF Shape, WalletShape, WalletStep, ActiveV4
<1>2. /\ prompt' \in [Kinds -> Prompts \cup {None}]
      /\ \A j \in Kinds : j # k => prompt'[j] = prompt[j]
      /\ prompt'[k] # None
      /\ prompt'[k].invocation = "PROVEN_NOT_INVOKED"
      /\ prompt'[k].attempt = Len(attempts[k])
  BY <1>0, <1>1, PromptBound
<1>3. stage'[k] = "WALLET_PROMPT_RECORDED" /\ (Shape(k)' => IInv')
  BY <1>0, <1>2, WalletFrame DEF TypeOK, Statuses
<1>4. Shape(k)'
  BY <1>0, <1>1, <1>2, <1>3
  DEF Shape, WalletShape, ChainShape, CorrelationShape, AttemptFitsStage, WalletStep, brickkenVars
<1> QED
  BY <1>3, <1>4

LEMMA PreparedStaleKeeps ==
  ASSUME IInv, NEW k \in Kinds, MarkPreparedStale(k)
  PROVE  IInv'
<1> USE DEF MarkPreparedStale
<1>0. TypeOK /\ Shape(k)
  BY DEF IInv, Shape
<1>1. attempts[k] # << >>
  BY <1>0 DEF Shape, WalletShape, AttemptFitsStage, WalletStep, ActiveV4
<1>2. /\ attempts' \in [Kinds -> Seq(AttemptStates)]
      /\ \A j \in Kinds : j # k => attempts'[j] = attempts[j]
      /\ Len(attempts'[k]) = Len(attempts[k])
      /\ attempts'[k] # << >>
      /\ attempts'[k][Len(attempts'[k])] = "STALE"
  BY <1>0, <1>1, ActiveAttemptReplaced DEF AttemptStates
<1>3. stage'[k] = "PREPARED_STALE" /\ (Shape(k)' => IInv')
  BY <1>0, <1>2, WalletFrame DEF TypeOK, Statuses
<1>4. Shape(k)'
  BY <1>0, <1>1, <1>2, <1>3
  DEF Shape, WalletShape, ChainShape, CorrelationShape, AttemptFitsStage, WalletStep, brickkenVars
<1> QED
  BY <1>3, <1>4

LEMMA BeginReprepareKeeps ==
  ASSUME IInv, NEW k \in Kinds, BeginReprepare(k)
  PROVE  IInv'
<1> USE DEF BeginReprepare
<1>0. TypeOK /\ Shape(k)
  BY DEF IInv, Shape
<1>1. attempts[k] # << >>
  BY <1>0 DEF Shape, WalletShape, AttemptFitsStage, WalletStep, ActiveV4
<1>2. /\ attempts' \in [Kinds -> Seq(AttemptStates)]
      /\ \A j \in Kinds : j # k => attempts'[j] = attempts[j]
      /\ Len(attempts'[k]) <= MaxPreparations
      /\ attempts'[k] # << >>
      /\ attempts'[k][Len(attempts'[k])] = "REPREPARE_INTENT"
  BY <1>0, AttemptAppended, BudgetAssumption DEF AttemptStates, MayPrepareAgain, TypeOK
<1>3. stage'[k] = "REPREPARE_INTENT" /\ (Shape(k)' => IInv')
  BY <1>0, <1>2, WalletFrame DEF TypeOK, Statuses
<1>4. Shape(k)'
  BY <1>0, <1>1, <1>2, <1>3
  DEF Shape, WalletShape, ChainShape, CorrelationShape, AttemptFitsStage, WalletStep, brickkenVars
<1> QED
  BY <1>3, <1>4

LEMMA EndReprepareKeeps ==
  ASSUME IInv, NEW k \in Kinds, NEW newStatus \in Statuses,
         NEW state \in AttemptStates, NEW to \in {"PREPARED", "PREPARE_UNKNOWN", "REJECTED"},
         to = "PREPARED" => state = "PREPARED",
         to = "PREPARE_UNKNOWN" => state = "PREPARE_UNKNOWN",
         to = "REJECTED" => state = "REFUSED",
         outcome' \in Outcomes \cup {None},
         EndReprepare(k, state, to, newStatus)
  PROVE  IInv'
<1> USE DEF EndReprepare
<1>0. TypeOK /\ Shape(k)
  BY DEF IInv, Shape
<1>1. attempts[k] # << >>
  BY <1>0 DEF Shape, WalletShape, AttemptFitsStage, WalletStep, ActiveV4
<1>2. /\ attempts' \in [Kinds -> Seq(AttemptStates)]
      /\ \A j \in Kinds : j # k => attempts'[j] = attempts[j]
      /\ Len(attempts'[k]) = Len(attempts[k])
      /\ attempts'[k] # << >>
      /\ attempts'[k][Len(attempts'[k])] = state
  BY <1>0, <1>1, ActiveAttemptReplaced
<1>3. stage'[k] = to /\ (Shape(k)' => IInv')
  BY <1>0, <1>2, WalletFrame DEF TypeOK, Statuses
<1>4. Shape(k)'
  BY <1>0, <1>1, <1>2, <1>3
  DEF Shape, WalletShape, ChainShape, CorrelationShape, AttemptFitsStage, WalletStep, brickkenVars
<1> QED
  BY <1>3, <1>4

LEMMA DropPromptKeeps ==
  ASSUME IInv, NEW k \in Kinds, DropPromptAndMarkStale(k)
  PROVE  IInv'
<1> USE DEF DropPromptAndMarkStale, PromptUnspent
<1>0. TypeOK /\ Shape(k)
  BY DEF IInv, Shape
<1>1. attempts[k] # << >>
  BY <1>0 DEF Shape, WalletShape, WalletStep, ActiveV4
<1>2. /\ attempts' \in [Kinds -> Seq(AttemptStates)]
      /\ \A j \in Kinds : j # k => attempts'[j] = attempts[j]
      /\ Len(attempts'[k]) = Len(attempts[k])
      /\ attempts'[k] # << >>
      /\ attempts'[k][Len(attempts'[k])] = "STALE"
  BY <1>0, <1>1, ActiveAttemptReplaced DEF AttemptStates
<1>3. /\ prompt' \in [Kinds -> Prompts \cup {None}] /\ prompt'[k] = None
      /\ \A j \in Kinds : j # k => prompt'[j] = prompt[j]
  BY <1>0 DEF TypeOK
<1>4. stage'[k] = "PREPARED_STALE" /\ (Shape(k)' => IInv')
  BY <1>0, <1>2, <1>3, WalletFrame DEF TypeOK, Statuses
<1>5. Shape(k)'
  BY <1>0, <1>1, <1>2, <1>3, <1>4
  DEF Shape, WalletShape, ChainShape, CorrelationShape, AttemptFitsStage, WalletStep, brickkenVars
<1> QED
  BY <1>4, <1>5

LEMMA ReleaseKeeps ==
  ASSUME IInv, NEW k \in Kinds, ReleaseSendAuthority(k)
  PROVE  IInv'
<1> USE DEF ReleaseSendAuthority, PromptUnspent
<1>0. TypeOK /\ Shape(k)
  BY DEF IInv, Shape
<1>1. attempts[k] # << >> /\ released[k] = 0
  BY <1>0 DEF Shape, WalletShape, WalletStep, ActiveV4
<1>2. /\ prompt' \in [Kinds -> Prompts \cup {None}]
      /\ \A j \in Kinds : j # k => prompt'[j] = prompt[j]
      /\ prompt'[k] # None
      /\ prompt'[k].invocation = "INVOKED_OR_UNKNOWN"
      /\ prompt'[k].attempt = Len(attempts[k])
  BY <1>0, <1>1, PromptBound
<1>3. /\ released' \in [Kinds -> Nat] /\ released'[k] = 1
      /\ \A j \in Kinds : j # k => released'[j] = released[j]
  BY <1>0, <1>1 DEF TypeOK
<1>4. stage'[k] = "WALLET_PROMPT_RECORDED" /\ (Shape(k)' => IInv')
  BY <1>0, <1>2, <1>3, WalletFrame DEF TypeOK, Statuses
<1>5. Shape(k)'
  BY <1>0, <1>1, <1>2, <1>3, <1>4
  DEF Shape, WalletShape, ChainShape, CorrelationShape, AttemptFitsStage, WalletStep, brickkenVars
<1> QED
  BY <1>4, <1>5

LEMMA WalletRejectedKeeps ==
  ASSUME IInv, NEW k \in Kinds, RecordWalletRejected(k)
  PROVE  IInv'
<1> USE DEF RecordWalletRejected, PromptUnspent
<1>0. TypeOK /\ Shape(k)
  BY DEF IInv, Shape
<1>1. stage'[k] = "WALLET_REJECTED" /\ (Shape(k)' => IInv')
  BY <1>0, WalletFrame DEF TypeOK
<1>2. Shape(k)'
  BY <1>0, <1>1
  DEF Shape, WalletShape, ChainShape, CorrelationShape, AttemptFitsStage, WalletStep, brickkenVars
<1> QED
  BY <1>1, <1>2

LEMMA BroadcastUnknownKeeps ==
  ASSUME IInv, NEW k \in Kinds, RecordBroadcastUnknown(k)
  PROVE  IInv'
<1> USE DEF RecordBroadcastUnknown, HoldsAuthority
<1>0. TypeOK /\ Shape(k)
  BY DEF IInv, Shape
<1>1. stage'[k] = "BROADCAST_UNKNOWN" /\ (Shape(k)' => IInv')
  BY <1>0, WalletFrame DEF TypeOK, Statuses
<1>2. Shape(k)'
  BY <1>0, <1>1
  DEF Shape, WalletShape, ChainShape, CorrelationShape, AttemptFitsStage, WalletStep, brickkenVars
<1> QED
  BY <1>1, <1>2

LEMMA BroadcastHashKeeps ==
  ASSUME IInv, NEW k \in Kinds, NEW h \in Hashes, RecordBroadcastHash(k, h)
  PROVE  IInv'
<1> USE DEF RecordBroadcastHash, HoldsAuthority
<1>0. TypeOK /\ Shape(k)
  BY DEF IInv, Shape
<1>1. /\ hash' \in [Kinds -> Hashes \cup {None}] /\ hash'[k] # None
      /\ \A j \in Kinds : j # k => hash'[j] = hash[j]
  BY <1>0, NoneAssumption DEF TypeOK
<1>2. stage'[k] = "BROADCAST_HASH_PERSISTED" /\ (Shape(k)' => IInv')
  BY <1>0, <1>1, WalletFrame DEF TypeOK, Statuses
<1>3. Shape(k)'
  BY <1>0, <1>1, <1>2
  DEF Shape, WalletShape, ChainShape, CorrelationShape, AttemptFitsStage, WalletStep, brickkenVars
<1> QED
  BY <1>2, <1>3

-----------------------------------------------------------------------------
(* What a poll writes *)

\* The writes of a poll leave wallet, hash and phase alone: again the run keeps
\* IInv if operation k keeps its shape.
LEMMA PollFrame ==
  ASSUME IInv, NEW k \in Kinds, ActiveV4(k),
         stage[k] # "READ_BACK_VERIFIED", stage'[k] # "READ_BACK_VERIFIED",
         schema' = schema, phase' = phase, eligible' = eligible, tokenIdentity' = tokenIdentity,
         attempts' = attempts, prompt' = prompt, hash' = hash, released' = released,
         stage' \in [Kinds -> Stages], status' \in Statuses, outcome' \in Outcomes \cup {None},
         rpc' \in [Kinds -> Comparisons], receipt' \in [Kinds -> Receipts \cup {None}],
         correlation' \in [Kinds -> Correlations \cup {None}],
         statusText' \in [Kinds -> StatusTexts \cup {None}],
         reserved' \in 0..TrackBudget, refused' \in BOOLEAN, pollStep' \in 0..5,
         \A j \in Kinds : j # k =>
             /\ stage'[j] = stage[j] /\ rpc'[j] = rpc[j] /\ receipt'[j] = receipt[j]
             /\ correlation'[j] = correlation[j] /\ statusText'[j] = statusText[j]
  PROVE  Shape(k)' => IInv'
<1>0. TypeOK
  BY DEF IInv
<1>1. TypeOK'
  BY <1>0 DEF TypeOK
<1>2. \A j \in Kinds : j # k => SameOperation(j)
  BY DEF SameOperation
<1> QED
  BY <1>1, <1>2, StepFrame DEF IInv, Shape, ActiveV4

LEMMA EvidenceFrame ==
  ASSUME IInv, NEW k \in Kinds, NEW n \in 1..5, EvidenceStep(k, n),
         stage[k] # "READ_BACK_VERIFIED", stage'[k] # "READ_BACK_VERIFIED",
         stage' \in [Kinds -> Stages], status' \in Statuses, outcome' \in Outcomes \cup {None},
         rpc' \in [Kinds -> Comparisons], receipt' \in [Kinds -> Receipts \cup {None}],
         statusText' \in [Kinds -> StatusTexts \cup {None}], refused' = refused,
         \A j \in Kinds : j # k =>
             /\ stage'[j] = stage[j] /\ rpc'[j] = rpc[j] /\ receipt'[j] = receipt[j]
             /\ statusText'[j] = statusText[j]
  PROVE  Shape(k)' => IInv'
<1>1. /\ ActiveV4(k) /\ pollStep' = n
      /\ schema' = schema /\ phase' = phase /\ eligible' = eligible
      /\ tokenIdentity' = tokenIdentity /\ attempts' = attempts /\ prompt' = prompt
      /\ hash' = hash /\ released' = released /\ correlation' = correlation
      /\ reserved' = reserved
  BY DEF EvidenceStep, PollStep
<1>2. /\ correlation' \in [Kinds -> Correlations \cup {None}] /\ reserved' \in 0..TrackBudget
      /\ refused' \in BOOLEAN /\ pollStep' \in 0..5
  BY <1>1 DEF IInv, TypeOK
<1> QED
  BY <1>1, <1>2, PollFrame

LEMMA CorrelationFrame ==
  ASSUME IInv, NEW k \in Kinds, NEW after, CorrelationStep(k, after),
         stage[k] # "READ_BACK_VERIFIED", stage'[k] # "READ_BACK_VERIFIED",
         stage' \in [Kinds -> Stages], status' \in Statuses, outcome' \in Outcomes \cup {None},
         correlation' \in [Kinds -> Correlations \cup {None}], refused' \in BOOLEAN,
         \A j \in Kinds : j # k => stage'[j] = stage[j] /\ correlation'[j] = correlation[j]
  PROVE  Shape(k)' => IInv'
<1>1. /\ ActiveV4(k) /\ pollStep' = 3
      /\ schema' = schema /\ phase' = phase /\ eligible' = eligible
      /\ tokenIdentity' = tokenIdentity /\ attempts' = attempts /\ prompt' = prompt
      /\ hash' = hash /\ rpc' = rpc /\ receipt' = receipt
      /\ released' = released /\ statusText' = statusText /\ reserved' = reserved
  BY DEF CorrelationStep, PollStep, chainVars
<1>2. /\ rpc' \in [Kinds -> Comparisons] /\ receipt' \in [Kinds -> Receipts \cup {None}]
      /\ statusText' \in [Kinds -> StatusTexts \cup {None}]
      /\ reserved' \in 0..TrackBudget /\ pollStep' \in 0..5
  BY <1>1 DEF IInv, TypeOK
<1> QED
  BY <1>1, <1>2, PollFrame

LEMMA VerifyTransactionKeeps ==
  ASSUME IInv, NEW k \in Kinds, NEW c \in Comparisons, VerifyTransaction(k, c)
  PROVE  IInv'
<1> USE DEF VerifyTransaction
<1>0. TypeOK /\ Shape(k)
  BY DEF IInv, Shape
<1>1. /\ rpc' \in [Kinds -> Comparisons] /\ rpc'[k] = c
      /\ \A j \in Kinds : j # k => rpc'[j] = rpc[j]
  BY <1>0 DEF TypeOK
<1>2. /\ stage' \in [Kinds -> Stages]
      /\ stage'[k] = IF c = "WITHIN_ENVELOPE" THEN "RPC_TRANSACTION_VERIFIED"
                     ELSE IF c = "POLICY_VIOLATION" THEN "POLICY_VIOLATION_ONCHAIN"
                     ELSE "RPC_TRANSACTION_RECONCILIATION_REQUIRED"
      /\ \A j \in Kinds : j # k => stage'[j] = stage[j]
  <2> DEFINE to == CASE c = "WITHIN_ENVELOPE" -> "RPC_TRANSACTION_VERIFIED"
                     [] c = "POLICY_VIOLATION" -> "POLICY_VIOLATION_ONCHAIN"
                     [] OTHER -> "RPC_TRANSACTION_RECONCILIATION_REQUIRED"
  <2>1. to = IF c = "WITHIN_ENVELOPE" THEN "RPC_TRANSACTION_VERIFIED"
             ELSE IF c = "POLICY_VIOLATION" THEN "POLICY_VIOLATION_ONCHAIN"
             ELSE "RPC_TRANSACTION_RECONCILIATION_REQUIRED"
    OBVIOUS
  <2>2. to \in Stages
    BY <2>1
  <2>3. stage' = [stage EXCEPT ![k] = to]
    OBVIOUS
  <2> HIDE DEF to
  <2> QED
    BY <1>0, <2>1, <2>2, <2>3 DEF TypeOK
<1>3. status' = IF c = "WITHIN_ENVELOPE" THEN "BROADCAST_RECORDED" ELSE "RECONCILIATION_REQUIRED"
  OBVIOUS
<1>4. Shape(k)' => IInv'
  <2>1. /\ EvidenceStep(k, 1) /\ refused' = refused
        /\ stage[k] # "READ_BACK_VERIFIED" /\ stage'[k] # "READ_BACK_VERIFIED"
    BY <1>2
  <2>2. /\ status' \in Statuses /\ outcome' \in Outcomes \cup {None}
        /\ receipt' \in [Kinds -> Receipts \cup {None}]
        /\ statusText' \in [Kinds -> StatusTexts \cup {None}]
    BY <1>0, <1>3 DEF TypeOK, Statuses
  <2>3. \A j \in Kinds : receipt'[j] = receipt[j] /\ statusText'[j] = statusText[j]
    OBVIOUS
  <2> HIDE DEF VerifyTransaction
  <2> QED
    BY <1>1, <1>2, <2>1, <2>2, <2>3, EvidenceFrame
<1>5. Shape(k)'
  BY <1>0, <1>1, <1>2, <1>3
  DEF Shape, WalletShape, ChainShape, CorrelationShape, AttemptFitsStage, Comparisons,
      EvidenceStep
<1> QED
  BY <1>4, <1>5

LEMMA ReceiptKeeps ==
  ASSUME IInv, NEW k \in Kinds, NEW r \in Receipts, RecordReceipt(k, r)
  PROVE  IInv'
<1> USE DEF RecordReceipt
<1>0. TypeOK /\ Shape(k)
  BY DEF IInv, Shape
<1>1. /\ receipt' \in [Kinds -> Receipts \cup {None}] /\ receipt'[k] = r
      /\ \A j \in Kinds : j # k => receipt'[j] = receipt[j]
  BY <1>0 DEF TypeOK
<1>2. /\ status' \in Statuses /\ outcome' \in Outcomes \cup {None}
      /\ rpc[k] # "WITHIN_ENVELOPE" => status' = "RECONCILIATION_REQUIRED"
  BY <1>0 DEF TypeOK, Statuses, Outcomes, ReceiptNeedsReconciliation
<1>3. Shape(k)' => IInv'
  <2>1. /\ EvidenceStep(k, 2) /\ refused' = refused
        /\ stage[k] # "READ_BACK_VERIFIED" /\ stage'[k] # "READ_BACK_VERIFIED"
    OBVIOUS
  <2>2. /\ stage' \in [Kinds -> Stages] /\ rpc' \in [Kinds -> Comparisons]
        /\ statusText' \in [Kinds -> StatusTexts \cup {None}]
    BY <1>0 DEF TypeOK
  <2>3. \A j \in Kinds : stage'[j] = stage[j] /\ rpc'[j] = rpc[j] /\ statusText'[j] = statusText[j]
    OBVIOUS
  <2> HIDE DEF RecordReceipt
  <2> QED
    BY <1>1, <1>2, <2>1, <2>2, <2>3, EvidenceFrame
<1>4. Shape(k)'
  BY <1>0, <1>1, <1>2
  DEF Shape, WalletShape, ChainShape, CorrelationShape, AttemptFitsStage, EvidenceStep
<1> QED
  BY <1>3, <1>4

LEMMA StatusKeeps ==
  ASSUME IInv, NEW k \in Kinds,
         RecordStatusContradiction(k) \/ \E t \in StatusTexts : RecordStatus(k, t)
  PROVE  IInv'
<1>0. TypeOK /\ Shape(k)
  BY DEF IInv, Shape
<1>1. /\ EvidenceStep(k, 4) /\ refused' = refused
      /\ stage' = stage /\ outcome' = outcome /\ rpc' = rpc /\ receipt' = receipt
      /\ stage[k] = "BRICKKEN_CORRELATED"
  BY DEF RecordStatusContradiction, RecordStatus
<1>2. /\ statusText' \in [Kinds -> StatusTexts \cup {None}]
      /\ \A j \in Kinds : j # k => statusText'[j] = statusText[j]
      /\ status' = status \/ status' = "RECONCILIATION_REQUIRED"
  <2>0. statusText \in [Kinds -> StatusTexts \cup {None}]
    BY <1>0 DEF TypeOK
  <2>1. CASE RecordStatusContradiction(k)
    BY <2>0, <2>1 DEF RecordStatusContradiction
  <2>2. CASE \E t \in StatusTexts : RecordStatus(k, t)
    BY <2>0, <2>2 DEF RecordStatus
  <2> QED
    BY <2>1, <2>2
<1>3. Shape(k)' => IInv'
  <2>1. /\ stage' \in [Kinds -> Stages] /\ outcome' \in Outcomes \cup {None}
        /\ rpc' \in [Kinds -> Comparisons] /\ receipt' \in [Kinds -> Receipts \cup {None}]
        /\ status' \in Statuses
    BY <1>0, <1>1, <1>2 DEF TypeOK, Statuses
  <2>2. /\ stage[k] # "READ_BACK_VERIFIED" /\ stage'[k] # "READ_BACK_VERIFIED"
        /\ \A j \in Kinds : stage'[j] = stage[j] /\ rpc'[j] = rpc[j] /\ receipt'[j] = receipt[j]
    BY <1>1
  <2> QED
    BY <1>1, <1>2, <2>1, <2>2, EvidenceFrame
<1>4. Shape(k)'
  BY <1>0, <1>1, <1>2
  DEF Shape, WalletShape, ChainShape, CorrelationShape, AttemptFitsStage, EvidenceStep
<1> QED
  BY <1>3, <1>4

\* Writing a correlation record keeps the others, and the type.
LEMMA CorrelationReplaced ==
  ASSUME TypeOK, NEW k \in Kinds, NEW c \in Correlations
  PROVE  LET new == [correlation EXCEPT ![k] = c] IN
         /\ new \in [Kinds -> Correlations \cup {None}]
         /\ new[k] = c /\ new[k] # None
         /\ \A j \in Kinds : j # k => new[j] = correlation[j]
<1>1. c # None
  BY NoneAssumption
<1> QED
  BY <1>1 DEF TypeOK

LEMMA BeginCorrelationKeeps ==
  ASSUME IInv, NEW k \in Kinds, BeginCorrelation(k)
  PROVE  IInv'
<1> DEFINE c == [attempt |-> Len(attempts[k]), hash |-> hash[k], lifecycle |-> "PENDING",
                 count |-> 1, last |-> "AUTHORIZED"]
<1>0. TypeOK /\ Shape(k)
  BY DEF IInv, Shape
<1>1. /\ CorrelationStep(k, {1, 2}) /\ refused' = refused /\ outcome' = outcome
      /\ stage[k] \in {"RPC_TRANSACTION_VERIFIED", "POLICY_VIOLATION_ONCHAIN"}
      /\ stage' = [stage EXCEPT ![k] = "BRICKKEN_CORRELATION_PENDING"]
      /\ correlation' = [correlation EXCEPT ![k] = c]
      /\ status' = IF rpc[k] = "POLICY_VIOLATION" THEN "RECONCILIATION_REQUIRED" ELSE "CONFIRMING"
  BY DEF BeginCorrelation, StatusAfterCorrelation
<1>2. c \in Correlations
  <2>1. attempts[k] # << >> /\ hash[k] \in Hashes
    BY <1>0, <1>1 DEF Shape, WalletShape, ChainShape, TypeOK, CorrelationStep, PollStep, ActiveV4
  <2>2. Len(attempts[k]) \in 1..MaxPreparations /\ 1 \in 1..MaxCorrelations
    BY <1>0, <2>1, BudgetAssumption DEF TypeOK
  <2> QED
    BY <2>1, <2>2 DEF Correlations
<1>3. /\ c.attempt = Len(attempts[k]) /\ c.hash = hash[k] /\ c.lifecycle = "PENDING"
  OBVIOUS
<1> HIDE DEF c
<1>4. /\ correlation' \in [Kinds -> Correlations \cup {None}]
      /\ correlation'[k] = c /\ correlation'[k] # None
      /\ \A j \in Kinds : j # k => correlation'[j] = correlation[j]
  BY <1>0, <1>1, <1>2, CorrelationReplaced
<1>5. /\ stage' \in [Kinds -> Stages] /\ stage'[k] = "BRICKKEN_CORRELATION_PENDING"
      /\ \A j \in Kinds : j # k => stage'[j] = stage[j]
  BY <1>0, <1>1 DEF TypeOK
<1>6. status' \in Statuses /\ outcome' \in Outcomes \cup {None} /\ refused' \in BOOLEAN
  BY <1>0, <1>1 DEF TypeOK, Statuses
<1>7. stage[k] # "READ_BACK_VERIFIED" /\ stage'[k] # "READ_BACK_VERIFIED"
  BY <1>1, <1>5
<1>8. Shape(k)' => IInv'
  BY <1>1, <1>4, <1>5, <1>6, <1>7, CorrelationFrame
<1>9. Shape(k)'
  BY <1>0, <1>1, <1>3, <1>4, <1>5
  DEF Shape, WalletShape, ChainShape, CorrelationShape, AttemptFitsStage, CorrelationStep, chainVars
<1> QED
  BY <1>8, <1>9

\* The later writes change the record of the pending correlation.
LEMMA PendingCorrelationKeeps ==
  ASSUME IInv, NEW k \in Kinds, NEW after, CorrelationStep(k, after),
         stage[k] = "BRICKKEN_CORRELATION_PENDING",
         NEW lifecycle \in {"PENDING", "CORRELATED"}, NEW count \in 1..MaxCorrelations,
         NEW last \in {"AUTHORIZED", "UNCERTAIN"},
         correlation' = [correlation EXCEPT ![k] =
             [attempt |-> @.attempt, hash |-> @.hash, lifecycle |-> lifecycle,
              count |-> count, last |-> last]],
         stage' = [stage EXCEPT ![k] =
             IF lifecycle = "PENDING" THEN "BRICKKEN_CORRELATION_PENDING" ELSE "BRICKKEN_CORRELATED"],
         status' \in Statuses, rpc[k] = "POLICY_VIOLATION" => status' = "RECONCILIATION_REQUIRED",
         outcome' \in Outcomes \cup {None}, refused' \in BOOLEAN
  PROVE  IInv'
<1> DEFINE c == [attempt |-> correlation[k].attempt, hash |-> correlation[k].hash,
                 lifecycle |-> lifecycle, count |-> count, last |-> last]
           to == IF lifecycle = "PENDING" THEN "BRICKKEN_CORRELATION_PENDING"
                 ELSE "BRICKKEN_CORRELATED"
<1>0. TypeOK /\ Shape(k)
  BY DEF IInv, Shape
<1>1. correlation[k] \in Correlations
  BY <1>0 DEF Shape, CorrelationShape, TypeOK
<1>2. c \in Correlations
  BY <1>1 DEF Correlations
<1>3. /\ c.attempt = correlation[k].attempt /\ c.hash = correlation[k].hash
      /\ c.lifecycle = lifecycle
  OBVIOUS
<1>4. correlation' = [correlation EXCEPT ![k] = c] /\ stage' = [stage EXCEPT ![k] = to]
  BY <1>0 DEF TypeOK
<1>5. to \in Stages \ {"READ_BACK_VERIFIED"}
  OBVIOUS
<1>6. /\ to \in {"BRICKKEN_CORRELATION_PENDING", "BRICKKEN_CORRELATED"}
      /\ to = "BRICKKEN_CORRELATION_PENDING" <=> lifecycle = "PENDING"
  OBVIOUS
<1> HIDE DEF c, to
<1>7. /\ correlation' \in [Kinds -> Correlations \cup {None}]
      /\ correlation'[k] = c /\ correlation'[k] # None
      /\ \A j \in Kinds : j # k => correlation'[j] = correlation[j]
  BY <1>0, <1>2, <1>4, CorrelationReplaced
<1>8. /\ stage' \in [Kinds -> Stages] /\ stage'[k] = to
      /\ \A j \in Kinds : j # k => stage'[j] = stage[j]
  BY <1>0, <1>4, <1>5 DEF TypeOK
<1>9. Shape(k)' => IInv'
  <2>1. stage[k] # "READ_BACK_VERIFIED" /\ stage'[k] # "READ_BACK_VERIFIED"
    BY <1>5, <1>8
  <2> QED
    BY <1>7, <1>8, <2>1, CorrelationFrame
<1>10. Shape(k)'
  BY <1>0, <1>3, <1>6, <1>7, <1>8
  DEF Shape, WalletShape, ChainShape, CorrelationShape, AttemptFitsStage, CorrelationStep, chainVars
<1> QED
  BY <1>9, <1>10

LEMMA CorrelationKeeps ==
  ASSUME IInv, NEW k \in Kinds,
         \/ RecordCorrelationUncertain(k) \/ AuthorizeCorrelationRetry(k)
         \/ ExhaustCorrelation(k) \/ RecordCorrelated(k) \/ RefuseCorrelation(k)
  PROVE  IInv'
<1> DEFINE old == correlation[k]
           Written(lifecycle, count, last) ==
               [correlation EXCEPT ![k] = [attempt |-> @.attempt, hash |-> @.hash,
                   lifecycle |-> lifecycle, count |-> count, last |-> last]]
<1>0. TypeOK /\ Shape(k)
  BY DEF IInv, Shape
<1>1. /\ stage[k] = "BRICKKEN_CORRELATION_PENDING"
      /\ old.lifecycle = "PENDING"
      /\ \E after : CorrelationStep(k, after)
  BY DEF RecordCorrelationUncertain, AuthorizeCorrelationRetry, ExhaustCorrelation,
         RecordCorrelated, RefuseCorrelation, CorrelationAuthorized, CorrelationUncertain
<1>2. PICK after : CorrelationStep(k, after)
  BY <1>1
<1>3. old \in Correlations
  BY <1>0, <1>1 DEF Shape, CorrelationShape, TypeOK
<1>4. /\ old.count \in 1..MaxCorrelations /\ old.last \in {"AUTHORIZED", "UNCERTAIN"}
      /\ old = [attempt |-> old.attempt, hash |-> old.hash, lifecycle |-> "PENDING",
                count |-> old.count, last |-> old.last]
  BY <1>1, <1>3 DEF Correlations
<1>5. correlation = Written("PENDING", old.count, old.last)
  BY <1>0, <1>4 DEF TypeOK
<1>6. stage = [stage EXCEPT ![k] = "BRICKKEN_CORRELATION_PENDING"]
  BY <1>0, <1>1 DEF TypeOK
<1>7. /\ status \in Statuses /\ "RECONCILIATION_REQUIRED" \in Statuses
      /\ outcome \in Outcomes \cup {None} /\ None \in Outcomes \cup {None}
      /\ refused \in BOOLEAN /\ TRUE \in BOOLEAN
      /\ rpc[k] = "POLICY_VIOLATION" => status = "RECONCILIATION_REQUIRED"
  BY <1>0 DEF TypeOK, Statuses, Shape, ChainShape
<1>8. CASE RecordCorrelationUncertain(k)
  <2>1. correlation' = Written("PENDING", old.count, "UNCERTAIN")
    <3>1. [old EXCEPT !.last = "UNCERTAIN"]
              = [attempt |-> old.attempt, hash |-> old.hash, lifecycle |-> "PENDING",
                 count |-> old.count, last |-> "UNCERTAIN"]
      BY <1>4
    <3>2. correlation' = [correlation EXCEPT ![k] = [old EXCEPT !.last = "UNCERTAIN"]]
      BY <1>8 DEF RecordCorrelationUncertain
    <3> QED
      BY <3>1, <3>2
  <2>2. stage' = stage /\ status' = status /\ outcome' = outcome /\ refused' = refused
    BY <1>8 DEF RecordCorrelationUncertain
  <2> QED
    BY <1>1, <1>2, <1>4, <1>6, <1>7, <2>1, <2>2, PendingCorrelationKeeps
<1>9. CASE AuthorizeCorrelationRetry(k)
  <2>1. /\ correlation' = Written("PENDING", old.count + 1, "AUTHORIZED")
        /\ old.count < MaxCorrelations
    <3>1. [old EXCEPT !.last = "AUTHORIZED", !.count = @ + 1]
              = [attempt |-> old.attempt, hash |-> old.hash, lifecycle |-> "PENDING",
                 count |-> old.count + 1, last |-> "AUTHORIZED"]
      <4> DEFINE one == [old EXCEPT !.last = "AUTHORIZED"]
      <4>1. one = [attempt |-> old.attempt, hash |-> old.hash, lifecycle |-> "PENDING",
                   count |-> old.count, last |-> "AUTHORIZED"]
        BY <1>4
      <4>2. [one EXCEPT !.count = one.count + 1]
                = [attempt |-> old.attempt, hash |-> old.hash, lifecycle |-> "PENDING",
                   count |-> old.count + 1, last |-> "AUTHORIZED"]
        <5> HIDE DEF one
        <5> QED
          BY <4>1
      <4> QED
        BY <4>2
    <3>2. correlation' =
              [correlation EXCEPT ![k] = [old EXCEPT !.last = "AUTHORIZED", !.count = @ + 1]]
      BY <1>0, <1>9 DEF AuthorizeCorrelationRetry, TypeOK
    <3> QED
      BY <1>9, <3>1, <3>2 DEF AuthorizeCorrelationRetry
  <2>2. old.count + 1 \in 1..MaxCorrelations
    BY <1>4, <2>1, BudgetAssumption
  <2>3. stage' = stage /\ status' = status /\ outcome' = outcome /\ refused' = refused
    BY <1>9 DEF AuthorizeCorrelationRetry
  <2> QED
    BY <1>1, <1>2, <1>6, <1>7, <2>1, <2>2, <2>3, PendingCorrelationKeeps
<1>10. CASE ExhaustCorrelation(k) \/ RefuseCorrelation(k)
  <2>1. /\ stage' = stage /\ correlation' = correlation /\ refused' = TRUE
        /\ status' = "RECONCILIATION_REQUIRED" /\ outcome' \in {outcome, None}
    BY <1>10 DEF ExhaustCorrelation, RefuseCorrelation
  <2> QED
    BY <1>1, <1>2, <1>4, <1>5, <1>6, <1>7, <2>1, PendingCorrelationKeeps
<1>11. CASE RecordCorrelated(k)
  <2>1. correlation' = Written("CORRELATED", old.count, old.last)
    <3>1. [old EXCEPT !.lifecycle = "CORRELATED"]
              = [attempt |-> old.attempt, hash |-> old.hash, lifecycle |-> "CORRELATED",
                 count |-> old.count, last |-> old.last]
      BY <1>4
    <3>2. correlation' = [correlation EXCEPT ![k] = [old EXCEPT !.lifecycle = "CORRELATED"]]
      BY <1>11 DEF RecordCorrelated
    <3> QED
      BY <3>1, <3>2
  <2>2. /\ stage' = [stage EXCEPT ![k] = "BRICKKEN_CORRELATED"]
        /\ status' \in {"CONFIRMING", "RECONCILIATION_REQUIRED"}
        /\ rpc[k] = "POLICY_VIOLATION" => status' = "RECONCILIATION_REQUIRED"
        /\ outcome' = outcome /\ refused' = refused
    BY <1>11 DEF RecordCorrelated, StatusAfterCorrelation
  <2>3. status' \in Statuses
    BY <2>2 DEF Statuses
  <2> QED
    BY <1>1, <1>2, <1>4, <1>7, <2>1, <2>2, <2>3, PendingCorrelationKeeps
<1> QED
  BY <1>8, <1>9, <1>10, <1>11

-----------------------------------------------------------------------------
(* Read-back and the tracking budget *)

LEMMA TrackingKeeps ==
  ASSUME IInv, NEW k \in Kinds,
         RecordReadBackMismatch(k) \/ ReserveTracking(k) \/ ExhaustTracking(k)
  PROVE  IInv'
<1>0. TypeOK /\ Shape(k)
  BY DEF IInv, Shape
<1>1. /\ ActiveV4(k) /\ stage[k] # "READ_BACK_VERIFIED"
      /\ schema' = schema /\ phase' = phase /\ eligible' = eligible
      /\ tokenIdentity' = tokenIdentity /\ stage' = stage /\ attempts' = attempts
      /\ prompt' = prompt /\ hash' = hash /\ rpc' = rpc /\ receipt' = receipt
      /\ correlation' = correlation /\ statusText' = statusText /\ released' = released
      /\ refused' = refused
  BY DEF RecordReadBackMismatch, ReserveTracking, ExhaustTracking, PollStep, ReadBackReady,
         Trackable, runVars, walletVars, chainVars, brickkenVars, logVars
<1>2. /\ outcome' \in Outcomes \cup {None} /\ pollStep' \in 0..5 /\ reserved' \in 0..TrackBudget
      /\ status' \in Statuses
      /\ rpc[k] \in {"MISMATCH", "POLICY_VIOLATION"} => status' = "RECONCILIATION_REQUIRED"
  <2>1. CASE RecordReadBackMismatch(k)
    BY <1>0, <2>1 DEF RecordReadBackMismatch, PollStep, ReadBackReady, TypeOK, logVars,
       Statuses, Outcomes
  <2>2. CASE ReserveTracking(k)
    BY <1>0, <2>2, BudgetAssumption
    DEF ReserveTracking, ReservationLeft, NotPolling, TypeOK, runVars, Shape, ChainShape
  <2>3. CASE ExhaustTracking(k)
    BY <1>0, <2>3 DEF ExhaustTracking, NotPolling, TypeOK, logVars, Statuses
  <2> QED
    BY <2>1, <2>2, <2>3
<1>3. Shape(k)' => IInv'
  <2>1. /\ stage' \in [Kinds -> Stages] /\ rpc' \in [Kinds -> Comparisons]
        /\ receipt' \in [Kinds -> Receipts \cup {None}]
        /\ correlation' \in [Kinds -> Correlations \cup {None}]
        /\ statusText' \in [Kinds -> StatusTexts \cup {None}] /\ refused' \in BOOLEAN
    BY <1>0, <1>1 DEF TypeOK
  <2>2. \A j \in Kinds :
             /\ stage'[j] = stage[j] /\ rpc'[j] = rpc[j] /\ receipt'[j] = receipt[j]
             /\ correlation'[j] = correlation[j] /\ statusText'[j] = statusText[j]
    BY <1>1
  <2>3. stage'[k] # "READ_BACK_VERIFIED"
    BY <1>1
  <2> QED
    BY <1>1, <1>2, <2>1, <2>2, <2>3, PollFrame
<1>4. Shape(k)'
  BY <1>0, <1>1, <1>2 DEF Shape, WalletShape, ChainShape, CorrelationShape, AttemptFitsStage
<1> QED
  BY <1>3, <1>4

\* A read-back verifies the operation and may move the run to the next phase,
\* whose operation is untouched.
LEMMA ReadBackKeeps ==
  ASSUME IInv, RecordTokenIdentity \/ RecordWhitelistReadBack \/ RecordMintReadBack
  PROVE  IInv'
<1>1. PICK k \in Kinds, p \in Phases, s \in {"PREPARING", "SUCCEEDED"}, e \in BOOLEAN,
           h \in {hash["TOKENIZE"], tokenIdentity} :
        /\ ReadBackStep(k, p, s, e, h)
        /\ k = "TOKENIZE" => h = hash["TOKENIZE"] /\ p = IF Scope = "LEGACY_FULL"
                                                        THEN "WHITELIST" ELSE "TOKENIZATION"
        /\ k = "WHITELIST" => h = tokenIdentity /\ p = "MINT"
        /\ k = "MINT" => h = tokenIdentity /\ p = "VERIFICATION"
  <2>1. CASE RecordTokenIdentity /\ Scope = "LEGACY_FULL"
    BY <2>1 DEF RecordTokenIdentity, IInv, TypeOK, Phases, Kinds
  <2>2. CASE RecordTokenIdentity /\ Scope # "LEGACY_FULL"
    BY <2>2 DEF RecordTokenIdentity, IInv, TypeOK, Phases, Kinds
  <2>3. CASE RecordWhitelistReadBack
    BY <2>3 DEF RecordWhitelistReadBack, Phases, Kinds
  <2>4. CASE RecordMintReadBack
    BY <2>4 DEF RecordMintReadBack, Phases, Kinds
  <2> QED
    BY <2>1, <2>2, <2>3, <2>4
<1>2. /\ phase' = p /\ status' = s /\ eligible' = e /\ tokenIdentity' = h
      /\ schema' = schema /\ outcome' = outcome /\ attempts' = attempts /\ prompt' = prompt
      /\ hash' = hash /\ rpc' = rpc /\ receipt' = receipt /\ correlation' = correlation
      /\ statusText' = statusText /\ released' = released /\ reserved' = reserved
      /\ refused' = refused /\ pollStep' = 5
      /\ stage' = [stage EXCEPT ![k] = "READ_BACK_VERIFIED"]
  BY <1>1 DEF ReadBackStep, PollStep, chainVars, brickkenVars, logVars
<1>3. TypeOK /\ Shape(k) /\ PhaseShape /\ TokenShape
  BY DEF IInv, Shape
<1>4. ReadBackReady(k) /\ Active(k) /\ schema = "4.0"
  BY <1>1 DEF ReadBackStep, ReadBackReady, ActiveV4
<1>5. /\ stage' \in [Kinds -> Stages] /\ stage'[k] = "READ_BACK_VERIFIED"
      /\ \A j \in Kinds : j # k => stage'[j] = stage[j]
  BY <1>2, <1>3 DEF TypeOK
<1>6. TypeOK'
  <2>1. h \in Hashes \cup {None} /\ s \in Statuses
    BY <1>3 DEF TypeOK, Statuses, Kinds
  <2> QED
    BY <1>2, <1>3, <1>5, <2>1 DEF TypeOK
<1>7. \A j \in Kinds : j # k => SameOperation(j)
  BY <1>2, <1>5 DEF SameOperation
<1>8. \A j \in Kinds : j # k => Shape(j)'
  BY <1>2, <1>4, <1>7, OthersKeepShape
<1>9. Shape(k)'
  BY <1>2, <1>3, <1>4, <1>5
  DEF Shape, WalletShape, ChainShape, CorrelationShape, AttemptFitsStage, ReadBackReady
<1>10. PhaseShape'
  BY <1>1, <1>2, <1>3, <1>4, <1>5, ScopeAssumption
  DEF PhaseShape, Pristine, Active, PhaseOf, Kinds
<1>11. SchemaShape'
  BY <1>2, <1>4 DEF SchemaShape
<1>12. TokenShape'
  <2>1. hash[k] # None
    BY <1>3, <1>4 DEF Shape, ChainShape, ReadBackReady
  <2> QED
    BY <1>1, <1>2, <1>3, <1>4, <1>5, <2>1
    DEF TokenShape, PhaseShape, Active, PhaseOf, Kinds
<1> QED
  BY <1>6, <1>8, <1>9, <1>10, <1>11, <1>12 DEF IInv, Shape

-----------------------------------------------------------------------------
(* Plan, approval, first preparation, promotion (schema 2.0) *)

LEMMA ApprovalKeeps ==
  ASSUME IInv, Approve \/ Cancel
  PROVE  IInv'
<1>1. /\ schema' = schema /\ eligible' = eligible /\ tokenIdentity' = tokenIdentity
      /\ stage' = stage /\ attempts' = attempts /\ prompt' = prompt
      /\ hash' = hash /\ rpc' = rpc /\ receipt' = receipt /\ correlation' = correlation
      /\ statusText' = statusText /\ released' = released /\ reserved' = reserved
      /\ refused' = refused /\ pollStep' = 0
      /\ phase' = phase \/ (phase = "PLAN" /\ phase' = "TOKENIZATION")
  BY DEF Approve, Cancel, NotPolling, walletVars, chainVars, brickkenVars, logVars
<1>2. /\ phase' \in Phases /\ status' \in Statuses /\ outcome' \in Outcomes \cup {None}
  BY DEF Approve, Cancel, IInv, TypeOK, Phases, Statuses, Outcomes
<1>3. \A k \in Kinds : rpc[k] \notin {"MISMATCH", "POLICY_VIOLATION"}
  BY DEF Approve, Cancel, IInv, SchemaShape, PhaseShape, Pristine, Kinds
<1>4. TypeOK'
  BY <1>1, <1>2 DEF IInv, TypeOK
<1>5. PhaseShape' /\ SchemaShape' /\ TokenShape'
  BY <1>1 DEF IInv, PhaseShape, SchemaShape, TokenShape, Pristine
<1>6. ASSUME NEW k \in Kinds
      PROVE  Shape(k)'
  <2>1. Shape(k)
    BY DEF IInv, Shape
  <2> QED
    BY <1>1, <1>3, <2>1
    DEF Shape, WalletShape, ChainShape, CorrelationShape, AttemptFitsStage
<1> QED
  BY <1>4, <1>5, <1>6 DEF IInv, Shape

\* Before promotion, TOKENIZE is the only operation there is work on.
LEMMA OnlyTokenize ==
  ASSUME IInv, schema = "2.0", NEW k \in Kinds, Active(k) \/ stage[k] # "NOT_STARTED"
  PROVE  k = "TOKENIZE" /\ phase = "TOKENIZATION"
BY DEF IInv, SchemaShape, PhaseShape, Pristine, Active, PhaseOf, Kinds

LEMMA PrepareKeeps ==
  ASSUME IInv, NEW k \in Kinds, NEW from, Active(k) \/ from # "NOT_STARTED",
         NEW to \in {"NOT_STARTED", "PREPARE_INTENT", "PREPARED", "PREPARE_UNKNOWN", "REJECTED"},
         NEW s \in Statuses, NEW o \in Outcomes \cup {None}, PrepareStep(k, from, to, s, o)
  PROVE  IInv'
<1>0. TypeOK /\ PhaseShape /\ SchemaShape /\ TokenShape
  BY DEF IInv
<1>1. /\ schema = "2.0" /\ stage[k] = from
      /\ stage' = [stage EXCEPT ![k] = to] /\ status' = s /\ outcome' = o /\ pollStep' = 0
      /\ schema' = schema /\ phase' = phase /\ eligible' = eligible
      /\ tokenIdentity' = tokenIdentity /\ attempts' = attempts /\ prompt' = prompt
      /\ hash' = hash /\ rpc' = rpc /\ receipt' = receipt /\ correlation' = correlation
      /\ statusText' = statusText /\ released' = released /\ reserved' = reserved
      /\ refused' = refused
  BY DEF PrepareStep, NotPolling, chainVars, brickkenVars, logVars
<1>2. k = "TOKENIZE" /\ phase = "TOKENIZATION"
  BY <1>1, OnlyTokenize
<1>3. /\ stage' \in [Kinds -> Stages] /\ stage'["TOKENIZE"] = to
      /\ \A j \in Kinds : j # "TOKENIZE" => stage'[j] = stage[j]
  BY <1>0, <1>1, <1>2 DEF TypeOK
<1>4. TypeOK'
  BY <1>0, <1>1, <1>3 DEF TypeOK
<1>5. SchemaShape'
  BY <1>0, <1>1, <1>3 DEF SchemaShape
<1>6. PhaseShape' /\ TokenShape'
  BY <1>0, <1>1, <1>2, <1>3 DEF PhaseShape, SchemaShape, TokenShape, Pristine, Kinds
<1>7. ASSUME NEW j \in Kinds
      PROVE  Shape(j)'
  <2>1. /\ attempts'[j] = << >> /\ prompt'[j] = None /\ released'[j] = 0 /\ hash'[j] = None
        /\ rpc'[j] = "NONE" /\ receipt'[j] = None /\ correlation'[j] = None
        /\ statusText'[j] = None /\ schema' = "2.0"
    BY <1>0, <1>1 DEF SchemaShape
  <2>2. stage'[j] \in PreparationStages
    BY <1>0, <1>2, <1>3 DEF PhaseShape, Pristine, Kinds
  <2> QED
    BY <2>1, <2>2 DEF Shape, WalletShape, ChainShape, CorrelationShape, AttemptFitsStage
<1> QED
  BY <1>4, <1>5, <1>6, <1>7 DEF IInv, Shape

LEMMA PromoteKeeps ==
  ASSUME IInv, NEW k \in Kinds, Promote(k)
  PROVE  IInv'
<1>0. TypeOK /\ PhaseShape /\ SchemaShape /\ TokenShape
  BY DEF IInv
<1>1. /\ schema = "2.0" /\ Active(k) /\ stage[k] = "PREPARED" /\ schema' = "4.0"
      /\ attempts' = [attempts EXCEPT ![k] = <<"PREPARED">>] /\ pollStep' = 0
      /\ stage' = stage /\ status' = status /\ outcome' = outcome
      /\ phase' = phase /\ eligible' = eligible
      /\ tokenIdentity' = tokenIdentity /\ prompt' = prompt
      /\ hash' = hash /\ rpc' = rpc /\ receipt' = receipt /\ correlation' = correlation
      /\ statusText' = statusText /\ released' = released /\ reserved' = reserved
      /\ refused' = refused
  BY DEF Promote, NotPolling, chainVars, brickkenVars, logVars
<1>2. k = "TOKENIZE" /\ phase = "TOKENIZATION"
  BY <1>1, OnlyTokenize
<1>3. /\ attempts' \in [Kinds -> Seq(AttemptStates)]
      /\ attempts'["TOKENIZE"] = <<"PREPARED">>
      /\ \A j \in Kinds : j # "TOKENIZE" => attempts'[j] = attempts[j]
  BY <1>0, <1>1, <1>2 DEF TypeOK, AttemptStates
<1>4. \A j \in Kinds : Len(attempts'[j]) <= MaxPreparations
  <2>1. Len(<<"PREPARED">>) = 1 /\ 1 <= MaxPreparations
    BY BudgetAssumption
  <2> QED
    BY <1>0, <1>3, <2>1 DEF TypeOK
<1>5. TypeOK'
  BY <1>0, <1>1, <1>3, <1>4 DEF TypeOK
<1>6. PhaseShape' /\ SchemaShape' /\ TokenShape'
  BY <1>0, <1>1, <1>2, <1>3 DEF PhaseShape, SchemaShape, TokenShape, Pristine, Kinds
<1>7. ASSUME NEW j \in Kinds
      PROVE  Shape(j)'
  <2>1. /\ prompt'[j] = None /\ released'[j] = 0 /\ hash'[j] = None
        /\ rpc'[j] = "NONE" /\ receipt'[j] = None /\ correlation'[j] = None
        /\ statusText'[j] = None
    BY <1>0, <1>1 DEF SchemaShape
  <2>2. \/ /\ stage'[j] = "PREPARED" /\ attempts'[j] # << >>
           /\ attempts'[j][Len(attempts'[j])] = "PREPARED"
        \/ stage'[j] = "NOT_STARTED" /\ attempts'[j] = << >>
    BY <1>0, <1>1, <1>2, <1>3 DEF PhaseShape, Pristine, Kinds
  <2> QED
    BY <2>1, <2>2 DEF Shape, WalletShape, ChainShape, CorrelationShape, AttemptFitsStage
<1> QED
  BY <1>5, <1>6, <1>7 DEF IInv, Shape

-----------------------------------------------------------------------------
(* The invariant *)

LEMMA InitHolds == ASSUME Init PROVE IInv
<1> USE DEF Init
<1>1. TypeOK
  <2>1. attempts \in [Kinds -> Seq(AttemptStates)] /\ \A k \in Kinds : Len(attempts[k]) <= MaxPreparations
    <3>1. << >> \in Seq(AttemptStates) /\ Len(<< >>) = 0 /\ 0 <= MaxPreparations
      BY BudgetAssumption
    <3> QED
      BY <3>1
  <2>2. /\ prompt \in [Kinds -> Prompts \cup {None}] /\ hash \in [Kinds -> Hashes \cup {None}]
        /\ receipt \in [Kinds -> Receipts \cup {None}]
        /\ correlation \in [Kinds -> Correlations \cup {None}]
        /\ statusText \in [Kinds -> StatusTexts \cup {None}]
    OBVIOUS
  <2>3. reserved \in 0..TrackBudget /\ pollStep \in 0..5 /\ released \in [Kinds -> Nat]
    BY BudgetAssumption
  <2> QED
    BY <2>1, <2>2, <2>3 DEF TypeOK, Phases, Statuses, Comparisons
<1>2. \A k \in Kinds : Pristine(k)
  BY DEF Pristine
<1>3. PhaseShape /\ SchemaShape /\ TokenShape
  BY <1>2 DEF PhaseShape, SchemaShape, TokenShape, Pristine, Kinds
<1>4. \A k \in Kinds : WalletShape(k) /\ ChainShape(k) /\ CorrelationShape(k)
  BY <1>2 DEF WalletShape, ChainShape, CorrelationShape, AttemptFitsStage, Pristine
<1> QED
  BY <1>1, <1>3, <1>4 DEF IInv

LEMMA StutterKeeps == ASSUME IInv, UNCHANGED vars PROVE IInv'
BY DEF IInv, TypeOK, PhaseShape, SchemaShape, TokenShape, Pristine, WalletShape, ChainShape,
   CorrelationShape, AttemptFitsStage, vars, runVars, walletVars, chainVars, brickkenVars, logVars

LEMMA NextKeeps == ASSUME IInv, Next PROVE IInv'
<1>1. CASE Approve \/ Cancel
  BY <1>1, ApprovalKeeps
<1>2. CASE PrepareV2
  <2>1. PICK k \in Kinds :
            \/ BeginPrepare(k) \/ RecordPrepared(k) \/ RecordPrepareUnknown(k)
            \/ RecordPrepareFailure(k) \/ RecordPrepareInterrupted(k) \/ Promote(k)
    BY <1>2 DEF PrepareV2
  <2>2. outcome \in Outcomes \cup {None} /\ "FAILED" \in Outcomes
    BY DEF IInv, TypeOK, Outcomes
  <2>3. {"PREPARING", "AWAITING_WALLET", "RECONCILIATION_REQUIRED", "FAILED"} \subseteq Statuses
    BY DEF Statuses
  <2>4. CASE BeginPrepare(k)
    BY <2>2, <2>3, <2>4, PrepareKeeps DEF BeginPrepare
  <2>5. CASE RecordPrepared(k)
    BY <2>2, <2>3, <2>5, PrepareKeeps DEF RecordPrepared
  <2>6. CASE RecordPrepareUnknown(k)
    BY <2>2, <2>3, <2>6, PrepareKeeps DEF RecordPrepareUnknown
  <2>7. CASE RecordPrepareFailure(k)
    BY <2>2, <2>3, <2>7, PrepareKeeps DEF RecordPrepareFailure
  <2>8. CASE RecordPrepareInterrupted(k)
    BY <2>2, <2>3, <2>8, PrepareKeeps DEF RecordPrepareInterrupted
  <2>9. CASE Promote(k)
    BY <2>9, PromoteKeeps
  <2> QED
    BY <2>1, <2>4, <2>5, <2>6, <2>7, <2>8, <2>9
<1>3. CASE PrepareV4
  <2>1. PICK k \in Kinds :
            \/ RecordInitialPreparation(k) \/ MarkPreparedStale(k) \/ BeginReprepare(k)
            \/ RecordReprepared(k) \/ RecordReprepareUnknown(k) \/ RecordReprepareRefused(k)
    BY <1>3 DEF PrepareV4
  <2>2. outcome \in Outcomes \cup {None} /\ "FAILED" \in Outcomes
    BY DEF IInv, TypeOK, Outcomes
  <2>3. {"PREPARING", "AWAITING_WALLET", "RECONCILIATION_REQUIRED", "FAILED"} \subseteq Statuses
    BY DEF Statuses
  <2>4. {"PREPARED", "PREPARE_UNKNOWN", "REFUSED"} \subseteq AttemptStates
    BY DEF AttemptStates
  <2>5. CASE RecordInitialPreparation(k)
    BY <2>5, InitialPreparationKeeps
  <2>6. CASE MarkPreparedStale(k)
    BY <2>6, PreparedStaleKeeps
  <2>7. CASE BeginReprepare(k)
    BY <2>7, BeginReprepareKeeps
  <2>8. CASE RecordReprepared(k)
    BY <2>2, <2>3, <2>4, <2>8, EndReprepareKeeps DEF RecordReprepared
  <2>9. CASE RecordReprepareUnknown(k)
    BY <2>2, <2>3, <2>4, <2>9, EndReprepareKeeps DEF RecordReprepareUnknown
  <2>10. CASE RecordReprepareRefused(k)
    BY <2>2, <2>3, <2>4, <2>10, EndReprepareKeeps DEF RecordReprepareRefused
  <2> QED
    BY <2>1, <2>5, <2>6, <2>7, <2>8, <2>9, <2>10
<1>4. CASE Wallet
  BY <1>4, WalletPromptKeeps, DropPromptKeeps, ReleaseKeeps, WalletRejectedKeeps,
     BroadcastUnknownKeeps, BroadcastHashKeeps DEF Wallet
<1>5. CASE Evidence
  BY <1>5, VerifyTransactionKeeps, ReceiptKeeps DEF Evidence
<1>6. CASE Brickken
  BY <1>6, BeginCorrelationKeeps, CorrelationKeeps, StatusKeeps DEF Brickken
<1>7. CASE Tracking
  BY <1>7, ReadBackKeeps, TrackingKeeps DEF Tracking
<1> QED
  BY <1>1, <1>2, <1>3, <1>4, <1>5, <1>6, <1>7 DEF Next

\* The shape of a run's operations never breaks: IInv is invariant.
THEOREM Invariant == Spec => []IInv
<1>1. Init => IInv
  BY InitHolds
<1>2. IInv /\ [Next]_vars => IInv'
  BY NextKeeps, StutterKeeps
<1> QED
  BY <1>1, <1>2, PTL DEF Spec

\* Every reachable snapshot is well typed, with at most MaxPreparations attempts
\* and MaxCorrelations authorizations per operation, and at most TrackBudget
\* reservations.
THEOREM TypeCorrect == Spec => []TypeOK
<1>1. IInv => TypeOK
  BY DEF IInv
<1> QED
  BY <1>1, Invariant, PTL

\* persistence/codec.ts never refuses a snapshot a transition produced.
THEOREM CodecAlwaysAccepts == Spec => []CodecAccepts
<1>1. ASSUME IInv
      PROVE  CodecAccepts
  <2> SUFFICES ASSUME schema = "4.0"
               PROVE  /\ \A k \in Kinds : /\ AttemptFitsStage(k) /\ PromptFitsStage(k)
                                          /\ CorrelationFitsStage(k) /\ EvidenceFitsStage(k)
                      /\ tokenIdentity # None =>
                             /\ stage["TOKENIZE"] = "READ_BACK_VERIFIED"
                             /\ rpc["TOKENIZE"] = "WITHIN_ENVELOPE"
                             /\ tokenIdentity = hash["TOKENIZE"]
    BY DEF CodecAccepts
  <2>1. ASSUME NEW k \in Kinds
        PROVE  /\ AttemptFitsStage(k) /\ PromptFitsStage(k)
               /\ CorrelationFitsStage(k) /\ EvidenceFitsStage(k)
    <3>1. WalletShape(k) /\ ChainShape(k) /\ CorrelationShape(k) /\ stage[k] \in Stages
      BY <1>1 DEF IInv, TypeOK
    <3>2. PromptFitsStage(k)
      BY <3>1 DEF WalletShape, PromptFitsStage
    <3>3. CorrelationFitsStage(k)
      BY <3>1 DEF CorrelationShape, CorrelationFitsStage
    <3>4. EvidenceFitsStage(k)
      BY <3>1 DEF WalletShape, ChainShape, EvidenceFitsStage
    <3> QED
      BY <3>1, <3>2, <3>3, <3>4 DEF WalletShape
  <2>2. "TOKENIZE" \in Kinds
    BY DEF Kinds
  <2> QED
    BY <1>1, <2>1, <2>2 DEF IInv, TokenShape, ChainShape
<1> QED
  BY <1>1, Invariant, PTL

\* No operation gets send authority twice, and none has a hash, evidence or a
\* correlation without having got it.
THEOREM AtMostOneAuthority == Spec => []SingleAuthority
<1>1. ASSUME IInv
      PROVE  SingleAuthority
  <2>1. ASSUME NEW k \in Kinds
        PROVE  /\ released[k] <= 1
               /\ stage[k] \in ReleasedStages => released[k] = 1
               /\ released[k] = 1 =>
                      prompt[k] # None /\ prompt[k].invocation = "INVOKED_OR_UNKNOWN"
               /\ hash[k] # None => released[k] = 1
    <3>1. WalletShape(k) /\ ChainShape(k) /\ stage[k] \in Stages
      BY <1>1 DEF IInv, TypeOK
    <3> QED
      BY <3>1 DEF WalletShape, ChainShape
  <2> QED
    BY <2>1 DEF SingleAuthority
<1> QED
  BY <1>1, Invariant, PTL

\* A verified operation rests on a finalized, canonical, compliant transaction
\* that Brickken correlated with the prompted preparation.
THEOREM VerifiedIsFinal == Spec => []VerifiedMeansFinal
<1>1. ASSUME IInv
      PROVE  VerifiedMeansFinal
  <2>1. ASSUME NEW k \in Kinds
        PROVE  WalletShape(k) /\ ChainShape(k) /\ CorrelationShape(k)
    BY <1>1 DEF IInv
  <2> QED
    BY <2>1 DEF VerifiedMeansFinal, WalletShape, ChainShape, CorrelationShape
<1> QED
  BY <1>1, Invariant, PTL

\* No operation is worked on before its predecessor is verified.
THEOREM VerifiedInOrder == Spec => []ChainOfVerification
<1>1. IInv => ChainOfVerification
  BY DEF IInv, TypeOK, PhaseShape, TokenShape, Pristine, ChainOfVerification,
     PredecessorVerified, Kinds, Phases
<1> QED
  BY <1>1, Invariant, PTL

-----------------------------------------------------------------------------
(* Success *)

\* A run with work left on an operation has not succeeded.
LEMMA NotYetSuccess ==
  ASSUME IInv, SuccessInv, NEW k \in Kinds, Active(k), stage[k] # "READ_BACK_VERIFIED"
  PROVE  status # "SUCCEEDED" /\ ~eligible /\ phase # "VERIFICATION"
<1>1. phase # "VERIFICATION" /\ ~eligible
  BY DEF SuccessInv, SuccessMeansVerified, Active, PhaseOf, Kinds
<1>2. phase \in {"WHITELIST", "MINT"} => Scope = "LEGACY_FULL"
  BY DEF IInv, PhaseShape
<1>3. k # "TOKENIZE" => phase \in {"WHITELIST", "MINT"}
  BY DEF Active, PhaseOf, Kinds
<1>4. status = "SUCCEEDED" => stage["TOKENIZE"] = "READ_BACK_VERIFIED" /\ Scope # "LEGACY_FULL"
  BY <1>1 DEF SuccessInv, SuccessMeansVerified
<1> QED
  BY <1>1, <1>2, <1>3, <1>4

\* Nor does it succeed by a write that only goes on with the work.
LEMMA WorkIsNotSuccess ==
  ASSUME IInv, SuccessInv, NEW k \in Kinds, Active(k), stage[k] # "READ_BACK_VERIFIED",
         phase' = phase, eligible' = eligible, status' = status \/ status' # "SUCCEEDED"
  PROVE  SuccessMeansVerified'
BY NotYetSuccess DEF SuccessMeansVerified

LEMMA OneActive ==
  ASSUME NEW j \in Kinds, NEW k \in Kinds, Active(j), Active(k) PROVE j = k
BY DEF Active, PhaseOf, Kinds

\* A poll that has got past the receipt, and may still end well, works on a run
\* that has not ended.
LEMMA GoesOnUnended ==
  ASSUME IInv, SuccessInv, NEW k \in Kinds, Active(k), ~Reverted(k),
         Trackable(k) \/ pollStep \in 1..4
  PROVE  outcome = None
<1>1. CASE Trackable(k)
  BY <1>1 DEF Trackable, Blocked
<1>2. CASE pollStep \in 1..4
  <2>1. pollStep \notin {0, 5}
    BY <1>2
  <2> QED
    BY <2>1, OneActive DEF SuccessInv, OutcomeShape
<1> QED
  BY <1>1, <1>2

LEMMA ApprovalIsNotSuccess == ASSUME IInv, SuccessInv, Approve \/ Cancel PROVE SuccessInv'
<1>1. ~eligible /\ phase' # "VERIFICATION"
  BY DEF Approve, Cancel, IInv, SchemaShape, SuccessInv, SuccessMeansVerified
<1>2. eligible' = eligible /\ status' # "SUCCEEDED" /\ pollStep' = 0
  BY DEF Approve, Cancel, NotPolling
<1> QED
  BY <1>1, <1>2 DEF SuccessInv, SuccessMeansVerified, OutcomeShape

LEMMA PrepareIsNotSuccess ==
  ASSUME IInv, SuccessInv, NEW k \in Kinds,
         \/ BeginPrepare(k) \/ RecordPrepared(k) \/ RecordPrepareUnknown(k)
         \/ RecordPrepareFailure(k) \/ RecordPrepareInterrupted(k)
  PROVE  SuccessInv'
<1>1. /\ schema = "2.0" /\ stage[k] \in {"NOT_STARTED", "PREPARE_INTENT"}
      /\ stage[k] = "NOT_STARTED" => Active(k)
      /\ phase' = phase /\ eligible' = eligible /\ status' # "SUCCEEDED" /\ pollStep' = 0
  BY DEF BeginPrepare, RecordPrepared, RecordPrepareUnknown, RecordPrepareFailure,
     RecordPrepareInterrupted, PrepareStep, NotPolling
<1>2. Active(k)
  BY <1>1, OnlyTokenize DEF Active, PhaseOf
<1> QED
  BY <1>1, <1>2, WorkIsNotSuccess DEF SuccessInv, OutcomeShape

LEMMA WalletIsNotSuccess ==
  ASSUME IInv, SuccessInv, NEW k \in Kinds,
         \/ Promote(k) \/ RecordInitialPreparation(k) \/ MarkPreparedStale(k)
         \/ BeginReprepare(k) \/ RecordReprepared(k) \/ RecordReprepareUnknown(k)
         \/ RecordReprepareRefused(k) \/ RecordWalletPrompt(k) \/ DropPromptAndMarkStale(k)
         \/ ReleaseSendAuthority(k) \/ RecordWalletRejected(k) \/ RecordBroadcastUnknown(k)
         \/ \E h \in Hashes : RecordBroadcastHash(k, h)
  PROVE  SuccessInv'
<1>1. /\ Active(k) /\ stage[k] # "READ_BACK_VERIFIED"
      /\ phase' = phase /\ eligible' = eligible /\ pollStep' = 0
      /\ status' = status \/ status' # "SUCCEEDED"
  BY DEF Promote, RecordInitialPreparation, MarkPreparedStale, BeginReprepare,
     RecordReprepared, RecordReprepareUnknown, RecordReprepareRefused, EndReprepare,
     RecordWalletPrompt, DropPromptAndMarkStale, ReleaseSendAuthority, RecordWalletRejected,
     RecordBroadcastUnknown, RecordBroadcastHash, WalletStep, ActiveV4, NotPolling,
     PromptUnspent, HoldsAuthority
<1> QED
  BY <1>1, WorkIsNotSuccess DEF SuccessInv, OutcomeShape

LEMMA TransactionIsNotSuccess ==
  ASSUME IInv, SuccessInv, NEW k \in Kinds, NEW c \in Comparisons, VerifyTransaction(k, c)
  PROVE  SuccessInv'
<1>1. /\ Active(k)
      /\ stage[k] # "READ_BACK_VERIFIED"
      /\ Trackable(k) \/ pollStep \in 1..0
      /\ phase' = phase
      /\ eligible' = eligible
      /\ outcome' = outcome
  BY DEF VerifyTransaction, EvidenceStep, PollStep, ActiveV4
<1>2. status' # "SUCCEEDED"
  BY DEF VerifyTransaction
<1>3. outcome' = None
  BY <1>1 DEF Trackable, Blocked
<1>4. SuccessMeansVerified'
  BY <1>1, <1>2, WorkIsNotSuccess
<1> QED
  BY <1>3, <1>4 DEF SuccessInv, OutcomeShape

LEMMA ReceiptIsNotSuccess ==
  ASSUME IInv, SuccessInv, NEW k \in Kinds, NEW r \in Receipts, RecordReceipt(k, r)
  PROVE  SuccessInv'
<1>1. /\ Active(k)
      /\ stage[k] # "READ_BACK_VERIFIED"
      /\ Trackable(k) \/ pollStep \in 1..1
      /\ phase' = phase
      /\ eligible' = eligible
      /\ pollStep' = 2
      /\ receipt' = [receipt EXCEPT ![k] = r]
  BY DEF RecordReceipt, EvidenceStep, PollStep, ActiveV4, ReceiptStages
<1>2. status' = status \/ status' # "SUCCEEDED"
  BY DEF RecordReceipt
<1>3. outcome' = outcome \/ r.execution = "REVERTED"
  BY DEF RecordReceipt
<1>4. outcome = None
  <2>1. CASE Trackable(k)
    BY <2>1 DEF Trackable, Blocked
  <2>2. CASE pollStep \in 1..1
    BY <2>2 DEF SuccessInv, OutcomeShape
  <2> QED
    BY <1>1, <2>1, <2>2
<1>5. receipt'[k] = r /\ r # None
  BY <1>1, NoneAssumption DEF IInv, TypeOK
<1>6. outcome' # None => Reverted(k)' /\ Active(k)'
  BY <1>1, <1>3, <1>4, <1>5 DEF Reverted, Active
<1>7. SuccessMeansVerified'
  BY <1>1, <1>2, WorkIsNotSuccess
<1> QED
  BY <1>1, <1>6, <1>7 DEF SuccessInv, OutcomeShape

LEMMA CorrelationIsNotSuccess ==
  ASSUME IInv, SuccessInv, NEW k \in Kinds,
         \/ BeginCorrelation(k) \/ RecordCorrelationUncertain(k)
         \/ AuthorizeCorrelationRetry(k) \/ ExhaustCorrelation(k)
         \/ RecordCorrelated(k) \/ RefuseCorrelation(k)
  PROVE  SuccessInv'
<1>1. CorrelationStep(k, {1, 2}) \/ CorrelationStep(k, {1, 2, 3})
  BY DEF BeginCorrelation, RecordCorrelationUncertain, AuthorizeCorrelationRetry,
     ExhaustCorrelation, RecordCorrelated, RefuseCorrelation
<1>2. /\ Active(k)
      /\ ~Reverted(k)
      /\ Trackable(k) \/ pollStep \in 1..4
      /\ phase' = phase
      /\ eligible' = eligible
  BY <1>1 DEF CorrelationStep, PollStep, ActiveV4
<1>3. outcome = None
  BY <1>2, GoesOnUnended
<1>4. stage[k] # "READ_BACK_VERIFIED"
  BY DEF BeginCorrelation, RecordCorrelationUncertain, AuthorizeCorrelationRetry,
     ExhaustCorrelation, RecordCorrelated, RefuseCorrelation,
     CorrelationAuthorized, CorrelationUncertain
<1>5. outcome' = outcome \/ outcome' = None
  BY DEF BeginCorrelation, RecordCorrelationUncertain, AuthorizeCorrelationRetry,
     ExhaustCorrelation, RecordCorrelated, RefuseCorrelation
<1>6. status' = status \/ status' # "SUCCEEDED"
  BY DEF BeginCorrelation, RecordCorrelationUncertain, AuthorizeCorrelationRetry,
     ExhaustCorrelation, RecordCorrelated, RefuseCorrelation, StatusAfterCorrelation
<1>7. SuccessMeansVerified'
  BY <1>2, <1>4, <1>6, WorkIsNotSuccess
<1> QED
  BY <1>3, <1>5, <1>7 DEF SuccessInv, OutcomeShape

LEMMA StatusIsNotSuccess ==
  ASSUME IInv, SuccessInv, NEW k \in Kinds,
         (\E t \in StatusTexts : RecordStatus(k, t)) \/ RecordStatusContradiction(k)
  PROVE  SuccessInv'
<1>1. /\ Active(k)
      /\ stage[k] # "READ_BACK_VERIFIED"
      /\ Trackable(k) \/ pollStep \in 1..3
      /\ phase' = phase
      /\ eligible' = eligible
      /\ pollStep' = 4
  BY DEF RecordStatus, RecordStatusContradiction, EvidenceStep, PollStep, ActiveV4
<1>2. outcome' = outcome /\ receipt' = receipt
  BY DEF RecordStatus, RecordStatusContradiction
<1>3. status' = status \/ status' # "SUCCEEDED"
  BY DEF RecordStatus, RecordStatusContradiction
<1>4. outcome # None => \E j \in Kinds : Active(j) /\ Reverted(j)
  <2>1. CASE Trackable(k)
    BY <2>1 DEF Trackable, Blocked
  <2>2. CASE pollStep \in 1..3
    BY <2>2 DEF SuccessInv, OutcomeShape
  <2> QED
    BY <1>1, <2>1, <2>2
<1>5. outcome' # None => \E j \in Kinds : Active(j)' /\ Reverted(j)'
  BY <1>1, <1>2, <1>4 DEF Active, Reverted
<1>6. SuccessMeansVerified'
  BY <1>1, <1>3, WorkIsNotSuccess
<1> QED
  BY <1>1, <1>5, <1>6 DEF SuccessInv, OutcomeShape

LEMMA ReadBackSucceeds ==
  ASSUME IInv, SuccessInv,
         RecordTokenIdentity \/ RecordWhitelistReadBack \/ RecordMintReadBack
  PROVE  SuccessInv'
<1> DEFINE Verified(k) == stage' = [stage EXCEPT ![k] = "READ_BACK_VERIFIED"]
<1>1. PICK k \in Kinds :
          /\ PollStep(k, 5, 1..4) /\ ReadBackReady(k) /\ Verified(k) /\ outcome' = outcome
          /\ \/ /\ k = "TOKENIZE" /\ Scope = "LEGACY_FULL" /\ phase' = "WHITELIST"
                /\ status' = "PREPARING" /\ eligible' = eligible
             \/ /\ k = "TOKENIZE" /\ Scope # "LEGACY_FULL" /\ phase' = "TOKENIZATION"
                /\ status' = "SUCCEEDED" /\ eligible' = eligible
             \/ /\ k = "WHITELIST" /\ phase' = "MINT" /\ status' = "PREPARING" /\ eligible' = FALSE
             \/ /\ k = "MINT" /\ phase' = "VERIFICATION" /\ status' = "SUCCEEDED"
                /\ eligible' = TRUE
  BY DEF RecordTokenIdentity, RecordWhitelistReadBack, RecordMintReadBack, ReadBackStep, Kinds
<1>2. /\ Active(k) /\ stage[k] # "READ_BACK_VERIFIED" /\ ~Reverted(k) /\ pollStep' = 5
      /\ Trackable(k) \/ pollStep \in 1..4
  BY <1>1 DEF PollStep, ReadBackReady, ActiveV4, Reverted
<1>3. outcome' = None
  BY <1>1, <1>2, GoesOnUnended
<1>4. ~eligible
  BY <1>2, NotYetSuccess
<1>5. /\ stage'[k] = "READ_BACK_VERIFIED"
      /\ \A j \in Kinds : j # k => stage'[j] = stage[j]
  BY <1>1 DEF IInv, TypeOK
<1>6. k = "MINT" => \A j \in Kinds : stage'[j] = "READ_BACK_VERIFIED"
  BY <1>2, <1>5 DEF IInv, PhaseShape, Active, PhaseOf, Kinds
<1>7. SuccessMeansVerified'
  BY <1>1, <1>3, <1>4, <1>5, <1>6 DEF SuccessMeansVerified, Kinds
<1> QED
  BY <1>2, <1>7 DEF SuccessInv, OutcomeShape

LEMMA TrackingIsNotSuccess ==
  ASSUME IInv, SuccessInv, NEW k \in Kinds,
         RecordReadBackMismatch(k) \/ ReserveTracking(k) \/ ExhaustTracking(k)
  PROVE  SuccessInv'
<1>1. /\ Active(k) /\ stage[k] # "READ_BACK_VERIFIED" /\ phase' = phase /\ eligible' = eligible
      /\ status' = status \/ status' # "SUCCEEDED"
      /\ pollStep' \in {0, 5}
  BY DEF RecordReadBackMismatch, ReadBackReady, PollStep, ReserveTracking, ExhaustTracking,
     Trackable, ActiveV4, NotPolling, runVars
<1> QED
  BY <1>1, WorkIsNotSuccess DEF SuccessInv, OutcomeShape

LEMMA SuccessKept == ASSUME IInv, SuccessInv, [Next]_vars PROVE SuccessInv'
<1>1. CASE Approve \/ Cancel
  BY <1>1, ApprovalIsNotSuccess
<1>2. CASE PrepareV2
  BY <1>2, PrepareIsNotSuccess, WalletIsNotSuccess DEF PrepareV2
<1>3. CASE PrepareV4 \/ Wallet
  BY <1>3, WalletIsNotSuccess DEF PrepareV4, Wallet
<1>4. CASE Evidence
  BY <1>4, TransactionIsNotSuccess, ReceiptIsNotSuccess DEF Evidence
<1>5. CASE Brickken
  BY <1>5, CorrelationIsNotSuccess, StatusIsNotSuccess DEF Brickken
<1>6. CASE Tracking
  BY <1>6, ReadBackSucceeds, TrackingIsNotSuccess DEF Tracking
<1>7. CASE UNCHANGED vars
  BY <1>7 DEF SuccessInv, SuccessMeansVerified, OutcomeShape, Active, Reverted, vars, runVars,
     walletVars, chainVars
<1> QED
  BY <1>1, <1>2, <1>3, <1>4, <1>5, <1>6, <1>7 DEF Next

\* A run that reports success, or may issue its receipt, has verified all that its
\* scope asks for, and has not ended otherwise.
THEOREM SuccessIsVerified == Spec => []SuccessMeansVerified
<1>1. Init => SuccessInv
  BY DEF Init, SuccessInv, SuccessMeansVerified, OutcomeShape
<1>2. IInv /\ SuccessInv /\ [Next]_vars => SuccessInv'
  BY SuccessKept
<1>3. SuccessInv => SuccessMeansVerified
  BY DEF SuccessInv
<1> QED
  BY <1>1, <1>2, <1>3, Invariant, PTL DEF Spec

=============================================================================
