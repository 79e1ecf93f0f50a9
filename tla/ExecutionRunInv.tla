-------------------------- MODULE ExecutionRunInv ---------------------------
(***************************************************************************)
(* The inductive invariant of ExecutionRun.  The properties that matter are*)
(* not inductive one by one: whether the codec accepts the snapshot of the *)
(* active operation depends on what the stage says about prompt, hash and  *)
(* evidence, and on the other operations being either untouched or         *)
(* verified.  Each part below fixes one of these relations.                *)
(***************************************************************************)
EXTENDS ExecutionRun

\* An operation nobody has worked on.
Pristine(k) ==
    /\ stage[k] = "NOT_STARTED"
    /\ attempts[k] = << >> /\ prompt[k] = None /\ released[k] = 0
    /\ hash[k] = None /\ rpc[k] = "NONE" /\ receipt[k] = None
    /\ correlation[k] = None /\ statusText[k] = None

\* The phase says which operations are verified and which are untouched.
PhaseShape ==
    /\ phase = "PLAN" => Pristine("TOKENIZE")
    /\ phase \in {"PLAN", "TOKENIZATION"} => Pristine("WHITELIST")
    /\ phase \in {"PLAN", "TOKENIZATION", "WHITELIST"} => Pristine("MINT")
    /\ phase \in {"WHITELIST", "MINT", "VERIFICATION"} =>
           stage["TOKENIZE"] = "READ_BACK_VERIFIED"
    /\ phase \in {"MINT", "VERIFICATION"} => stage["WHITELIST"] = "READ_BACK_VERIFIED"
    /\ phase = "VERIFICATION" => stage["MINT"] = "READ_BACK_VERIFIED"
    /\ phase \in {"WHITELIST", "MINT", "VERIFICATION"} => Scope = "LEGACY_FULL"

\* Before promotion only the stage of TOKENIZE has ever moved.
SchemaShape ==
    schema = "2.0" =>
        /\ phase \in {"PLAN", "TOKENIZATION"}
        /\ stage["TOKENIZE"] \in {"NOT_STARTED", "PREPARE_INTENT", "PREPARED",
                                  "PREPARE_UNKNOWN", "REJECTED"}
        /\ \A k \in Kinds :
               /\ attempts[k] = << >> /\ prompt[k] = None /\ released[k] = 0
               /\ hash[k] = None /\ rpc[k] = "NONE" /\ receipt[k] = None
               /\ correlation[k] = None /\ statusText[k] = None

\* What the stage of an operation says about its attempts and its prompt.
WalletShape(k) ==
    /\ schema = "4.0" => (stage[k] = "NOT_STARTED" <=> attempts[k] = << >>)
    /\ AttemptFitsStage(k)
    /\ stage[k] \in PreparationStages => prompt[k] = None /\ released[k] = 0
    /\ stage[k] \in PromptStages =>
           /\ prompt[k] # None
           /\ prompt[k].attempt = Len(attempts[k])
           /\ released[k] = IF prompt[k].invocation = "INVOKED_OR_UNKNOWN" THEN 1 ELSE 0
    /\ stage[k] = "WALLET_REJECTED" => prompt[k].invocation = "PROVEN_NOT_INVOKED"
    /\ stage[k] \in ReleasedStages => prompt[k].invocation = "INVOKED_OR_UNKNOWN"

\* What the stage says about the hash and what the chain showed of it.
ChainShape(k) ==
    /\ hash[k] # None <=> stage[k] \in ReleasedStages \ {"BROADCAST_UNKNOWN"}
    /\ stage[k] \notin ReceiptStages \cup {"READ_BACK_VERIFIED"} => rpc[k] = "NONE"
    /\ rpc[k] = "NONE" => receipt[k] = None
    /\ rpc[k] \in {"MISMATCH", "POLICY_VIOLATION"} => status = "RECONCILIATION_REQUIRED"
    /\ stage[k] = "RPC_TRANSACTION_VERIFIED" => rpc[k] = "WITHIN_ENVELOPE"
    /\ stage[k] = "POLICY_VIOLATION_ONCHAIN" => rpc[k] = "POLICY_VIOLATION"
    /\ stage[k] = "RPC_TRANSACTION_RECONCILIATION_REQUIRED" => rpc[k] \in {"NONE", "MISMATCH"}
    /\ stage[k] = "READ_BACK_VERIFIED" =>
           /\ rpc[k] = "WITHIN_ENVELOPE"
           /\ receipt[k] # None
           /\ receipt[k].execution = "SUCCESS" /\ receipt[k].finality = "FINALIZED"
           /\ receipt[k].identity = "MATCH"

CorrelationStages ==
    {"BRICKKEN_CORRELATION_PENDING", "BRICKKEN_CORRELATED", "READ_BACK_VERIFIED"}

\* What the stage says about correlation.
CorrelationShape(k) ==
    /\ correlation[k] # None <=> stage[k] \in CorrelationStages
    /\ stage[k] \notin CorrelationStages => statusText[k] = None
    /\ correlation[k] # None =>
           /\ correlation[k].attempt = Len(attempts[k])
           /\ correlation[k].hash = hash[k]
           /\ rpc[k] \in {"POLICY_VIOLATION", "WITHIN_ENVELOPE"}
           /\ correlation[k].lifecycle =
                  IF stage[k] = "BRICKKEN_CORRELATION_PENDING" THEN "PENDING" ELSE "CORRELATED"

\* The token identity is the hash of the verified TOKENIZE, and is there as soon
\* as that operation is.
TokenShape ==
    /\ tokenIdentity # None => tokenIdentity = hash["TOKENIZE"]
    /\ tokenIdentity # None <=> stage["TOKENIZE"] = "READ_BACK_VERIFIED"

IInv ==
    /\ TypeOK
    /\ PhaseShape
    /\ SchemaShape
    /\ TokenShape
    /\ \A k \in Kinds : WalletShape(k) /\ ChainShape(k) /\ CorrelationShape(k)

\* A run that ended is not in the middle of a poll that could still end it well.
OutcomeShape ==
    outcome # None =>
        \/ pollStep \in {0, 5}
        \/ pollStep \in 2..4 /\ \E k \in Kinds : Active(k) /\ Reverted(k)

\* Inductive relative to IInv: nothing that is not verified counts as success.
SuccessInv == SuccessMeansVerified /\ OutcomeShape

\* An outcome shows in the status.
EndedShape == outcome # None => status \in {"FAILED", "RECONCILIATION_REQUIRED"}

\* Stages in which an operation has work left that a user could start.
OpenStages == {"NOT_STARTED", "PREPARED", "PREPARED_STALE", "REPREPARE_INTENT",
               "WALLET_PROMPT_RECORDED", "WALLET_REJECTED"}

\* Whatever blocks a run closes its active operation too, except that a run that is
\* not promoted yet is simply cancelled.
WorkShape ==
    \A k \in Kinds : ActiveV4(k) /\ stage[k] \in OpenStages => ~Blocked

\* What is ambiguous needs a person.
AmbiguityShape ==
    \A k \in Kinds :
        stage[k] \in {"BROADCAST_UNKNOWN", "PREPARE_UNKNOWN"} => status = "RECONCILIATION_REQUIRED"

\* Inductive relative to IInv and SuccessInv: what blocks a run blocks all of it.
BlockedInv == EndedShape /\ WorkShape /\ AmbiguityShape

=============================================================================
