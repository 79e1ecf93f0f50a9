----------------------------- MODULE SendPolicy ------------------------------
(***************************************************************************)
(* What a transaction must be like before the user's wallet is asked to    *)
(* send it, and what the wallet may still change of it.  Which of several  *)
(* refusals is reported is left out: they all end in the same error.       *)
(*                                                                         *)
(* A transaction is what projectPreparedTransactionV1 makes of Brickken's  *)
(* answer, or what a node reports of a mined one:                          *)
(*                                                                         *)
(*   chain, from, to, nonce                                                *)
(*   call      "MANDATE": newTokenization with exactly the approved plan;  *)
(*             "FORGED": newTokenization with anything else in it;         *)
(*             "OTHER": another function                                   *)
(*   deadline  when the price report inside the call expires               *)
(*   type      "0x2", "0x0", or another fee model                          *)
(*   value, gas, maxFee, priority, gasPrice     amounts, or None           *)
(*   access    the access list                                             *)
(*                                                                         *)
(* The approved plan names one signer, and the reviewed factory is the     *)
(* only destination of newTokenization: "SIGNER" and "FACTORY".            *)
(***************************************************************************)
EXTENDS Integers

CONSTANTS
    None,
    \* SERVER_FEE_AUTHORIZATION_POLICY_V1, in units of one's choice
    GasCeiling, FeeFloor, FeeCeiling, PriorityFloor, PriorityCeiling,
    NetworkCeiling,
    SafetyBuffer    \* PRICE_REPORT_SAFETY_BUFFER_SECONDS

-----------------------------------------------------------------------------
(* Fees *)

Least(a, b) == IF a < b THEN a ELSE b
Greatest(a, b) == IF a > b THEN a ELSE b

CeilBps(v, bps) == (v * bps + 9999) \div 10000

\* createServerBoundedFeeAuthorizationV1: what the wallet may raise the prepared
\* fees to.
Caps(tx) ==
    LET gas == Least(CeilBps(tx.gas, 15000), GasCeiling)
        maxFee == Least(Greatest(CeilBps(tx.maxFee, 30000), FeeFloor), FeeCeiling)
        priority == Least(Greatest(CeilBps(tx.priority, 30000), PriorityFloor),
                          PriorityCeiling)
    IN [gas |-> gas, maxFee |-> maxFee, priority |-> Least(priority, maxFee),
        network |-> gas * maxFee, access |-> tx.access]

\* Otherwise INVALID_FEE_AUTHORIZATION.
CapsAdmit(tx) ==
    /\ tx.gas <= Caps(tx).gas /\ tx.maxFee <= Caps(tx).maxFee
    /\ tx.priority <= Caps(tx).priority
    /\ Caps(tx).network <= NetworkCeiling

\* A type 0 transaction pays its gas price, of which the base fee is not a tip.
\* A base fee nobody could read counts as zero.
Price(tx) == IF tx.type = "0x0" THEN tx.gasPrice ELSE tx.maxFee

Tip(tx, baseFee) ==
    IF tx.type # "0x0" THEN tx.priority
    ELSE IF baseFee = None THEN tx.gasPrice
    ELSE Greatest(tx.gasPrice - baseFee, 0)

FeeCompliantFaultForgetsGas(caps, tx, baseFee) ==
    /\ tx.type \in {"0x2", "0x0"} /\ Price(tx) # None
    /\ Price(tx) <= caps.maxFee /\ Tip(tx, baseFee) <= caps.priority

\* evaluateFeeAuthorizationV1 accepts.
FeeCompliant(caps, tx, baseFee) ==
    /\ tx.type \in {"0x2", "0x0"} /\ Price(tx) # None
    /\ tx.access = caps.access
    /\ tx.gas <= caps.gas
    /\ Price(tx) <= caps.maxFee
    /\ Tip(tx, baseFee) <= caps.priority
    /\ tx.type = "0x2" => tx.priority <= tx.maxFee
    /\ tx.gas * Price(tx) <= caps.network

-----------------------------------------------------------------------------
(* The prepared transaction *)

\* projectPreparedTransactionV1: fee fields that contradict each other or the
\* type are refused.
Projects(tx) ==
    /\ tx.gasPrice = None \/ (tx.maxFee = None /\ tx.priority = None)
    /\ (tx.maxFee = None) = (tx.priority = None)
    /\ tx.maxFee # None => tx.priority <= tx.maxFee
    /\ tx.type = "0x2" => tx.maxFee # None
    /\ tx.type = "0x0" => tx.maxFee = None

\* preparedAttempt: what can become the preparation of a schema 4.0 run.
Attemptable(tx) ==
    /\ Projects(tx)
    /\ tx.chain = "SEPOLIA" /\ tx.from = "SIGNER" /\ tx.type = "0x2"
    /\ tx.gas # None /\ tx.value # None /\ tx.nonce # None
    /\ CapsAdmit(tx)

\* compareNormalizedTransaction: what the wallet may not change at all.
Identity(tx) ==
    [chain |-> tx.chain, from |-> tx.from, to |-> tx.to, call |-> tx.call,
     deadline |-> tx.deadline, value |-> tx.value, nonce |-> tx.nonce]

-----------------------------------------------------------------------------
(* Semantics.  `chain` is what the node shows of the reviewed protocol:    *)
(* the implementation behind the factory, its code, the fee and nonce of   *)
(* the price report, and whether a simulated call of the transaction        *)
(* succeeds; `clock` is the time of its latest block.                      *)

\* evaluatePreparedFreshness and validateTokenizeProtocol use the same clock.
Expired(tx, clock) == clock >= tx.deadline
TooClose(tx, clock) == clock + SafetyBuffer >= tx.deadline

CanonicalFaultIgnoresArguments(tx) == tx.call \in {"MANDATE", "FORGED"}

\* canonicalTokenizeCall: encoding the approved plan again gives the same bytes.
Canonical(tx) == tx.call = "MANDATE"

ToTheFactory(tx) ==
    /\ Projects(tx)
    /\ tx.chain = "SEPOLIA" /\ tx.from = "SIGNER" /\ tx.to = "FACTORY"
    /\ tx.value = 0

\* #validateProtocol: "OK", "REFUSED", or "STALE" for a TokenizeFreshnessError.
\* A signature that expired shows in a revert of getFees or of the simulation; a
\* node that does not answer counts as a refusal.
ProtocolVerdict(tx, chain) ==
    IF ~ToTheFactory(tx) \/ ~Canonical(tx) \/ ~chain.answers THEN "REFUSED"
    ELSE IF TooClose(tx, chain.clock) THEN "STALE"
    ELSE IF ~chain.reviewed THEN "REFUSED"
    ELSE IF chain.signatureExpired THEN "STALE"
    ELSE IF chain.simulates THEN "OK" ELSE "REFUSED"

\* TokenizeSemanticAuthorizationEvaluator.evaluate.  That the run, its manifest,
\* plan, approval and preparation are bound to each other by their hashes is
\* taken for granted: no step of the server changes one without the others.
SemanticallyAllowed(tx) ==
    /\ ToTheFactory(tx) /\ Canonical(tx)
    /\ FeeCompliant(Caps(tx), tx, None)

=============================================================================
