------------------------------ MODULE Brickken -------------------------------
(***************************************************************************)
(* What the server makes of Brickken's answers.  An answer is what came    *)
(* back of one HTTP request:                                               *)
(*                                                                         *)
(*   came    "ANSWER", or the way none came: "TIMEOUT", "NETWORK"          *)
(*   status  the HTTP status                                               *)
(*   says    what the error names: "SIGNER", "LICENCE", "SYMBOL",          *)
(*           "NOT_FOUND_YET", "NONCE", or "NOTHING"                        *)
(*   form    "JSON"; "TEXT" when it is not declared to be JSON; "GARBAGE"  *)
(*           when it is and does not parse, or is longer than is read      *)
(*   body    what it carries: a transaction, a hash, a status, or None     *)
(*                                                                         *)
(* Preparations go through Brickken's SDK: what it throws is told apart by *)
(* class and status, whether or not there is a text to read.  Correlations *)
(* and status requests are direct requests, and their text matters.        *)
(* That the server keeps its API key out of everything it passes on is not *)
(* modelled.                                                               *)
(***************************************************************************)
EXTENDS SendPolicy

\* mapCaughtError: BrickkenAdapterErrorCode of an answer that is an error.  A
\* status that is none of these, a redirect say, proves nothing.
RefusalCode(a) ==
    CASE a.status \in {401, 403} ->
             IF a.says = "SYMBOL" THEN "ENTITLEMENT_REJECTED"
             ELSE IF a.says = "SIGNER" THEN "SIGNER_NOT_APPROVED"
             ELSE "AUTHENTICATION_REJECTED"
      [] a.status = 402 -> "CREDITS_EXHAUSTED"
      [] a.status = 429 -> "UPSTREAM_RATE_LIMITED"
      [] a.status \in {400, 422} ->
             CASE a.says = "SIGNER" -> "SIGNER_NOT_APPROVED"
               [] a.says = "LICENCE" -> "ENTITLEMENT_REJECTED"
               [] OTHER -> "INVALID_REQUEST"
      [] a.status >= 500 -> "UPSTREAM_SERVER_ERROR"
      [] OTHER -> "INVALID_EXTERNAL_RESPONSE"

ErrorCode(a) ==
    CASE a.came = "TIMEOUT" -> "UPSTREAM_SERVER_ERROR"
      [] a.came = "NETWORK" -> "INVALID_EXTERNAL_RESPONSE"
      [] OTHER -> RefusalCode(a)

-----------------------------------------------------------------------------
(* Preparing *)

UsableFaultAnySigner(tx) ==
    None \notin {tx.to, tx.value, tx.nonce, tx.gas, tx.maxFee, tx.priority}

\* parsePreparedOperation, and assertPreparedMatchesRun behind it: one
\* transaction, all of whose required fields are there, on Sepolia, from the
\* signer of the run.  Whether its fees make sense is not looked at.
Usable(tx) ==
    /\ None \notin {tx.to, tx.value, tx.nonce, tx.gas, tx.maxFee, tx.priority}
    /\ tx.chain = "SEPOLIA" /\ tx.from = "SIGNER"

Prepares(a) == a.came = "ANSWER" /\ a.status = 200 /\ a.form = "JSON" /\ Usable(a.body)

\* BrickkenAdapterErrorCode of an answer that does not prepare: garbled, incomplete,
\* of another chain or signer, or an error.
FailureOf(a) ==
    IF a.came = "ANSWER" /\ a.status = 200 THEN "INVALID_EXTERNAL_RESPONSE" ELSE ErrorCode(a)

DefiniteFaultTrustsUnreadable(code) ==
    code \in {"AUTHENTICATION_REJECTED", "CREDITS_EXHAUSTED", "ENTITLEMENT_REJECTED",
              "INVALID_REQUEST", "SIGNER_NOT_APPROVED", "MINT_POLICY_VIOLATION",
              "INVALID_EXTERNAL_RESPONSE"}

\* definitePrepareRefusal: Brickken made nothing.
Definite(code) ==
    code \in {"AUTHENTICATION_REJECTED", "CREDITS_EXHAUSTED", "ENTITLEMENT_REJECTED",
              "INVALID_REQUEST", "SIGNER_NOT_APPROVED", "MINT_POLICY_VIOLATION"}

\* isInterruptedPreparation
Interrupted(code) == code \in {"UPSTREAM_SERVER_ERROR", "UPSTREAM_RATE_LIMITED"}

\* preparationFailureCode: what is recorded and shown.
ShownCode(code) ==
    IF code \in {"AUTHENTICATION_REJECTED", "ENTITLEMENT_REJECTED", "CREDITS_EXHAUSTED",
                 "INVALID_REQUEST", "SIGNER_NOT_APPROVED", "UPSTREAM_RATE_LIMITED",
                 "UPSTREAM_SERVER_ERROR"}
    THEN code ELSE "PREPARATION_UNCONFIRMED"

-----------------------------------------------------------------------------
(* Correlating: Brickken is told the hash and says what it has.  This and    *)
(* the status are direct requests.                                          *)

\* executeBrickkenDirectRequest: no answer at all to its caller.
Unusable(a) == a.status \in 300..399 \/ a.form = "GARBAGE"

\* classifyCorrelationResponse, classifyCorrelationTransportError.  An error that is
\* a text, a gateway's page for instance, is told apart by what it says and by its
\* status.
CorrelationOutcome(a, hash) ==
    IF a.came # "ANSWER" \/ Unusable(a) THEN "CORRELATION_UNCONFIRMED"
    ELSE IF a.status = 202
         THEN IF a.body = None THEN "CORRELATION_UNCONFIRMED"
              ELSE IF a.body = hash THEN "CORRELATED_PENDING" ELSE "CORRELATION_CONTRADICTION"
    ELSE IF a.says = "NOT_FOUND_YET" THEN "TEMPORARILY_NOT_FOUND"
    ELSE IF a.says = "NONCE" THEN "PREPARED_TRANSACTION_MISMATCH"
    ELSE IF a.status \in {400, 401, 402, 403, 404, 422} THEN "CORRELATION_REFUSED"
    ELSE "CORRELATION_UNCONFIRMED"

\* evaluateCorrelationRetry
MayCorrelateAgain(outcome) ==
    outcome \in {"TEMPORARILY_NOT_FOUND", "CORRELATION_UNCONFIRMED"}

-----------------------------------------------------------------------------
(* Asking for the status.  The body names up to two hashes, each absent or *)
(* one Brickken has, and a text.                                           *)

Named(body) == {body.transactionHash, body.hash} \ {None}

\* parseTransactionStatusResponse: neither of them may be another than the
\* recorded one; a status with no hash at all contradicts nothing.
StatusContradicts(body, hash) == \E h \in Named(body) : h # hash

\* getTransactionStatus: what the poll makes of an answer.
StatusOutcome(a, hash) ==
    IF a.came # "ANSWER" \/ Unusable(a) \/ a.status # 200 \/ a.body = None THEN "NONE"
    ELSE IF StatusContradicts(a.body, hash) THEN "CONTRADICTION" ELSE "STATUS"

=============================================================================
