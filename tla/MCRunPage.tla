------------------------------ MODULE MCRunPage ------------------------------
(***************************************************************************)
(* One run whose prepared transaction costs 12 of the 20 units the policy  *)
(* allows at most.  Every answer, reading and transaction differs from the *)
(* good one in one respect.                                                *)
(***************************************************************************)
EXTENDS RunPageInv

CONSTANTS OtherHash

H == CHOOSE h \in Hashes : TRUE

Good == [chain |-> "SEPOLIA", from |-> "SIGNER", to |-> "FACTORY", nonce |-> 1,
         call |-> "MANDATE", deadline |-> 5, type |-> "0x2", value |-> 0, gas |-> 2,
         maxFee |-> 2, priority |-> 1, gasPrice |-> None, access |-> "NONE"]

Later == [Good EXCEPT !.deadline = 9]
Forged == [Good EXCEPT !.call = "FORGED"]
Elsewhere == [Good EXCEPT !.to = "OTHER"]
Dear == [Good EXCEPT !.gas = 3]

\* Its tip exceeds its fee: Brickken's parser takes it, the page's review does not.
Contradictory == [Good EXCEPT !.priority = 3]

Says(code, names, form, body) ==
    [came |-> "ANSWER", status |-> code, says |-> names, form |-> form, body |-> body]

NoAnswer == [came |-> "TIMEOUT", status |-> 0, says |-> "NOTHING", form |-> "JSON", body |-> None]

MCPrepareAnswers ==
    {Says(200, "NOTHING", "JSON", t) : t \in {Good, Later, Forged, Elsewhere, Dear, Contradictory}}
    \cup {Says(200, "NOTHING", "JSON", [Good EXCEPT !.from = "OTHER"]),
          Says(200, "NOTHING", "GARBAGE", None), Says(302, "NOTHING", "TEXT", None),
          Says(400, "NOTHING", "GARBAGE", None), Says(403, "SIGNER", "JSON", None),
          Says(429, "NOTHING", "JSON", None), NoAnswer}

MCCorrelationAnswers ==
    {Says(202, "NOTHING", "JSON", H), Says(202, "NOTHING", "JSON", OtherHash),
     Says(404, "NOT_FOUND_YET", "JSON", None), Says(500, "NOTHING", "JSON", None),
     Says(403, "NOTHING", "GARBAGE", None), Says(403, "NOTHING", "TEXT", None),
     Says(409, "NONCE", "JSON", None), NoAnswer}

StatusOf(named, h) ==
    [transactionHash |-> named, hash |-> h, text |-> "success"]

MCStatusAnswers ==
    {Says(200, "NOTHING", "JSON", StatusOf(H, None)), Says(200, "NOTHING", "JSON", StatusOf(None, None)),
     Says(200, "NOTHING", "JSON", StatusOf(H, OtherHash)), NoAnswer}

Read == [answers |-> TRUE, nonce |-> 1, balance |-> 18, baseFee |-> 1, clock |-> 3]

MCReadings ==
    {Read, [Read EXCEPT !.answers = FALSE], [Read EXCEPT !.clock = 4], [Read EXCEPT !.nonce = 2],
     [Read EXCEPT !.balance = 17], [Read EXCEPT !.baseFee = 7]}

Chain == [answers |-> TRUE, clock |-> 3, reviewed |-> TRUE, signatureExpired |-> FALSE,
          simulates |-> TRUE]

MCChains ==
    {Chain, [Chain EXCEPT !.answers = FALSE], [Chain EXCEPT !.clock = 4],
     [Chain EXCEPT !.reviewed = FALSE], [Chain EXCEPT !.signatureExpired = TRUE]}

\* As dear as the envelope allows and without a tip of its own; dearer; another one.
MCWalletMaySend(t) ==
    {[t EXCEPT !.type = "0x0", !.gas = 3, !.maxFee = None, !.priority = None, !.gasPrice = 6],
     [t EXCEPT !.gas = 4, !.maxFee = 6], [t EXCEPT !.nonce = 2]}

Event == [included |-> TRUE, token |-> "TOKEN", escrow |-> "ESCROW"]
Bound == [to |-> "FACTORY", implementation |-> "REVIEWED", events |-> {Event}]

MCLogs ==
    {Bound, [Bound EXCEPT !.events = {Event, [Event EXCEPT !.token = "TOKEN2"]}],
     [Bound EXCEPT !.implementation = "OTHER"]}

=============================================================================
