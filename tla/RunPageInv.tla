----------------------------- MODULE RunPageInv ------------------------------
(***************************************************************************)
(* The inductive invariants of the page.  PageInv is behind its promise that *)
(* the transaction the wallet is asked to send is the one that was shown:  *)
(* between the click and the wallet lie five writes of the server, any of  *)
(* which another request may come before, and what carries the promise across *)
(* them is the revision.  Whoever still has the current revision has seen the *)
(* current transaction.  SendInv is about what was sent and what it cost,  *)
(* LedgerInv about what Brickken made, OfferInv about what is offered,      *)
(* FormInv about the form of the rest.                                     *)
(***************************************************************************)
EXTENDS RunPage

\* What the page would show of the transaction now.
Review == Projection(Row).review

\* A projection the server made: not of a later revision, and if of this one,
\* then of this row.
Honest(v) ==
    /\ v.rev \in Nat /\ v.rev <= rev
    /\ v.rev = rev => v = Projection(Row)

Mandate(t) ==
    /\ t.call = "MANDATE" /\ t.to = "FACTORY" /\ t.value = 0
    /\ t.chain = "SEPOLIA" /\ t.from = "SIGNER"

Request(route, step, expects, answer) ==
    [route |-> route, step |-> step, expects |-> expects, answer |-> answer]

Action(step, revision, review, envelope) ==
    [step |-> step, rev |-> revision, review |-> review, envelope |-> envelope]

\* A request to execute that the button waits for, and what it knows: on arrival
\* that the review was of this row, at work that it was of this transaction.
ExecuteKnows(q) ==
    /\ q.step # "answered" => q.expects \in Nat /\ q.expects <= rev
    /\ q.step = "arrived" /\ q.expects = rev => action.review = Review
    /\ q.step \in {"promoted", "fresh", "prompted"} /\ q.expects = rev => action.review = tx
    /\ q.step = "answered" /\ q.answer.kind = "ENVELOPE" =>
           q.answer.tx = action.review /\ Mandate(q.answer.tx)

RequestOK(s, q) ==
    /\ q = Request(q.route, q.step, q.expects, q.answer)
    /\ q.step = "answered" /\ q.answer.kind = "RUN" => Honest(q.answer.run)
    /\ s = "pull" /\ q.step # "idle" => action.step = "refreshing"
    /\ s = "action" /\ q.step # "idle" =>
           /\ action.step = IF q.route \in {"prepare", "execute"} THEN "asking" ELSE "reporting"
           /\ q.route = "execute" => ExecuteKnows(q)

\* What the button's click holds, and what the wallet was asked for.
ActionOK ==
    /\ action = Action(action.step, action.rev, action.review, action.envelope)
    /\ action.step \in {"holding", "sending"} =>
           action.envelope = action.review /\ Mandate(action.envelope)

AskedOK == asked # None => asked.tx = asked.shown /\ Mandate(asked.tx)

\* A click that fails has said nothing before, and has not asked the wallet unless
\* it got that far.
DetailOK ==
    /\ action.step \in {"asking", "holding", "sending", "reporting"} => detail = None
    /\ action.step \in {"asking", "holding"} => asked = None
    /\ detail # None /\ detail.submission = "NO" => asked = None

\* The inductive invariant: every view and every answer on its way is honest,
\* whoever works on the click, or holds its envelope, has the transaction shown,
\* and the page has said nothing yet of a click that goes on.
PageInv ==
    /\ rev \in Nat
    /\ request = [s \in Slots |-> request[s]]
    /\ \A s \in Slots : RequestOK(s, request[s])
    /\ Honest(view)
    /\ ActionOK /\ AskedOK /\ DetailOK

-----------------------------------------------------------------------------
(* What the transaction of a released run is, and who may still send it.   *)

\* A preparation that schema 4.0 holds can be sent, and one that was released is
\* the mandate.
TxOK ==
    /\ tx # None => tx \in Prepared
    /\ stage[Op] = "PREPARED" => tx \in Prepared
    /\ schema = "4.0" => tx \in Prepared /\ Attemptable(tx)
    /\ released[Op] # 0 => Mandate(tx)

\* The transactions the wallet may yet be asked to send: the envelope on its way
\* to the button, and the one the button holds.
Envelopes ==
    {q.answer.tx : q \in {p \in {request["action"]} :
                              p.step = "answered" /\ p.answer.kind = "ENVELOPE"}}
    \cup {a.envelope : a \in {b \in {action} : b.step \in {"holding", "sending"}}}

\* There is one only before the wallet sent anything.
EnvelopeOK ==
    \A t \in Envelopes :
        t = tx /\ released[Op] = 1 /\ hash[Op] = None /\ mined = None

Reporting == \E s \in Slots : request[s].route = "hash" /\ request[s].step # "idle"

\* A hash that is reported or recorded is of a transaction the wallet made of the
\* released one.
MinedOK ==
    /\ mined # None => released[Op] = 1 /\ mined \in WalletMaySend(tx)
    /\ Reporting \/ hash[Op] # None => mined # None

\* Inductive relative to IInv and PageInv: what was compared and found within the
\* envelope is what was sent, of what is still the preparation.
SendInv == TxOK /\ EnvelopeOK /\ MinedOK /\ WithinMeansBounded

-----------------------------------------------------------------------------
(* What the row says of Brickken *)

\* Inductive relative to IInv: while a request is out, the row accounts for what
\* Brickken made before it, and what it makes now is all that may come on top.
LedgerInv ==
    LET before == ledger.made - ledger.last IN
    /\ ledger \in Ledgers
    /\ AccountsForBrickken
    /\ stage[Op] \in {"PREPARE_INTENT", "REPREPARE_INTENT"} =>
           Recorded <= before /\ before <= Recorded + ledger.interrupted

-----------------------------------------------------------------------------
(* What the projection takes for granted of a row *)

\* While a run has no outcome, the status follows from these two stages.
OfferInv ==
    /\ outcome = None /\ stage[Op] = "NOT_STARTED" => schema = "2.0" /\ status = "PREPARING"
    /\ outcome = None /\ stage[Op] = "PREPARED" => status = "AWAITING_WALLET"

\* A request in the form its slot may hold, when the row has had revisions 0..n.
Formed(q, n) ==
    /\ q.route \in {None, "prepare", "execute", "hash", "unknown", "get", "track", "cancel"}
    /\ q.step \in ServerSteps /\ q.expects \in 0..n
    /\ q.step = "answered" /\ q.answer.kind = "ENVELOPE" => q.answer.rev \in 0..n

SectionForm ==
    /\ model \in LockingStates \cup {"READY", "PROMPT_IN_PROGRESS", "FRESHNESS_CHECK_FAILED"}
    /\ detail # None => detail.submission \in {"NO", "UNKNOWN"} /\ detail.retry \in BOOLEAN
    /\ action.step \in {"idle", "asking", "holding", "sending", "reporting", "refreshing"}
    /\ extras \in 0..MaxExtras

\* Inductive relative to the others: a revision the page holds, or is about to be
\* told, is one the row has had.
FormInv ==
    /\ \A s \in Slots : Formed(request[s], rev)
    /\ action.rev \in 0..rev
    /\ SectionForm

=============================================================================
