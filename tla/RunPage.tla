------------------------------- MODULE RunPage -------------------------------
(***************************************************************************)
(* The page of an approved run and the server behind it, from the first    *)
(* preparation to the verified token: what the page shows, what it offers, *)
(* what it says when a click fails, and what the server makes of           *)
(* Brickken's answers and the node's.                                      *)
(*                                                                         *)
(* The row of the run is ExecutionRun's plus its revision; every write     *)
(* below is one of its actions.  The page is one WalletExecutionSection    *)
(* and the planning controller around it.  It may have four requests on    *)
(* their way: the one of the button ("action"), the GET after it ("pull"), *)
(* the poll timer's ("poll") and one the user asked for ("manual").  A     *)
(* request of the button the page no longer waits for is "left".           *)
(***************************************************************************)
EXTENDS ExecutionRun

CONSTANTS
    GasCeiling, FeeFloor, FeeCeiling, PriorityFloor, PriorityCeiling,
    NetworkCeiling, SafetyBuffer,
    PrepareAnswers,      \* Brickken's answers to a preparation
    CorrelationAnswers,  \* and to a correlation
    StatusAnswers,       \* and to a status request
    Readings,            \* evaluations of signer and latest block (ChainReads)
    Chains,              \* what the node shows of the protocol (SendPolicy)
    BaseFees,            \* base fees of the block that mined a transaction
    Logs,                \* what the logs of its receipt may hold (ChainReads)
    WalletMaySend(_),    \* transactions a wallet may make of the one it is asked for
    MaxExtras            \* requests besides the button's, crashes, requests given up

INSTANCE PublicRun

ASSUME PolicyAssumption ==
    /\ {GasCeiling, FeeFloor, FeeCeiling, PriorityFloor, PriorityCeiling,
        NetworkCeiling, SafetyBuffer} \subseteq Nat
    /\ None \notin Nat

\* The projection offers a second preparation.
ASSUME CountAssumption == MaxPreparations >= 2 /\ MaxExtras \in Nat

ASSUME AnswerAssumption ==
    \A a \in PrepareAnswers : a.came \in {"ANSWER", "TIMEOUT", "NETWORK"}

ASSUME TextAssumption ==
    \A a \in StatusAnswers : a.body # None => a.body.text \in StatusTexts

\* The transactions that Brickken can prepare.
Prepared == {a.body : a \in {b \in PrepareAnswers : Prepares(b)}}

\* What is prepared and what a node reports of a mined transaction states its
\* amounts; a fee field of another type of transaction may be missing.
ASSUME AmountAssumption ==
    \A t \in Prepared :
        /\ t.gas \in Nat /\ t.maxFee \in Nat
        /\ \A m \in WalletMaySend(t) :
               m # None /\ m.gas \in Nat /\ Price(m) \in Nat \cup {None}

VARIABLES
    rev,      \* revision
    error,    \* operations[0].brickkenError
    tx,       \* operations[0].unsignedTransaction
    ledger,   \* what Brickken did for the run, whatever the server was told of it
    request,  \* requests between page and server, by slot
    view,     \* state.view of the planning controller: a projection
    model,    \* WalletExecutionUiModel
    detail,   \* errorDetail, or None
    action,   \* what the button's click is doing
    asked,    \* what this click asked the wallet to send, and what it had shown
    mined,    \* the transaction the wallet sent, or None
    extras    \* how many there have been

runState == vars
serverVars == <<runState, rev, error, tx, ledger>>
sectionVars == <<model, detail, action>>
worldVars == <<asked, mined, extras>>
pageVars == <<serverVars, request, view, sectionVars, worldVars>>

Op == "TOKENIZE"

Slots == {"action", "left", "pull", "poll", "manual"}

NoRequest == [route |-> None, step |-> "idle", expects |-> 0, answer |-> None]

NoAction == [step |-> "idle", rev |-> 0, review |-> None, envelope |-> None]

\* The transactions Brickken made for the run, how many of them for the last
\* request, and how many requests were interrupted.
Ledgers == [made : Nat, last : 0..1, interrupted : Nat]

Nothing == [made |-> 0, last |-> 0, interrupted |-> 0]

Row == [rev |-> rev, schema |-> schema, status |-> status, outcome |-> outcome,
        stage |-> stage[Op], hash |-> hash[Op], error |-> error, tx |-> tx,
        attempts |-> Len(attempts[Op]), prompt |-> prompt[Op] # None,
        unspent |-> PromptUnspent(Op), remaining |-> TrackBudget - reserved]

\* The run just after approval, open on the page.
PageInit ==
    /\ schema = "2.0" /\ phase = "TOKENIZATION" /\ status = "PREPARING"
    /\ outcome = None /\ eligible = FALSE /\ tokenIdentity = None
    /\ stage = [k \in Kinds |-> "NOT_STARTED"]
    /\ attempts = [k \in Kinds |-> << >>]
    /\ prompt = [k \in Kinds |-> None] /\ hash = [k \in Kinds |-> None]
    /\ rpc = [k \in Kinds |-> "NONE"] /\ receipt = [k \in Kinds |-> None]
    /\ correlation = [k \in Kinds |-> None] /\ statusText = [k \in Kinds |-> None]
    /\ released = [k \in Kinds |-> 0] /\ reserved = 0 /\ refused = FALSE /\ pollStep = 0
    /\ rev = 0 /\ error = None /\ tx = None /\ ledger = Nothing
    /\ request = [s \in Slots |-> NoRequest]
    /\ view = Projection(Row)
    /\ model = "READY" /\ detail = None /\ action = NoAction
    /\ asked = None /\ mined = None /\ extras = 0

-----------------------------------------------------------------------------
(* Answers *)

Failed(code) == [kind |-> "ERROR", code |-> code]

\* A request is answered with a projection, or with a 503 when there is none.
Shown(row) ==
    IF Readable(row) THEN [kind |-> "RUN", run |-> Projection(row)]
                     ELSE Failed("SERVICE_UNAVAILABLE")

\* It names the revision its release makes.
Envelope == [kind |-> "ENVELOPE", tx |-> tx, rev |-> rev + 1]

\* Nobody waits for the answer to a request that was left.
Answered(s, answer) ==
    [request EXCEPT ![s] =
        IF s = "left" THEN NoRequest ELSE [@ EXCEPT !.step = "answered", !.answer = answer]]

Answer(s, answer) == request' = Answered(s, answer)

OnlyAnswers == UNCHANGED <<serverVars, view, sectionVars, worldVars>>

-----------------------------------------------------------------------------
(* The server's routes.  A request that wrote knows the revision it made    *)
(* and goes on only from there.                                             *)

Working == {"action", "left"}

KnowsFaultAnyRevision(s) == request[s].expects \in Nat

Knows(s) == request[s].expects = rev

Begins(s, route) ==
    request[s].step = "arrived" /\ request[s].route = route /\ Knows(s)

At(s, step) == request[s].step = step /\ Knows(s)

Write == rev' = rev + 1 /\ UNCHANGED <<view, sectionVars, worldVars>>

\* Request s goes on at `step`.
GoOn(s, step) == request' = [request EXCEPT ![s].step = step] /\ OnlyAnswers

\* It wrote before.
WriteAndGoOn(s, step) ==
    /\ Write
    /\ request' = [request EXCEPT ![s].step = step, ![s].expects = rev + 1]

WriteAndAnswer(s, answer) == Write /\ Answer(s, answer)

\* Brickken is asked and makes a transaction or does not, whatever will arrive of
\* its answer, and whether or not the request is still there to take it.
BrickkenActs ==
    \E n \in 0..1 : ledger' = [ledger EXCEPT !.made = @ + n, !.last = n]

\* prepareNextOperationHandler: the intent is durable before Brickken is asked.
AskBrickken(s) ==
    /\ Begins(s, "prepare")
    /\ BeginPrepare(Op) /\ WriteAndGoOn(s, "asked")
    /\ BrickkenActs /\ UNCHANGED <<error, tx>>

AskBrickkenAgain(s) ==
    /\ Begins(s, "prepare") /\ status = "AWAITING_WALLET"
    /\ BeginReprepare(Op) /\ WriteAndGoOn(s, "askedAgain")
    /\ BrickkenActs /\ UNCHANGED <<error, tx>>

\* A run that is not ready for it: STATE_CONFLICT.
RefuseToPrepare(s) ==
    /\ Begins(s, "prepare")
    /\ IF schema = "4.0" THEN stage[Op] # "PREPARED_STALE" \/ ~MayPrepareAgain(Op)
                         ELSE status # "PREPARING" \/ stage[Op] # "NOT_STARTED"
    /\ Answer(s, Failed("STATE_CONFLICT")) /\ OnlyAnswers

\* What an answer says of Brickken: it made the transaction it returns, and refuses
\* without making one; any other answer, and none, leaves it open.
BrickkenMade(a) ==
    IF a.came = "ANSWER" /\ a.status \in {400, 401, 402, 403, 422, 429} THEN {0}
    ELSE IF a.came = "ANSWER" /\ a.status = 200 /\ a.form = "JSON" THEN {1}
    ELSE {0, 1}

\* The answers that may come to what Brickken did.
AnswersNow == {a \in PrepareAnswers : ledger.last \in BrickkenMade(a)}

\* prepareOperation, from Brickken's answer on.
TakeFirst(s) ==
    /\ At(s, "asked")
    /\ \E a \in AnswersNow :
           LET code == FailureOf(a) IN
           \/ /\ Prepares(a)
              /\ RecordPrepared(Op) /\ tx' = a.body /\ UNCHANGED <<error, ledger>>
              /\ WriteAndAnswer(s, Shown(Row'))
           \/ /\ ~Prepares(a) /\ error' = ShownCode(code) /\ UNCHANGED tx
              /\ \/ Definite(code) /\ RecordPrepareFailure(Op) /\ UNCHANGED ledger
                 \/ /\ Interrupted(code) /\ RecordPrepareInterrupted(Op)
                    /\ ledger' = [ledger EXCEPT !.interrupted = @ + 1]
                 \/ /\ ~Definite(code) /\ ~Interrupted(code)
                    /\ RecordPrepareUnknown(Op) /\ UNCHANGED ledger
              /\ WriteAndAnswer(s, Failed(ShownCode(code)))

Verdicts(t) == {ProtocolVerdict(t, c) : c \in Chains}

\* reprepareOperation.  What cannot become the second preparation, because it is
\* refused or because the node did not answer, leaves the outcome unknown.
TakeSecond(s) ==
    /\ At(s, "askedAgain")
    /\ UNCHANGED <<error, ledger>>
    /\ \E a \in AnswersNow :
           LET code == FailureOf(a) IN
           \/ /\ Prepares(a) /\ Attemptable(a.body) /\ "OK" \in Verdicts(a.body)
              /\ RecordReprepared(Op) /\ tx' = a.body
              /\ WriteAndAnswer(s, Shown(Row'))
           \/ /\ Prepares(a)
              /\ ~Attemptable(a.body) \/ Verdicts(a.body) # {"OK"}
              /\ RecordReprepareUnknown(Op) /\ UNCHANGED tx
              /\ WriteAndAnswer(s, Failed("PREPARATION_UNCONFIRMED"))
           \/ /\ ~Prepares(a) /\ UNCHANGED tx
              /\ \/ Definite(code) /\ RecordReprepareRefused(Op)
                    /\ WriteAndAnswer(s, Failed(ShownCode(code)))
                 \/ ~Definite(code) /\ RecordReprepareUnknown(Op)
                    /\ WriteAndAnswer(s, Failed("PREPARATION_UNCONFIRMED"))

\* promotePreparedRunToV4.  A price report that ran out does not stand in the way
\* of the promotion.
PromoteRun(s) ==
    /\ Begins(s, "execute")
    /\ schema = "2.0" /\ status = "AWAITING_WALLET" /\ stage[Op] = "PREPARED"
    /\ UNCHANGED <<error, tx, ledger>>
    /\ \/ /\ "REFUSED" \in Verdicts(tx)
          /\ Answer(s, Failed("AUTHORIZATION_POLICY_REFUSED")) /\ OnlyAnswers
       \/ /\ ~Attemptable(tx)
          /\ Answer(s, Failed("STATE_CONFLICT")) /\ OnlyAnswers
       \/ /\ Attemptable(tx) /\ Verdicts(tx) # {"REFUSED"}
          /\ Promote(Op) /\ WriteAndGoOn(s, "promoted")

StaleAndAnswer(s) ==
    MarkPreparedStale(Op) /\ WriteAndAnswer(s, Failed("FRESHNESS_CHECK_FAILED"))

\* evaluateAndApplyPreparedFreshness
Evaluate(s) ==
    /\ \/ Begins(s, "execute") /\ schema = "4.0" /\ status = "AWAITING_WALLET"
          /\ stage[Op] = "PREPARED"
       \/ At(s, "promoted")
    /\ UNCHANGED <<error, tx, ledger>>
    /\ \E o \in {FreshnessOutcome(tx, r) : r \in Readings} :
           \/ /\ o = "ELIGIBLE"
              /\ GoOn(s, "fresh")
           \/ MarksStale(o) /\ StaleAndAnswer(s)
           \/ /\ ~MarksStale(o) /\ o # "ELIGIBLE"
              /\ Answer(s, Failed("FRESHNESS_CHECK_FAILED")) /\ OnlyAnswers

PreflightsOf(t) == {Preflight(t, r1, c, r2) : r1 \in Readings, c \in Chains, r2 \in Readings}

PreflightError(p) ==
    IF p.reason = "AUTHORIZATION_DENIED" THEN "AUTHORIZATION_POLICY_REFUSED"
                                         ELSE "FRESHNESS_CHECK_FAILED"

\* releaseSendAuthority, its first preflight.
RecordPrompt(s) ==
    /\ At(s, "fresh")
    /\ UNCHANGED <<error, tx, ledger>>
    /\ \E p \in PreflightsOf(tx) :
           \/ p.reason = "AUTHORIZED" /\ RecordWalletPrompt(Op) /\ WriteAndGoOn(s, "prompted")
           \/ p.reason = "FRESHNESS_CHECK_FAILED" /\ MarksStale(p.detail) /\ StaleAndAnswer(s)
           \/ /\ p.reason # "AUTHORIZED"
              /\ p.reason = "AUTHORIZATION_DENIED" \/ ~MarksStale(p.detail)
              /\ Answer(s, Failed(PreflightError(p))) /\ OnlyAnswers

\* Its second preflight, over the prompt it just recorded.  Only the last
\* freshness decides whether the preparation is marked, and the mark may throw
\* (Submission!ThrowOnStalePrompt).
ReleaseEnvelope(s) ==
    /\ At(s, "prompted")
    /\ UNCHANGED <<error, tx, ledger>>
    /\ \E p \in PreflightsOf(tx) :
           \/ /\ p.reason = "AUTHORIZED"
              /\ ReleaseSendAuthority(Op) /\ WriteAndAnswer(s, Envelope)
           \/ /\ p.reason # "AUTHORIZED" /\ MarksStale(p.evaluation)
              /\ \/ DropPromptAndMarkStale(Op)
                    /\ WriteAndAnswer(s, Failed("FRESHNESS_CHECK_FAILED"))
                 \/ Answer(s, Failed("STATE_CONFLICT")) /\ OnlyAnswers
           \/ /\ p.reason # "AUTHORIZED" /\ ~MarksStale(p.evaluation)
              /\ Answer(s, Failed(PreflightError(p))) /\ OnlyAnswers

\* broadcast-hash and broadcast-unknown.  Bound: what the user asked for besides
\* and what the page left have ended before a hash is recorded.
IngestReport(s) ==
    /\ UNCHANGED <<error, tx, ledger>>
    /\ \/ /\ Begins(s, "hash")
          /\ \A other \in {"left", "manual"} \ {s} : request[other].step = "idle"
          /\ \E h \in Hashes : RecordBroadcastHash(Op, h)
       \/ Begins(s, "unknown") /\ RecordBroadcastUnknown(Op)
    /\ WriteAndAnswer(s, Shown(Row'))

\* The row is no longer the one the request expects.  Every write of the server
\* is a compare-and-swap, so this holds at every step.
Conflict(s) ==
    /\ request[s].step \notin {"idle", "answered"}
    /\ request[s].route # "get" /\ ~Knows(s)
    /\ Answer(s, Failed("REVISION_CONFLICT")) /\ OnlyAnswers

Serve(s) ==
    \/ AskBrickken(s) \/ AskBrickkenAgain(s) \/ RefuseToPrepare(s)
    \/ TakeFirst(s) \/ TakeSecond(s)
    \/ PromoteRun(s) \/ Evaluate(s) \/ RecordPrompt(s) \/ ReleaseEnvelope(s)
    \/ IngestReport(s)

\* The process dies under the request.
Crash(s) ==
    /\ extras < MaxExtras
    /\ request[s].step \notin {"idle", "answered"}
    /\ extras' = extras + 1
    /\ Answer(s, Failed("LOST"))
    /\ UNCHANGED <<serverVars, view, sectionVars, asked, mined>>

-----------------------------------------------------------------------------
(* GET, track and cancel *)

\* getRunHandler.  A reconciliation that fails is not the reader's concern.
ServeRun(s) ==
    /\ request[s].step = "arrived" /\ request[s].route = "get"
    /\ Answer(s, Shown(Row)) /\ OnlyAnswers

\* trackExecution reserves before it polls, and need not while it waits for
\* finality.  The page does not ask when nothing is left to reserve.
BeginTracking(s) ==
    /\ Begins(s, "track")
    /\ \/ /\ ReserveTracking(Op) /\ WriteAndGoOn(s, "tracked")
          /\ UNCHANGED <<error, tx, ledger>>
       \/ /\ Trackable(Op) /\ AwaitingFinality(Op)
          /\ GoOn(s, "tracked")
       \/ /\ ~Trackable(Op)
          /\ Answer(s, Failed("STATE_CONFLICT")) /\ OnlyAnswers

\* The poll of a track request goes on from its own writes, and ends in the row
\* it left or in a conflict.
EndTracking(s) ==
    /\ request[s].step = "tracked"
    /\ \E a \in {Shown(Row), Failed("REVISION_CONFLICT")} : Answer(s, a)
    /\ OnlyAnswers

CancelRun(s) ==
    /\ Begins(s, "cancel")
    /\ \/ Cancel /\ UNCHANGED <<error, tx, ledger>> /\ WriteAndAnswer(s, Shown(Row'))
       \/ /\ schema = "4.0"
          /\ Answer(s, Failed("STATE_CONFLICT")) /\ OnlyAnswers

-----------------------------------------------------------------------------
(* What a poll concludes.  It runs while a GET or a track request is at the *)
(* server.  Module Tracking has several polls, a chain that reorganises and *)
(* answers that are late; here the interest is in what an answer means.     *)

Polling ==
    \E s \in {"pull", "poll", "manual"} :
        request[s].step = "tracked"
        \/ (request[s].route = "get" /\ request[s].step = "arrived")

SeeTransaction == \E b \in BaseFees : VerifyTransaction(Op, Compare(tx, mined, b))

\* Receipts that agree with the transaction and succeed; Tracking has the others.
SeeReceipt ==
    \E r \in Receipts :
        r.identity = "MATCH" /\ r.execution = "SUCCESS" /\ RecordReceipt(Op, r)

TakeCorrelation ==
    \E a \in CorrelationAnswers :
        LET o == CorrelationOutcome(a, hash[Op]) IN
        \/ o = "CORRELATED_PENDING" /\ RecordCorrelated(Op)
        \/ MayCorrelateAgain(o) /\ RecordCorrelationUncertain(Op)
        \/ o # "CORRELATED_PENDING" /\ ~MayCorrelateAgain(o) /\ RefuseCorrelation(Op)

TakeStatus ==
    \E a \in StatusAnswers :
        \/ StatusOutcome(a, hash[Op]) = "STATUS" /\ RecordStatus(Op, a.body.text)
        \/ StatusOutcome(a, hash[Op]) = "CONTRADICTION" /\ RecordStatusContradiction(Op)

ReadBack ==
    \E l \in Logs :
        \/ TokenBound(l) /\ RecordTokenIdentity
        \/ ~TokenBound(l) /\ RecordReadBackMismatch(Op)

Poll ==
    /\ Polling
    /\ \/ SeeTransaction \/ SeeReceipt
       \/ BeginCorrelation(Op) \/ AuthorizeCorrelationRetry(Op) \/ ExhaustCorrelation(Op)
       \/ TakeCorrelation \/ TakeStatus \/ ReadBack
    /\ Write /\ UNCHANGED <<error, tx, ledger, request>>

-----------------------------------------------------------------------------
(* The planning controller.  `expects` of a GET is the revision of the view *)
(* when it was sent: what arrives is compared with that one.                *)

Send(s, route, expects) ==
    [request EXCEPT ![s] = [NoRequest EXCEPT !.route = route, !.step = "arrived",
                                             !.expects = expects]]

Returned(s) == request[s].step = "answered"

ShowsRun(s) == request[s].answer.kind = "RUN"

MergesFaultForgetsRevision(run, base) == run.rev >= 0

\* mergeDurableRun, and readProjection with a previous view: no older revision.
Merges(run, base) == run.rev >= base

Accepts(s, base) == ShowsRun(s) /\ Merges(request[s].answer.run, base)

\* pullLatest, and act("refresh"), accept what is not older than the view that
\* was there when they asked.
TakeRun(s) ==
    /\ Returned(s) /\ request[s].route = "get"
    /\ request' = [request EXCEPT ![s] = NoRequest]
    /\ view' = IF Accepts(s, request[s].expects) THEN request[s].answer.run ELSE view
    /\ action' = IF s = "pull" THEN NoAction ELSE action
    /\ UNCHANGED <<serverVars, model, detail, worldVars>>

\* act("refresh") and act("cancel"): one at a time.  Bound: after a hash, while
\* the answer of a tracking request is on its way back, and the timer waits.
AskManually ==
    /\ request["manual"].step = "idle" /\ extras < MaxExtras
    /\ hash[Op] # None => request["poll"].step = "answered"
    /\ extras' = extras + 1
    /\ \/ request' = Send("manual", "get", view.rev)
       \/ CanCancel(view) /\ request' = Send("manual", "cancel", view.rev)
    /\ UNCHANGED <<serverVars, view, sectionVars, asked, mined>>

\* An interrupted preparation may be asked for again by whoever knows its revision
\* (preparation-resilience.test.ts); no answer of the server names it to the page.
\* Bound: once, and when the page left no request.
AskElsewhere ==
    /\ error # None /\ stage[Op] = "NOT_STARTED"
    /\ request["left"].step = "idle" /\ extras < MaxExtras
    /\ extras' = extras + 1
    /\ request' = Send("left", "prepare", rev)
    /\ UNCHANGED <<serverVars, view, sectionVars, asked, mined>>

\* A cancellation that conflicts is followed by a GET.
TakeCancellation ==
    /\ Returned("manual") /\ request["manual"].route = "cancel"
    /\ IF ShowsRun("manual")
       THEN /\ view' = IF Accepts("manual", request["manual"].expects)
                       THEN request["manual"].answer.run ELSE view
            /\ request' = [request EXCEPT !["manual"] = NoRequest]
       ELSE /\ request' = IF request["manual"].answer.code \in {"REVISION_CONFLICT", "STATE_CONFLICT"}
                          THEN Send("manual", "get", request["manual"].expects)
                          ELSE [request EXCEPT !["manual"] = NoRequest]
            /\ UNCHANGED view
    /\ UNCHANGED <<serverVars, sectionVars, worldVars>>

\* The poll timer: pollVerificationOnce.
PollTimer ==
    /\ CanTrack(view) /\ request["poll"].step = "idle" /\ request["manual"].step = "idle"
    /\ request' = Send("poll", IF view.remaining > 0 THEN "track" ELSE "get", view.rev)
    /\ UNCHANGED <<serverVars, view, sectionVars, worldVars>>

\* applyDurableRun compares with the view of now; what it does not take, and any
\* error, leads to pullLatest.
TakeTracked ==
    /\ Returned("poll") /\ request["poll"].route = "track"
    /\ IF Accepts("poll", view.rev)
       THEN /\ view' = request["poll"].answer.run
            /\ request' = [request EXCEPT !["poll"] = NoRequest]
       ELSE request' = Send("poll", "get", view.rev) /\ UNCHANGED view
    /\ UNCHANGED <<serverVars, sectionVars, worldVars>>

-----------------------------------------------------------------------------
(* The section: one button *)

\* The button is there and not disabled.  It prepares unless the view shows a
\* prepared transaction.
Offered ==
    /\ action.step = "idle"
    /\ view.executable /\ ~Locked(model, view)
    /\ detail # None => detail.retry

\* prepare()
ClickPrepare ==
    /\ Offered /\ view.stage # "PREPARED"
    /\ action' = [NoAction EXCEPT !.step = "asking", !.rev = view.rev]
    /\ detail' = None /\ asked' = None
    /\ request' = Send("action", "prepare", view.rev)
    /\ UNCHANGED <<serverVars, view, model, mined, extras>>

\* execute(), after establishReadiness
ClickExecute ==
    /\ Offered /\ view.stage = "PREPARED"
    /\ action' = [NoAction EXCEPT !.step = "asking", !.rev = view.rev, !.review = view.review]
    /\ detail' = None /\ model' = ModelStarted(model) /\ asked' = None
    /\ request' = Send("action", "execute", view.rev)
    /\ UNCHANGED <<serverVars, view, mined, extras>>

\* establishReadiness: no account, another account, another chain.
WalletNotReady ==
    /\ Offered /\ view.stage = "PREPARED"
    /\ model' = ModelAfter("WALLET_NOT_READY") /\ detail' = Detail("WALLET_NOT_READY")
    /\ asked' = None
    /\ UNCHANGED <<serverVars, request, view, action, mined, extras>>

\* onRefresh, which the click waits for.
Refresh ==
    /\ action' = [NoAction EXCEPT !.step = "refreshing"]
    /\ request' = [Send("pull", "get", view.rev) EXCEPT !["action"] = NoRequest]

\* The click fails with `code`.
Fails(code) ==
    /\ model' = ModelAfter(code) /\ detail' = Detail(code)
    /\ IF RefreshAfter(code) THEN Refresh
       ELSE action' = NoAction /\ request' = [request EXCEPT !["action"] = NoRequest]

TakePrepared ==
    /\ Returned("action") /\ request["action"].route = "prepare"
    /\ detail' = IF ShowsRun("action") THEN None
                 ELSE Detail(PageCode("prepare", request["action"].answer.code))
    /\ Refresh
    /\ UNCHANGED <<serverVars, view, model, worldVars>>

TakeEnvelope ==
    /\ Returned("action") /\ request["action"].route = "execute"
    /\ IF request["action"].answer.kind = "ENVELOPE"
       THEN /\ action' = [action EXCEPT !.step = "holding", !.rev = request["action"].answer.rev,
                                        !.envelope = request["action"].answer.tx]
            /\ request' = [request EXCEPT !["action"] = NoRequest]
            /\ UNCHANGED <<model, detail>>
       ELSE Fails(PageCode("execute", request["action"].answer.code))
    /\ UNCHANGED <<serverVars, view, worldVars>>

Report(route) ==
    /\ action' = [action EXCEPT !.step = "reporting"]
    /\ request' = Send("action", route, action.rev)

\* afterAuthority fails, or the wallet is asked.
AskWallet ==
    /\ action.step = "holding"
    /\ \/ Report("unknown") /\ UNCHANGED asked
       \/ /\ action' = [action EXCEPT !.step = "sending"]
          /\ asked' = [tx |-> action.envelope, shown |-> action.review]
          /\ UNCHANGED request
    /\ UNCHANGED <<serverVars, view, model, detail, mined, extras>>

\* The user confirms, refuses or does not answer; what the wallet sends may come
\* back as a hash or not.
WalletAnswers ==
    /\ action.step = "sending"
    /\ \/ /\ \E t \in WalletMaySend(action.envelope) : mined' = t
          /\ Report("hash") \/ Report("unknown")
       \/ UNCHANGED mined /\ Report("unknown")
    /\ UNCHANGED <<serverVars, view, model, detail, asked, extras>>

\* A hash the server did not confirm to have recorded is reported unknown.
TakeReported ==
    /\ Returned("action") /\ request["action"].route = "hash"
    /\ IF ShowsRun("action") THEN model' = "HASH_RECORDED" /\ Refresh /\ UNCHANGED detail
       ELSE Report("unknown") /\ UNCHANGED <<model, detail>>
    /\ UNCHANGED <<serverVars, view, worldVars>>

TakeUnknownReported ==
    /\ Returned("action") /\ request["action"].route = "unknown"
    /\ Fails("BROADCAST_OUTCOME_UNKNOWN")
    /\ UNCHANGED <<serverVars, view, worldVars>>

\* The gateway's timeout: the server goes on with the request.
GiveUp ==
    /\ extras < MaxExtras
    /\ request["action"].step \notin {"idle", "answered"} /\ request["left"].step = "idle"
    /\ extras' = extras + 1
    /\ request' = [Answered("action", Failed("LOST")) EXCEPT !["left"] = request["action"]]
    /\ UNCHANGED <<serverVars, view, sectionVars, asked, mined>>

\* The error is dismissed.
Dismiss ==
    /\ detail # None /\ detail' = None
    /\ UNCHANGED <<serverVars, request, view, model, action, worldVars>>

\* Another tab of the page is opened and this one again: the section starts anew
\* on the view that is there.
Remount ==
    /\ action.step = "idle"
    /\ model' = "READY" /\ detail' = None
    /\ UNCHANGED <<serverVars, request, view, action, worldVars>>

-----------------------------------------------------------------------------
(* The page and the server *)

Server ==
    \/ \E s \in Working : Serve(s)
    \/ \E s \in Working \cup {"pull"} : Crash(s)
    \/ \E s \in Slots : Conflict(s) \/ ServeRun(s)
    \/ BeginTracking("poll") \/ EndTracking("poll") \/ CancelRun("manual")
    \/ Poll

Controller ==
    \/ \E s \in {"pull", "poll", "manual"} : TakeRun(s)
    \/ AskManually \/ AskElsewhere \/ TakeCancellation \/ PollTimer \/ TakeTracked

Section ==
    \/ ClickPrepare \/ ClickExecute \/ WalletNotReady \/ Dismiss \/ Remount
    \/ TakePrepared \/ TakeEnvelope \/ TakeReported \/ TakeUnknownReported
    \/ AskWallet \/ WalletAnswers \/ GiveUp

PageNext == Server \/ Controller \/ Section

PageSpec == PageInit /\ [][PageNext]_pageVars

-----------------------------------------------------------------------------
(* Properties *)

ServerSteps == {"idle", "arrived", "asked", "askedAgain", "promoted", "fresh", "prompted",
                "tracked", "answered"}

\* The run keeps to its schema, the page to the states of its section, and a
\* recorded transaction is one the run's signer may send on Sepolia.
PageTypeOK ==
    /\ TypeOK
    /\ rev \in Nat /\ view.rev \in 0..rev /\ ledger \in Ledgers
    /\ tx # None => tx.chain = "SEPOLIA" /\ tx.from = "SIGNER"
    /\ request \in [Slots -> [route : {None, "prepare", "execute", "hash", "unknown", "get",
                                      "track", "cancel"},
                              step : ServerSteps, expects : 0..rev,
                              answer : {request[s].answer : s \in Slots}]]
    /\ model \in LockingStates \cup {"READY", "PROMPT_IN_PROGRESS", "FRESHNESS_CHECK_FAILED"}
    /\ detail # None => detail.submission \in {"NO", "UNKNOWN"} /\ detail.retry \in BOOLEAN
    /\ action.step \in {"idle", "asking", "holding", "sending", "reporting", "refreshing"}
    /\ extras \in 0..MaxExtras

\* What the two routes of the button ask of the row.
WouldPrepare ==
    ~Blocked /\ IF schema = "4.0" THEN stage[Op] = "PREPARED_STALE" /\ MayPrepareAgain(Op)
                                  ELSE status = "PREPARING" /\ stage[Op] = "NOT_STARTED"

WouldExecute == ~Blocked /\ status = "AWAITING_WALLET" /\ stage[Op] = "PREPARED"

\* A button that shows the run as it is never offers what the server refuses:
\* executeEligible (projection.ts), the button's choice between prepare and
\* execute (wallet-execution-section.tsx) and the guards of the handlers are three
\* readings of one state machine.  A recorded prompt is exempt: the page offers
\* to prepare it, which leads nowhere.
OfferIsAccepted ==
    Offered /\ view.rev = rev /\ stage[Op] # "WALLET_PROMPT_RECORDED" =>
        IF view.stage = "PREPARED" THEN WouldExecute ELSE WouldPrepare

\* The preparations the row has recorded: the ones that went stale, and the one
\* that stands.
Superseded == IF attempts[Op] = << >> THEN 0 ELSE Len(attempts[Op]) - 1

Stands == stage[Op] \notin {"NOT_STARTED", "PREPARE_INTENT", "REPREPARE_INTENT",
                            "PREPARE_UNKNOWN", "REJECTED"}

Recorded == Superseded + (IF Stands THEN 1 ELSE 0)

\* A request that is out, or that nobody knows the end of.
InDoubt == stage[Op] \in {"PREPARE_INTENT", "REPREPARE_INTENT", "PREPARE_UNKNOWN"}

\* The row accounts for what Brickken made of the run, over all its preparations:
\* every one it recorded, perhaps the one its stage leaves in doubt, perhaps one for
\* each that was interrupted, and nothing else.  So a run ends as refused only on
\* an answer that made nothing: a lost, garbled or redirected one leaves it in doubt
\* (service.ts, definitePrepareRefusal and isInterruptedPreparation; v4-service.ts,
\* recordReprepared).
AccountsForBrickken ==
    /\ Recorded <= ledger.made
    /\ ledger.made <= Recorded + ledger.interrupted + (IF InDoubt THEN 1 ELSE 0)

\* The wallet is asked for exactly the transaction the page showed when the user
\* clicked, whatever was prepared again, refreshed or answered late in between
\* (the revision the click sends, and the compare-and-swap behind it).
ReviewedIsSent == asked # None => asked.tx = asked.shown

\* What reaches the wallet is the approved mandate and nothing else, even when
\* Brickken prepared another call or destination and its answer was recorded
\* (promotePreparedRunToV4, reprepareOperation, preflightWalletAuthorization).
ReleasedIsMandate ==
    asked # None =>
        /\ asked.tx.call = "MANDATE" /\ asked.tx.to = "FACTORY" /\ asked.tx.value = 0
        /\ asked.tx.chain = "SEPOLIA" /\ asked.tx.from = "SIGNER"

\* A mined transaction taken as within the envelope is the approved mandate and
\* cost at most the network ceiling, however the wallet changed its fees or their
\* model (comparison.ts, evaluateFeeAuthorizationV1).
WithinMeansBounded ==
    rpc[Op] = "WITHIN_ENVELOPE" =>
        /\ mined # None /\ Identity(mined) = Identity(tx)
        /\ mined.call = "MANDATE" /\ mined.to = "FACTORY"
        /\ mined.gas * Price(mined) <= NetworkCeiling

\* "No transaction was submitted" is said only of a click that never asked the
\* wallet: after the wallet was asked, a refusal, a lost hash and a hash the
\* server did not take are all "unknown" (classifyWalletExecutionErrorDetail).
NoSubmissionIsTrue ==
    detail # None /\ detail.submission = "NO" => asked = None

\* The answer to a tracking request never takes the page back to an older
\* revision: only a read may, which compares with the view it was sent from
\* (applyDurableRun and mergeDurableRun against pullLatest).
ViewGoesBackOnlyByOldRead ==
    [][view'.rev < view.rev =>
           \E s \in Slots : request[s].route \in {"get", "cancel"} /\ Returned(s)
                           /\ request'[s] # request[s]]_pageVars

\* Every run the server wrote, it can show: preparation-resilience.test.ts has an
\* interrupted preparation "can reprepare", and the page offers it.  The code does
\* not keep this: assertExecutionProjection refuses a run that is ready to be
\* prepared and still names the error of its last preparation.
ProjectionAccepted == Readable(Row)

=============================================================================
