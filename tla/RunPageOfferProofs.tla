-------------------------- MODULE RunPageOfferProofs --------------------------
(***************************************************************************)
(* Proofs about RunPage, concluded: what the page offers is accepted, and  *)
(* everything it holds has the form it should.  What the page offers was   *)
(* computed from a row by the projection, is chosen by the section and is  *)
(* guarded by the handlers; the three agree because a view of the current  *)
(* revision is the projection of the current row.                          *)
(***************************************************************************)
EXTENDS RunPageSendProofs

-----------------------------------------------------------------------------
(* Status and stage *)

\* A write that leaves the operation past these stages says nothing of them.
LEMMA LaterStages ==
  ASSUME stage'[Op] \notin {"NOT_STARTED", "PREPARED"} PROVE OfferInv'
BY DEF OfferInv

LEMMA OfferWrites ==
  ASSUME IInv, OfferInv,
         \/ QuietWrite \/ RecordPrepared(Op) \/ RecordReprepared(Op) \/ Promote(Op)
         \/ ReleaseSendAuthority(Op) \/ SeeTransaction
         \/ \E h \in Hashes : RecordBroadcastHash(Op, h)
  PROVE  OfferInv'
<1>1. stage \in [Kinds -> Stages] /\ Op \in Kinds /\ "CANCELLED" # None /\ "FAILED" # None
  BY OpIsKind, NoneAssumption DEF IInv, TypeOK, Outcomes
<1>2. CASE \/ BeginPrepare(Op) \/ RecordPrepareUnknown(Op) \/ RecordPrepareInterrupted(Op)
           \/ RecordPrepareFailure(Op) \/ RecordPrepared(Op)
  BY <1>1, <1>2 DEF BeginPrepare, RecordPrepareUnknown, RecordPrepareInterrupted,
     RecordPrepareFailure, RecordPrepared, PrepareStep, OfferInv
<1>3. CASE \/ BeginReprepare(Op) \/ RecordReprepareUnknown(Op) \/ RecordReprepareRefused(Op)
           \/ MarkPreparedStale(Op) \/ RecordWalletPrompt(Op) \/ DropPromptAndMarkStale(Op)
           \/ RecordBroadcastUnknown(Op) \/ RecordReprepared(Op) \/ ReleaseSendAuthority(Op)
           \/ \E h \in Hashes : RecordBroadcastHash(Op, h)
  BY <1>1, <1>3 DEF BeginReprepare, RecordReprepareUnknown, RecordReprepareRefused,
     EndReprepare, MarkPreparedStale, RecordWalletPrompt, DropPromptAndMarkStale,
     RecordBroadcastUnknown, RecordReprepared, ReleaseSendAuthority, RecordBroadcastHash,
     WalletStep, OfferInv
<1>4. CASE Cancel
  BY <1>1, <1>4 DEF Cancel, OfferInv
<1>5. CASE Promote(Op)
  BY <1>5 DEF Promote, OfferInv
<1>6. CASE ReserveTracking(Op)
  BY <1>6 DEF ReserveTracking, runVars, walletVars, OfferInv
<1>7. CASE SeeReceipt \/ TakeStatus
  BY <1>7, LaterStages DEF SeeReceipt, TakeStatus, RecordReceipt, RecordStatus,
     RecordStatusContradiction, ReceiptStages
<1>8. CASE \/ TakeCorrelation \/ BeginCorrelation(Op) \/ AuthorizeCorrelationRetry(Op)
           \/ ExhaustCorrelation(Op)
  <2>1. stage'[Op] \notin {"NOT_STARTED", "PREPARED"}
    BY <1>1, <1>8 DEF TakeCorrelation, BeginCorrelation, AuthorizeCorrelationRetry,
       ExhaustCorrelation, RecordCorrelationUncertain, RecordCorrelated, RefuseCorrelation,
       CorrelationAuthorized, CorrelationUncertain
  <2> QED
    BY <2>1, LaterStages
<1>9. CASE ReadBack
  <2>1. \/ stage' = [stage EXCEPT !["TOKENIZE"] = "READ_BACK_VERIFIED"]
        \/ stage' = stage /\ stage[Op] = "BRICKKEN_CORRELATED"
    BY <1>9 DEF ReadBack, RecordTokenIdentity, ReadBackStep, RecordReadBackMismatch,
       ReadBackReady, walletVars
  <2>2. stage'[Op] \notin {"NOT_STARTED", "PREPARED"}
    BY <1>1, <2>1 DEF Op
  <2> QED
    BY <2>2, LaterStages
<1>10. CASE SeeTransaction
  <2>1. stage'[Op] \notin {"NOT_STARTED", "PREPARED"}
    BY <1>1, <1>10 DEF SeeTransaction, VerifyTransaction
  <2> QED
    BY <2>1, LaterStages
<1> QED
  BY <1>2, <1>3, <1>4, <1>5, <1>6, <1>7, <1>8, <1>9, <1>10 DEF QuietWrite

LEMMA OfferKept == ASSUME IInv, OfferInv, [PageNext]_pageVars PROVE OfferInv'
<1>1. ASSUME UNCHANGED vars PROVE OfferInv'
  BY <1>1 DEF vars, runVars, walletVars, OfferInv
<1>2. ASSUME OnlyAnswers \/ UNCHANGED serverVars PROVE OfferInv'
  BY <1>1, <1>2 DEF OnlyAnswers, serverVars, runState
<1>3. ASSUME NEW s \in Working, Serve(s) PROVE OfferInv'
  <2>1. CASE AskBrickken(s) \/ AskBrickkenAgain(s)
    BY <2>1, OfferWrites DEF AskBrickken, AskBrickkenAgain, QuietWrite
  <2>2. CASE RefuseToPrepare(s)
    BY <1>2, <2>2 DEF RefuseToPrepare
  <2>3. CASE TakeFirst(s)
    BY <2>3, OfferWrites DEF TakeFirst, QuietWrite
  <2>4. CASE TakeSecond(s)
    BY <2>4, OfferWrites DEF TakeSecond, QuietWrite
  <2>5. CASE PromoteRun(s)
    BY <1>2, <2>5, OfferWrites DEF PromoteRun
  <2>6. CASE Evaluate(s)
    BY <1>2, <2>6, OfferWrites DEF Evaluate, GoOn, StaleAndAnswer, QuietWrite
  <2>7. CASE RecordPrompt(s)
    BY <1>2, <2>7, OfferWrites DEF RecordPrompt, StaleAndAnswer, QuietWrite
  <2>8. CASE ReleaseEnvelope(s)
    BY <1>2, <2>8, OfferWrites DEF ReleaseEnvelope, QuietWrite
  <2>9. CASE IngestReport(s)
    BY <2>9, OfferWrites DEF IngestReport, QuietWrite
  <2> QED
    BY <1>3, <2>1, <2>2, <2>3, <2>4, <2>5, <2>6, <2>7, <2>8, <2>9 DEF Serve
<1>4. CASE \/ \E s \in Working \cup {"pull"} : Crash(s)
           \/ \E s \in Slots : Conflict(s) \/ ServeRun(s)
           \/ EndTracking("poll")
  BY <1>2, <1>4 DEF Crash, Conflict, ServeRun, EndTracking
<1>5. CASE BeginTracking("poll")
  BY <1>2, <1>5, OfferWrites DEF BeginTracking, GoOn, QuietWrite
<1>6. CASE CancelRun("manual")
  BY <1>2, <1>6, OfferWrites DEF CancelRun, QuietWrite
<1>7. CASE Poll
  BY <1>7, OfferWrites DEF Poll, QuietWrite
<1>8. CASE Controller \/ Section
  BY <1>2, <1>8, BrowserKeepsServer
<1>9. CASE UNCHANGED pageVars
  BY <1>2, <1>9 DEF pageVars
<1> QED
  BY <1>3, <1>4, <1>5, <1>6, <1>7, <1>8, <1>9 DEF PageNext, Server

THEOREM OfferInvariant == PageSpec => []OfferInv
<1>1. PageInit => OfferInv
  BY OpIsKind DEF PageInit, OfferInv
<1>2. IInv /\ OfferInv /\ [PageNext]_pageVars => OfferInv'
  BY OfferKept
<1> QED
  BY <1>1, <1>2, PageInvariant, PTL DEF PageSpec

\* A view of the current revision shows what the handlers will look at.
LEMMA CurrentView ==
  ASSUME Honest(view), view.rev = rev
  PROVE  /\ view.stage = stage[Op] /\ view.executable = ExecuteEligible(Row)
         /\ Row.stage = stage[Op] /\ Row.status = status /\ Row.outcome = outcome
         /\ Row.attempts = Len(attempts[Op])
BY DEF Honest, Projection, Row

\* What the page offers on the run as it is, the server does: no stale reading of
\* it by projection, section or handler makes a click fail that need not.
THEOREM OfferAccepted == PageSpec => []OfferIsAccepted
<1>1. IInv /\ PageInv /\ OfferInv => OfferIsAccepted
  <2> SUFFICES ASSUME IInv, PageInv, OfferInv, Offered, view.rev = rev,
                      stage[Op] # "WALLET_PROMPT_RECORDED"
               PROVE  IF view.stage = "PREPARED" THEN WouldExecute ELSE WouldPrepare
    BY DEF OfferIsAccepted
  <2>1. ExecuteEligible(Row) /\ view.stage = stage[Op]
    BY CurrentView DEF PageInv, Offered
  <2>2. /\ outcome = None /\ status \in {"PREPARING", "AWAITING_WALLET"}
        /\ \/ stage[Op] \in {"NOT_STARTED", "PREPARED"}
           \/ stage[Op] = "PREPARED_STALE" /\ Len(attempts[Op]) < 2
    BY <2>1, CurrentView DEF PageInv, ExecuteEligible, StaleReprepareEligible, Row
  <2>3. ~Blocked
    BY <2>2 DEF Blocked
  <2>4. CASE stage[Op] = "PREPARED"
    BY <2>1, <2>2, <2>3, <2>4 DEF OfferInv, WouldExecute
  <2>5. CASE stage[Op] = "NOT_STARTED"
    BY <2>1, <2>2, <2>3, <2>5 DEF OfferInv, WouldPrepare
  <2>6. CASE stage[Op] = "PREPARED_STALE" /\ Len(attempts[Op]) < 2
    <3>1. schema = "4.0"
      BY <2>6 DEF IInv, TypeOK, SchemaShape, Op
    <3>2. Len(attempts[Op]) \in Nat
      BY OpIsKind DEF IInv, TypeOK
    <3>3. MayPrepareAgain(Op)
      BY <2>6, <3>2, CountAssumption, BudgetAssumption DEF MayPrepareAgain
    <3> QED
      BY <2>1, <2>3, <2>6, <3>1, <3>3 DEF WouldPrepare
  <2> QED
    BY <2>2, <2>4, <2>5, <2>6
<1> QED
  BY <1>1, PageInvariant, PageHonest, OfferInvariant, PTL

-----------------------------------------------------------------------------
(* The form of everything else *)

LEMMA NoRequestFormed == ASSUME NEW n \in Nat PROVE Formed(NoRequest, n)
BY DEF Formed, NoRequest, ServerSteps

LEMMA OneFormed ==
  ASSUME PageInv, FormInv, Moves, NEW s \in Slots, NEW q, Formed(q, rev'),
         request' = [request EXCEPT ![s] = q]
  PROVE  \A t \in Slots : Formed(request'[t], rev')
<1>1. rev \in Nat /\ 0..rev \subseteq 0..rev'
  BY DEF PageInv, Moves
<1>2. \A t \in Slots : request'[t] = q \/ request'[t] = request[t]
  BY DEF PageInv
<1>3. \A t \in Slots : Formed(request[t], rev')
  BY <1>1 DEF FormInv, Formed
<1> QED
  BY <1>2, <1>3

LEMMA SameFormed ==
  ASSUME PageInv, FormInv, Moves, request' = request
  PROVE  \A t \in Slots : Formed(request'[t], rev')
<1>1. rev \in Nat /\ 0..rev \subseteq 0..rev'
  BY DEF PageInv, Moves
<1> QED
  BY <1>1 DEF FormInv, Formed

LEMMA AnswerForms ==
  ASSUME PageInv, FormInv, Moves, NEW s \in Slots, NEW a, Answer(s, a),
         a.kind = "ENVELOPE" => a.rev \in 0..rev'
  PROVE  \A t \in Slots : Formed(request'[t], rev')
<1>1. PICK q : q = IF s = "left" THEN NoRequest
                   ELSE Request(request[s].route, "answered", request[s].expects, a)
  OBVIOUS
<1>2. rev \in Nat /\ rev' \in Nat /\ 0..rev \subseteq 0..rev'
  BY DEF PageInv, Moves
<1>3. Formed(q, rev')
  <2>1. CASE s = "left"
    BY <1>1, <1>2, <2>1, NoRequestFormed
  <2>2. CASE s # "left"
    BY <1>1, <1>2, <2>2, RequestHas DEF FormInv, Formed, ServerSteps
  <2> QED
    BY <2>1, <2>2
<1>4. request' = [request EXCEPT ![s] = q]
  BY <1>1, AnsweredIs DEF Answer
<1> QED
  BY <1>3, <1>4, OneFormed

\* A projection or an error holds no revision for the button.
LEMMA PlainAnswerForms ==
  ASSUME PageInv, FormInv, Moves, NEW s \in Slots,
         \/ \E code : Answer(s, Failed(code))
         \/ \E row : Answer(s, Shown(row))
  PROVE  \A t \in Slots : Formed(request'[t], rev')
<1>1. \A code : Failed(code).kind = "ERROR"
  BY DEF Failed
<1>2. \A row : Shown(row).kind # "ENVELOPE"
  BY <1>1 DEF Shown
<1>3. PICK a : Answer(s, a) /\ a.kind # "ENVELOPE"
  <2>1. CASE \E code : Answer(s, Failed(code))
    BY <1>1, <2>1
  <2>2. CASE \E row : Answer(s, Shown(row))
    BY <1>2, <2>2
  <2> QED
    BY <2>1, <2>2
<1> QED
  BY <1>3, AnswerForms

LEMMA StepForms ==
  ASSUME PageInv, FormInv, NEW s \in Slots, NEW step \in ServerSteps, step # "answered",
         GoOn(s, step) \/ WriteAndGoOn(s, step)
  PROVE  \A t \in Slots : Formed(request'[t], rev')
<1>1. rev \in Nat /\ Moves
  BY AnswersMove, WritesMove DEF GoOn, WriteAndGoOn, PageInv
<1>2. PICK e \in 0..rev' :
          request' = [request EXCEPT ![s] =
              Request(request[s].route, step, e, request[s].answer)]
  <2>1. CASE GoOn(s, step)
    BY <2>1, StepIs DEF GoOn, OnlyAnswers, serverVars, FormInv, Formed
  <2>2. CASE WriteAndGoOn(s, step)
    <3>1. rev' = rev + 1 /\ rev + 1 \in 0..rev'
      BY <1>1, <2>2 DEF WriteAndGoOn, Write
    <3> QED
      BY <2>2, <3>1, StepIs DEF WriteAndGoOn
  <2> QED
    BY <2>1, <2>2
<1>3. PICK q : q = Request(request[s].route, step, e, request[s].answer)
  OBVIOUS
<1>4. Formed(q, rev')
  BY <1>3, RequestHas DEF FormInv, Formed
<1> QED
  BY <1>1, <1>2, <1>3, <1>4, OneFormed

LEMMA SendForms ==
  ASSUME PageInv, FormInv, Moves, NEW s \in Slots,
         NEW route \in {"prepare", "execute", "hash", "unknown", "get", "track", "cancel"},
         NEW e \in 0..rev', request' = Send(s, route, e)
  PROVE  \A t \in Slots : Formed(request'[t], rev')
<1>1. PICK q : q = Request(route, "arrived", e, None)
  OBVIOUS
<1>2. Formed(q, rev')
  BY <1>1, RequestHas DEF Formed, ServerSteps
<1> QED
  BY <1>1, <1>2, OneFormed, SendIs

LEMMA ForgetForms ==
  ASSUME PageInv, FormInv, Moves, NEW s \in Slots,
         request' = [request EXCEPT ![s] = NoRequest]
  PROVE  \A t \in Slots : Formed(request'[t], rev')
<1>1. PICK q : q = NoRequest
  OBVIOUS
<1>2. Formed(q, rev')
  BY <1>1, NoRequestFormed DEF PageInv, Moves
<1> QED
  BY <1>1, <1>2, OneFormed

SectionWaits == model' = model /\ detail' = detail /\ action' = action /\ extras' = extras

LEMMA WaitsIs == ASSUME OnlyAnswers \/ Write PROVE Moves /\ SectionWaits
<1>1. SectionWaits
  BY DEF OnlyAnswers, Write, sectionVars, worldVars, SectionWaits
<1> QED
  BY <1>1, AnswersMove, WritesMove

\* What the server may do with a request says what form the request has after it.
LEMMA ServeForms ==
  ASSUME PageInv, FormInv, NEW s \in Slots,
         \/ /\ OnlyAnswers \/ Write
            /\ \/ \E code : Answer(s, Failed(code))
               \/ \E row : Answer(s, Shown(row))
         \/ \E step \in ServerSteps \ {"answered"} : GoOn(s, step) \/ WriteAndGoOn(s, step)
         \/ WriteAndAnswer(s, Envelope)
  PROVE  SectionWaits /\ rev' \in {rev, rev + 1} /\ \A t \in Slots : Formed(request'[t], rev')
<1>1. Moves /\ SectionWaits
  BY WaitsIs DEF GoOn, WriteAndGoOn, WriteAndAnswer
<1>2. CASE \/ \E code : Answer(s, Failed(code))
           \/ \E row : Answer(s, Shown(row))
  BY <1>1, <1>2, PlainAnswerForms DEF Moves
<1>3. CASE \E step \in ServerSteps \ {"answered"} : GoOn(s, step) \/ WriteAndGoOn(s, step)
  BY <1>1, <1>3, StepForms DEF Moves
<1>4. CASE WriteAndAnswer(s, Envelope)
  <2>1. Envelope.rev \in 0..rev'
    BY <1>4 DEF Envelope, WriteAndAnswer, Write, PageInv
  <2> QED
    BY <1>1, <1>4, <2>1, AnswerForms DEF WriteAndAnswer, Moves
<1> QED
  BY <1>2, <1>3, <1>4

LEMMA ServeAnswers ==
  ASSUME NEW s \in Working, Serve(s)
  PROVE  \/ /\ OnlyAnswers \/ Write
            /\ \/ \E code : Answer(s, Failed(code))
               \/ \E row : Answer(s, Shown(row))
         \/ \E step \in ServerSteps \ {"answered"} : GoOn(s, step) \/ WriteAndGoOn(s, step)
         \/ WriteAndAnswer(s, Envelope)
<1>1. CASE AskBrickken(s) \/ AskBrickkenAgain(s)
  BY <1>1 DEF AskBrickken, AskBrickkenAgain, ServerSteps
<1>2. CASE RefuseToPrepare(s)
  BY <1>2 DEF RefuseToPrepare
<1>3. CASE TakeFirst(s)
  BY <1>3 DEF TakeFirst, WriteAndAnswer
<1>4. CASE TakeSecond(s)
  BY <1>4 DEF TakeSecond, WriteAndAnswer
<1>5. CASE PromoteRun(s)
  BY <1>5 DEF PromoteRun, ServerSteps
<1>6. CASE Evaluate(s)
  BY <1>6 DEF Evaluate, StaleAndAnswer, WriteAndAnswer, ServerSteps
<1>7. CASE RecordPrompt(s)
  BY <1>7 DEF RecordPrompt, StaleAndAnswer, WriteAndAnswer, ServerSteps
<1>8. CASE ReleaseEnvelope(s)
  BY <1>8 DEF ReleaseEnvelope, WriteAndAnswer
<1>9. CASE IngestReport(s)
  BY <1>9 DEF IngestReport, WriteAndAnswer
<1> QED
  BY <1>1, <1>2, <1>3, <1>4, <1>5, <1>6, <1>7, <1>8, <1>9 DEF Serve

LEMMA FormFollows ==
  ASSUME FormInv, PageInv, SectionWaits, rev' \in {rev, rev + 1},
         \A t \in Slots : Formed(request'[t], rev')
  PROVE  FormInv'
BY DEF FormInv, PageInv, SectionForm, SectionWaits

LEMMA ServerForms ==
  ASSUME PageInv, FormInv, Server PROVE FormInv'
<1>1. Working \subseteq Slots /\ {"pull", "poll", "manual"} \subseteq Slots
  BY DEF Working, Slots
<1>2. CASE \E s \in Working : Serve(s)
  BY <1>1, <1>2, ServeAnswers, ServeForms, FormFollows
<1>3. ASSUME NEW s \in Working \cup {"pull"}, Crash(s) PROVE FormInv'
  <2>1. Moves /\ rev' = rev
    BY <1>3, RowStays DEF Crash, serverVars
  <2>2. \A t \in Slots : Formed(request'[t], rev')
    BY <1>1, <1>3, <2>1, PlainAnswerForms DEF Crash
  <2>3. SectionForm' /\ action' = action
    BY <1>3, CountAssumption DEF Crash, sectionVars, SectionForm, FormInv
  <2> QED
    BY <2>1, <2>2, <2>3 DEF FormInv
<1>4. ASSUME NEW s \in Slots, Conflict(s) \/ ServeRun(s) PROVE FormInv'
  BY <1>4, ServeForms, FormFollows DEF Conflict, ServeRun, OnlyAnswers, serverVars, FormInv
<1>5. CASE BeginTracking("poll")
  <2>1. \/ OnlyAnswers /\ \E code : Answer("poll", Failed(code))
        \/ GoOn("poll", "tracked") \/ WriteAndGoOn("poll", "tracked")
    BY <1>5 DEF BeginTracking, GoOn, OnlyAnswers, serverVars
  <2>2. "tracked" \in ServerSteps \ {"answered"}
    BY DEF ServerSteps
  <2> QED
    BY <1>1, <2>1, <2>2, ServeForms, FormFollows
<1>6. CASE EndTracking("poll")
  BY <1>1, <1>6, ServeForms, FormFollows DEF EndTracking, OnlyAnswers, serverVars, FormInv
<1>7. CASE CancelRun("manual")
  <2>1. /\ OnlyAnswers \/ Write
        /\ \/ \E code : Answer("manual", Failed(code))
           \/ \E row : Answer("manual", Shown(row))
    BY <1>7 DEF CancelRun, WriteAndAnswer, OnlyAnswers, serverVars, FormInv
  <2> QED
    BY <1>1, <2>1, ServeForms, FormFollows
<1>8. CASE Poll
  <2>1. Write /\ request' = request
    BY <1>8 DEF Poll
  <2> QED
    BY <2>1, WaitsIs, SameFormed, FormFollows DEF FormInv, Write
<1> QED
  BY <1>2, <1>3, <1>4, <1>5, <1>6, <1>7, <1>8 DEF Server

-----------------------------------------------------------------------------
(* The page's own steps *)

LEMMA DetailForm ==
  ASSUME NEW code
  PROVE  /\ Detail(code).submission \in {"NO", "UNKNOWN"} /\ Detail(code).retry \in BOOLEAN
         /\ ModelAfter(code) \in LockingStates \cup {"READY", "FRESHNESS_CHECK_FAILED"}
<1>1. Detail(code).submission \in {"NO", "UNKNOWN"} /\ Detail(code).retry \in BOOLEAN
  BY DEF Detail
<1>2. ModelAfter(code) \in LockingStates \cup {"READY", "FRESHNESS_CHECK_FAILED"}
  BY DEF ModelAfter, LockingStates
<1> QED
  BY <1>1, <1>2

\* The page knows no revision but those the row has had.
LEMMA KnownRevisions ==
  ASSUME PageInv, FormInv
  PROVE  /\ rev \in Nat /\ view.rev \in 0..rev /\ action.rev \in 0..rev
         /\ \A s \in Slots : request[s].expects \in 0..rev
BY DEF PageInv, Honest, FormInv, Formed

LEMMA BrowserFollows ==
  ASSUME PageInv, FormInv, UNCHANGED serverVars,
         \A t \in Slots : Formed(request'[t], rev'),
         action'.rev \in 0..rev, SectionForm'
  PROVE  FormInv'
BY DEF FormInv, serverVars

LEMMA ControllerForms == ASSUME PageInv, FormInv, Controller PROVE FormInv'
<1>1. {"pull", "poll", "manual", "left"} \subseteq Slots
  BY DEF Slots
<1>2. /\ rev \in Nat /\ view.rev \in 0..rev /\ action.rev \in 0..rev
      /\ \A s \in Slots : request[s].expects \in 0..rev
  BY KnownRevisions
<1>3. UNCHANGED serverVars /\ Moves /\ rev' = rev
  <2>1. UNCHANGED serverVars
    BY DEF Controller, TakeRun, AskManually, AskElsewhere, TakeCancellation, PollTimer,
       TakeTracked
  <2> QED
    BY <2>1, RowStays DEF serverVars
<1>4. CASE \E s \in {"pull", "poll", "manual"} : TakeRun(s)
  <2>1. \A t \in Slots : Formed(request'[t], rev')
    BY <1>1, <1>3, <1>4, ForgetForms DEF TakeRun
  <2>2. action'.rev \in 0..rev /\ SectionForm'
    BY <1>2, <1>4 DEF TakeRun, worldVars, NoAction, FormInv, SectionForm
  <2> QED
    BY <1>3, <2>1, <2>2, BrowserFollows
<1>5. CASE AskManually \/ AskElsewhere \/ TakeCancellation \/ PollTimer \/ TakeTracked
  <2>1. \/ \E s \in {"poll", "manual"} : request' = [request EXCEPT ![s] = NoRequest]
        \/ \E s \in {"poll", "manual", "left"} :
               \E route \in {"get", "track", "cancel", "prepare"}, e \in 0..rev :
                   request' = Send(s, route, e)
    BY <1>1, <1>2, <1>5 DEF AskManually, AskElsewhere, TakeCancellation, PollTimer, TakeTracked
  <2>2. \A t \in Slots : Formed(request'[t], rev')
    BY <1>1, <1>3, <2>1, ForgetForms, SendForms
  <2>3. action' = action /\ model' = model /\ detail' = detail
    BY <1>5 DEF AskManually, AskElsewhere, TakeCancellation, PollTimer, TakeTracked,
       sectionVars, worldVars
  <2>4. extras' \in 0..MaxExtras
    BY <1>5, CountAssumption
    DEF AskManually, AskElsewhere, TakeCancellation, PollTimer, TakeTracked, worldVars,
        FormInv, SectionForm
  <2> QED
    BY <1>2, <1>3, <2>2, <2>3, <2>4, BrowserFollows DEF FormInv, SectionForm
<1> QED
  BY <1>4, <1>5 DEF Controller

LEMMA RefreshForms ==
  ASSUME PageInv, FormInv, Moves, rev' = rev, Refresh
  PROVE  /\ \A t \in Slots : Formed(request'[t], rev')
         /\ action'.rev \in 0..rev /\ action'.step = "refreshing"
<1>1. "action" \in Slots /\ "pull" \in Slots
  BY DEF Slots
<1>2. PICK q : q = Request("get", "arrived", view.rev, None)
  OBVIOUS
<1>3. request' = [[request EXCEPT !["pull"] = q] EXCEPT !["action"] = NoRequest]
  BY <1>1, <1>2, SendIs DEF Refresh
<1>4. Formed(q, rev') /\ Formed(NoRequest, rev')
  <2>1. Formed(q, rev')
    BY <1>2, RequestHas, KnownRevisions DEF Formed, ServerSteps
  <2> QED
    BY <2>1, NoRequestFormed, KnownRevisions
<1>5. \A t \in Slots : request'[t] \in {q, NoRequest, request[t]}
  BY <1>3 DEF PageInv
<1>6. \A t \in Slots : Formed(request'[t], rev')
  BY <1>4, <1>5 DEF FormInv
<1>7. action'.rev \in 0..rev /\ action'.step = "refreshing"
  BY KnownRevisions DEF Refresh, NoAction
<1> QED
  BY <1>6, <1>7

LEMMA FailsForms ==
  ASSUME PageInv, FormInv, UNCHANGED serverVars, UNCHANGED worldVars, NEW code, Fails(code)
  PROVE  FormInv'
<1>1. rev \in Nat /\ Moves /\ rev' = rev /\ "action" \in Slots
  BY RowStays, KnownRevisions DEF serverVars, Slots
<1>2. /\ \A t \in Slots : Formed(request'[t], rev')
      /\ action'.rev \in 0..rev /\ action'.step \in {"idle", "refreshing"}
  <2>1. CASE Refresh
    BY <1>1, <2>1, RefreshForms
  <2>2. CASE action' = NoAction /\ request' = [request EXCEPT !["action"] = NoRequest]
    <3>1. \A t \in Slots : Formed(request'[t], rev')
      BY <1>1, <2>2, ForgetForms
    <3>2. action'.rev = 0 /\ action'.step = "idle"
      BY <2>2 DEF NoAction
    <3> QED
      BY <1>1, <3>1, <3>2
  <2> QED
    BY <2>1, <2>2 DEF Fails
<1>3. SectionForm'
  <2>1. model' = ModelAfter(code) /\ detail' = Detail(code) /\ extras' = extras
    BY DEF Fails, worldVars
  <2> QED
    BY <1>2, <2>1, DetailForm DEF SectionForm, FormInv
<1> QED
  BY <1>2, <1>3, BrowserFollows

LEMMA ReportForms ==
  ASSUME PageInv, FormInv, Moves, rev' = rev, NEW route \in {"hash", "unknown"}, Report(route)
  PROVE  /\ \A t \in Slots : Formed(request'[t], rev')
         /\ action'.rev \in 0..rev /\ action'.step = "reporting"
<1>1. \A t \in Slots : Formed(request'[t], rev')
  BY SendForms, KnownRevisions DEF Report, Slots
<1>2. action'.rev \in 0..rev /\ action'.step = "reporting"
  BY KnownRevisions DEF Report, PageInv, ActionOK, Action
<1> QED
  BY <1>1, <1>2

LEMMA SectionForms == ASSUME PageInv, FormInv, Section PROVE FormInv'
<1>1. UNCHANGED serverVars /\ Moves /\ rev' = rev /\ "action" \in Slots /\ "left" \in Slots
  <2>1. UNCHANGED serverVars
    BY BrowserKeepsServer
  <2> QED
    BY <2>1, RowStays DEF serverVars, Slots
<1>2. /\ rev \in Nat /\ view.rev \in 0..rev /\ action.rev \in 0..rev
      /\ \A s \in Slots : request[s].expects \in 0..rev
  BY KnownRevisions
<1>3. CASE ClickPrepare \/ ClickExecute
  <2>1. \A t \in Slots : Formed(request'[t], rev')
    BY <1>1, <1>2, <1>3, SendForms DEF ClickPrepare, ClickExecute
  <2>2. action'.rev \in 0..rev /\ action'.step = "asking" /\ detail' = None /\ extras' = extras
    BY <1>2, <1>3 DEF ClickPrepare, ClickExecute, NoAction
  <2>3. model' \in {model, "PROMPT_IN_PROGRESS"}
    BY <1>3 DEF ClickPrepare, ClickExecute, ModelStarted
  <2> QED
    BY <1>1, <2>1, <2>2, <2>3, BrowserFollows DEF FormInv, SectionForm
<1>4. CASE WalletNotReady \/ Dismiss \/ Remount
  <2>1. /\ request' = request /\ action' = action /\ extras' = extras
        /\ model' \in {model, "READY", ModelAfter("WALLET_NOT_READY")}
        /\ detail' \in {None, Detail("WALLET_NOT_READY")}
    BY <1>4 DEF WalletNotReady, Dismiss, Remount, worldVars
  <2>2. SectionForm'
    BY <2>1, DetailForm DEF FormInv, SectionForm
  <2> QED
    BY <1>1, <1>2, <2>1, <2>2, SameFormed, BrowserFollows
<1>5. CASE TakePrepared
  <2>1. /\ \A t \in Slots : Formed(request'[t], rev')
        /\ action'.rev \in 0..rev /\ action'.step = "refreshing"
    BY <1>1, <1>5, RefreshForms DEF TakePrepared
  <2>2. /\ model' = model /\ extras' = extras
        /\ detail' \in {None, Detail(PageCode("prepare", request["action"].answer.code))}
    BY <1>5 DEF TakePrepared, worldVars
  <2>3. SectionForm'
    BY <2>1, <2>2, DetailForm DEF FormInv, SectionForm
  <2> QED
    BY <1>1, <2>1, <2>3, BrowserFollows
<1>6. CASE TakeEnvelope
  <2>1. CASE request["action"].answer.kind = "ENVELOPE"
    <3>1. /\ request' = [request EXCEPT !["action"] = NoRequest]
          /\ action' = [action EXCEPT !.step = "holding", !.rev = request["action"].answer.rev,
                                      !.envelope = request["action"].answer.tx]
          /\ model' = model /\ detail' = detail /\ extras' = extras
      BY <1>6, <2>1 DEF TakeEnvelope, worldVars
    <3>2. request["action"].answer.rev \in 0..rev
      BY <1>1, <1>6, <2>1 DEF TakeEnvelope, Returned, FormInv, Formed
    <3>3. action'.rev = request["action"].answer.rev /\ action'.step = "holding"
      BY <3>1 DEF PageInv, ActionOK, Action
    <3>4. \A t \in Slots : Formed(request'[t], rev')
      BY <1>1, <3>1, ForgetForms
    <3>5. SectionForm'
      BY <3>1, <3>3 DEF FormInv, SectionForm
    <3> QED
      BY <1>1, <3>2, <3>3, <3>4, <3>5, BrowserFollows
  <2>2. CASE request["action"].answer.kind # "ENVELOPE"
    BY <1>1, <1>6, <2>2, FailsForms DEF TakeEnvelope
  <2> QED
    BY <2>1, <2>2
<1>7. CASE AskWallet \/ WalletAnswers
  <2>1. /\ model' = model /\ detail' = detail /\ extras' = extras
        /\ \/ Report("hash") \/ Report("unknown")
           \/ action' = [action EXCEPT !.step = "sending"] /\ request' = request
    BY <1>7 DEF AskWallet, WalletAnswers
  <2>2. CASE Report("hash") \/ Report("unknown")
    <3>1. /\ \A t \in Slots : Formed(request'[t], rev')
          /\ action'.rev \in 0..rev /\ action'.step = "reporting"
      BY <1>1, <2>2, ReportForms
    <3> QED
      BY <1>1, <2>1, <3>1, BrowserFollows DEF FormInv, SectionForm
  <2>3. CASE action' = [action EXCEPT !.step = "sending"] /\ request' = request
    <3>1. action'.rev = action.rev /\ action'.step = "sending"
      BY <2>3 DEF PageInv, ActionOK, Action
    <3> QED
      BY <1>1, <1>2, <2>1, <2>3, <3>1, SameFormed, BrowserFollows DEF FormInv, SectionForm
  <2> QED
    BY <2>1, <2>2, <2>3
<1>8. CASE TakeReported
  <2>1. /\ detail' = detail /\ extras' = extras
        /\ \/ model' = "HASH_RECORDED" /\ Refresh
           \/ model' = model /\ Report("unknown")
    BY <1>8 DEF TakeReported, worldVars
  <2>2. /\ \A t \in Slots : Formed(request'[t], rev')
        /\ action'.rev \in 0..rev /\ action'.step \in {"refreshing", "reporting"}
    BY <1>1, <2>1, RefreshForms, ReportForms
  <2>3. SectionForm'
    BY <2>1, <2>2 DEF FormInv, SectionForm, LockingStates
  <2> QED
    BY <1>1, <2>2, <2>3, BrowserFollows
<1>9. CASE TakeUnknownReported
  BY <1>1, <1>9, FailsForms DEF TakeUnknownReported
<1>10. CASE GiveUp
  <2>1. PICK q : q = Request(request["action"].route, "answered", request["action"].expects,
                             Failed("LOST"))
    OBVIOUS
  <2>2. request' = [[request EXCEPT !["action"] = q] EXCEPT !["left"] = request["action"]]
    BY <1>1, <1>10, <2>1, AnsweredIs DEF GiveUp
  <2>3. Formed(q, rev')
    BY <1>1, <2>1, RequestHas DEF FormInv, Formed, ServerSteps, Failed
  <2>4. \A t \in Slots : request'[t] \in {q, request["action"], request[t]}
    BY <1>1, <2>2 DEF PageInv
  <2>5. \A t \in Slots : Formed(request'[t], rev')
    BY <1>1, <2>3, <2>4 DEF FormInv
  <2>6. action' = action /\ SectionForm'
    BY <1>10, CountAssumption DEF GiveUp, sectionVars, FormInv, SectionForm
  <2> QED
    BY <1>1, <1>2, <2>5, <2>6, BrowserFollows
<1> QED
  BY <1>3, <1>4, <1>5, <1>6, <1>7, <1>8, <1>9, <1>10 DEF Section

LEMMA FormInvStarts == ASSUME PageInit PROVE FormInv
<1>1. rev = 0 /\ \A s \in Slots : request[s] = NoRequest
  BY DEF PageInit
<1>2. \A s \in Slots : Formed(request[s], rev)
  BY <1>1, NoRequestFormed
<1>3. action.rev = 0 /\ action.step = "idle"
  BY DEF PageInit, NoAction
<1>4. SectionForm
  BY <1>3, CountAssumption DEF PageInit, SectionForm
<1>5. action.rev \in 0..rev
  BY <1>1, <1>3
<1> QED
  BY <1>2, <1>4, <1>5 DEF FormInv

LEMMA FormKept == ASSUME PageInv, FormInv, [PageNext]_pageVars PROVE FormInv'
<1>1. CASE UNCHANGED pageVars
  BY <1>1 DEF pageVars, serverVars, sectionVars, worldVars, FormInv, SectionForm
<1> QED
  BY <1>1, ServerForms, ControllerForms, SectionForms DEF PageNext

THEOREM FormInvariant == PageSpec => []FormInv
<1>1. PageInit => FormInv
  BY FormInvStarts
<1>2. PageInv /\ FormInv /\ [PageNext]_pageVars => FormInv'
  BY FormKept
<1> QED
  BY <1>1, <1>2, PageHonest, PTL DEF PageSpec

\* Every variable of page and server has the form its code gives it; the page holds
\* no revision the row has not had, and what is recorded as prepared is on the
\* chain and from the signer of the run.
THEOREM PageTypeCorrect == PageSpec => []PageTypeOK
<1>1. IInv /\ PageInv /\ SendInv /\ LedgerInv /\ FormInv => PageTypeOK
  <2> SUFFICES ASSUME IInv, PageInv, SendInv, LedgerInv, FormInv PROVE PageTypeOK
    OBVIOUS
  <2>1. TypeOK
    BY DEF IInv
  <2>2. /\ rev \in Nat /\ view.rev \in 0..rev
        /\ ledger \in Ledgers
    BY KnownRevisions DEF FormInv, LedgerInv
  <2>3. tx # None => tx.chain = "SEPOLIA" /\ tx.from = "SIGNER"
    BY DEF SendInv, TxOK, Prepared, Prepares, Usable
  <2>4. request \in [Slots -> [route : {None, "prepare", "execute", "hash", "unknown", "get",
                                       "track", "cancel"},
                               step : ServerSteps, expects : 0..rev,
                               answer : {request[s].answer : s \in Slots}]]
    <3> DEFINE Answers == {request[s].answer : s \in Slots}
    <3>1. \A s \in Slots : request[s].answer \in Answers
      OBVIOUS
    <3> HIDE DEF Answers
    <3>2. ASSUME NEW s \in Slots
          PROVE  request[s] \in
              [route : {None, "prepare", "execute", "hash", "unknown", "get", "track", "cancel"},
               step : ServerSteps, expects : 0..rev, answer : Answers]
      <4>1. request[s] = Request(request[s].route, request[s].step,
                                 request[s].expects, request[s].answer)
        BY DEF PageInv, RequestOK
      <4>2. /\ request[s].step \in ServerSteps /\ request[s].expects \in 0..rev
            /\ request[s].route \in
                   {None, "prepare", "execute", "hash", "unknown", "get", "track", "cancel"}
        BY DEF FormInv, Formed
      <4> QED
        BY <3>1, <4>1, <4>2 DEF Request
    <3>3. request = [s \in Slots |-> request[s]]
      BY DEF PageInv
    <3> QED
      BY <3>2, <3>3 DEF Answers
  <2> QED
    BY <2>1, <2>2, <2>3, <2>4 DEF PageTypeOK, FormInv, SectionForm
<1> QED
  BY <1>1, PageInvariant, PageHonest, SendInvariant, LedgerInvariant, FormInvariant, PTL

=============================================================================
