-------------------------- MODULE RunPageSendProofs ---------------------------
(***************************************************************************)
(* Proofs about RunPage, continued: what a mined transaction that was found*)
(* within the envelope can have cost, and that only a read takes the page  *)
(* back.                                                                   *)
(*                                                                         *)
(* Between the preflight that bounds the cost and the comparison that      *)
(* trusts the bound lie the wallet, a report that may be lost and a click  *)
(* that may be given up.  The bound survives because a released preparation*)
(* never changes again, and its envelope goes to one click only.           *)
(***************************************************************************)
EXTENDS RunPageProofs

-----------------------------------------------------------------------------
(* Which steps touch the preparation, its release, its hash or its check *)

RowQuiet ==
    /\ schema' = schema /\ released'[Op] = released[Op]
    /\ hash'[Op] = hash[Op] /\ rpc'[Op] = rpc[Op]
    /\ stage'[Op] = "PREPARED" => stage[Op] = "PREPARED"

\* The writes of the run that touch none of them.
QuietWrite ==
    \/ BeginPrepare(Op) \/ RecordPrepareUnknown(Op) \/ RecordPrepareInterrupted(Op)
    \/ RecordPrepareFailure(Op) \/ Cancel
    \/ BeginReprepare(Op) \/ RecordReprepareUnknown(Op) \/ RecordReprepareRefused(Op)
    \/ MarkPreparedStale(Op) \/ RecordWalletPrompt(Op) \/ DropPromptAndMarkStale(Op)
    \/ RecordBroadcastUnknown(Op) \/ ReserveTracking(Op)
    \/ SeeReceipt \/ TakeCorrelation \/ TakeStatus \/ ReadBack
    \/ BeginCorrelation(Op) \/ AuthorizeCorrelationRetry(Op) \/ ExhaustCorrelation(Op)

LEMMA QuietWriteIsQuiet == ASSUME IInv, QuietWrite PROVE RowQuiet
<1>1. stage \in [Kinds -> Stages] /\ Op \in Kinds
  BY OpIsKind DEF IInv, TypeOK
<1>2. CASE \/ BeginPrepare(Op) \/ RecordPrepareUnknown(Op) \/ RecordPrepareInterrupted(Op)
           \/ RecordPrepareFailure(Op)
  BY <1>1, <1>2 DEF BeginPrepare, RecordPrepareUnknown, RecordPrepareInterrupted,
     RecordPrepareFailure, PrepareStep, chainVars, logVars, RowQuiet
<1>3. CASE \/ BeginReprepare(Op) \/ RecordReprepareUnknown(Op) \/ RecordReprepareRefused(Op)
           \/ MarkPreparedStale(Op) \/ RecordWalletPrompt(Op) \/ DropPromptAndMarkStale(Op)
           \/ RecordBroadcastUnknown(Op)
  BY <1>1, <1>3 DEF BeginReprepare, RecordReprepareUnknown, RecordReprepareRefused,
     EndReprepare, MarkPreparedStale, RecordWalletPrompt, DropPromptAndMarkStale,
     RecordBroadcastUnknown, WalletStep, RowQuiet
<1>4. CASE Cancel \/ ReserveTracking(Op)
  BY <1>4 DEF Cancel, ReserveTracking, runVars, walletVars, chainVars, logVars, RowQuiet
<1>5. CASE SeeReceipt \/ TakeStatus
  BY <1>5 DEF SeeReceipt, TakeStatus, RecordReceipt, RecordStatus, RecordStatusContradiction,
     EvidenceStep, RowQuiet
<1>6. CASE \/ TakeCorrelation \/ BeginCorrelation(Op) \/ AuthorizeCorrelationRetry(Op)
           \/ ExhaustCorrelation(Op)
  BY <1>1, <1>6 DEF TakeCorrelation, BeginCorrelation, AuthorizeCorrelationRetry,
     ExhaustCorrelation, RecordCorrelationUncertain, RecordCorrelated, RefuseCorrelation,
     CorrelationStep, chainVars, RowQuiet
<1>7. CASE ReadBack
  <2>1. \/ stage' = [stage EXCEPT !["TOKENIZE"] = "READ_BACK_VERIFIED"]
        \/ stage' = stage
    BY <1>7 DEF ReadBack, RecordTokenIdentity, ReadBackStep, RecordReadBackMismatch, walletVars
  <2>2. UNCHANGED <<schema, hash, rpc, released>>
    BY <1>7 DEF ReadBack, RecordTokenIdentity, ReadBackStep, RecordReadBackMismatch,
       chainVars, logVars
  <2> QED
    BY <1>1, <2>1, <2>2 DEF RowQuiet, Op
<1> QED
  BY <1>2, <1>3, <1>4, <1>5, <1>6, <1>7 DEF QuietWrite

LEMMA UnchangedIsQuiet == ASSUME UNCHANGED vars PROVE RowQuiet
BY DEF vars, runVars, walletVars, chainVars, logVars, RowQuiet

\* The steps that do touch them.
Touches ==
    \/ \E s \in Working :
           \/ TakeFirst(s) \/ TakeSecond(s) \/ PromoteRun(s) \/ ReleaseEnvelope(s)
           \/ IngestReport(s)
    \/ Poll /\ SeeTransaction

LEMMA OthersAreQuiet ==
  ASSUME IInv, [PageNext]_pageVars, ~Touches PROVE RowQuiet /\ tx' = tx
<1>1. ASSUME tx' = tx, QuietWrite \/ UNCHANGED vars PROVE RowQuiet /\ tx' = tx
  BY <1>1, QuietWriteIsQuiet, UnchangedIsQuiet
<1>2. ASSUME OnlyAnswers PROVE RowQuiet /\ tx' = tx
  BY <1>2, UnchangedIsQuiet DEF OnlyAnswers, serverVars, runState
<1>3. ASSUME NEW s \in Working, Serve(s) PROVE RowQuiet /\ tx' = tx
  <2>1. CASE AskBrickken(s) \/ AskBrickkenAgain(s)
    BY <1>1, <2>1 DEF AskBrickken, AskBrickkenAgain, QuietWrite
  <2>2. CASE RefuseToPrepare(s)
    BY <1>2, <2>2 DEF RefuseToPrepare
  <2>3. CASE Evaluate(s)
    BY <1>1, <1>2, <2>3 DEF Evaluate, GoOn, StaleAndAnswer, QuietWrite
  <2>4. CASE RecordPrompt(s)
    BY <1>1, <1>2, <2>4 DEF RecordPrompt, StaleAndAnswer, QuietWrite
  <2> QED
    BY <1>3, <2>1, <2>2, <2>3, <2>4 DEF Serve, Touches
<1>4. CASE \/ \E s \in Working \cup {"pull"} : Crash(s)
           \/ \E s \in Slots : Conflict(s) \/ ServeRun(s)
           \/ EndTracking("poll")
  BY <1>1, <1>2, <1>4 DEF Crash, Conflict, ServeRun, EndTracking, serverVars, runState
<1>5. CASE BeginTracking("poll")
  BY <1>1, <1>2, <1>5 DEF BeginTracking, GoOn, QuietWrite
<1>6. CASE CancelRun("manual")
  BY <1>1, <1>2, <1>6 DEF CancelRun, QuietWrite
<1>7. CASE Poll
  BY <1>1, <1>7 DEF Poll, QuietWrite, Touches
<1>8. CASE Controller \/ Section
  BY <1>1, <1>8, BrowserKeepsServer DEF serverVars, runState
<1>9. CASE UNCHANGED pageVars
  BY <1>1, <1>9 DEF pageVars, serverVars, runState
<1> QED
  BY <1>3, <1>4, <1>5, <1>6, <1>7, <1>8, <1>9 DEF PageNext, Server

-----------------------------------------------------------------------------
(* Which steps bring an envelope, or a report of a hash, into the world *)

RequestQuiet ==
    /\ Envelopes' \subseteq Envelopes
    /\ Reporting' => Reporting
    /\ mined' = mined

LEMMA EnvelopesAre ==
  ASSUME NEW t
  PROVE  t \in Envelopes <=>
             \/ /\ request["action"].step = "answered"
                /\ request["action"].answer.kind = "ENVELOPE"
                /\ t = request["action"].answer.tx
             \/ action.step \in {"holding", "sending"} /\ t = action.envelope
BY DEF Envelopes

LEMMA EnvelopesAreNext ==
  ASSUME NEW t
  PROVE  t \in Envelopes' <=>
             \/ /\ request'["action"].step = "answered"
                /\ request'["action"].answer.kind = "ENVELOPE"
                /\ t = request'["action"].answer.tx
             \/ action'.step \in {"holding", "sending"} /\ t = action'.envelope
BY DEF Envelopes

\* The action holds nothing new.
HoldsNothingNew == action' = action \/ action'.step \notin {"holding", "sending"}

LEMMA OneRequestQuiet ==
  ASSUME PageInv, HoldsNothingNew, mined' = mined, NEW s \in Slots, NEW q,
         request' = [request EXCEPT ![s] = q],
         q.route = "hash" /\ q.step # "idle" =>
             request[s].route = "hash" /\ request[s].step # "idle",
         s = "action" => ~(q.step = "answered" /\ q.answer.kind = "ENVELOPE")
  PROVE  RequestQuiet
<1>1. "action" \in Slots
  BY DEF Slots
<1>2. \A t \in Slots : request'[t] = IF t = s THEN q ELSE request[t]
  BY DEF PageInv
<1>3. Reporting' => Reporting
  BY <1>2 DEF Reporting
<1>4. ASSUME NEW t \in Envelopes' PROVE t \in Envelopes
  <2>1. CASE action'.step \in {"holding", "sending"} /\ t = action'.envelope
    BY <2>1, EnvelopesAre DEF HoldsNothingNew
  <2>2. CASE /\ request'["action"].step = "answered"
             /\ request'["action"].answer.kind = "ENVELOPE"
             /\ t = request'["action"].answer.tx
    <3>1. request'["action"] = request["action"]
      BY <1>1, <1>2, <2>2
    <3> QED
      BY <2>2, <3>1, EnvelopesAre
  <2> QED
    BY <1>4, <2>1, <2>2, EnvelopesAreNext
<1> QED
  BY <1>3, <1>4 DEF RequestQuiet

LEMMA SameRequestsQuiet ==
  ASSUME request' = request, HoldsNothingNew, mined' = mined PROVE RequestQuiet
<1>1. \A t \in Envelopes' : t \in Envelopes
  BY EnvelopesAre, EnvelopesAreNext DEF HoldsNothingNew
<1> QED
  BY <1>1 DEF RequestQuiet, Reporting

LEMMA AnswerQuiet ==
  ASSUME PageInv, HoldsNothingNew, mined' = mined, NEW s \in Slots, NEW a,
         request' = Answered(s, a), request[s].step # "idle",
         s = "action" => a.kind # "ENVELOPE"
  PROVE  RequestQuiet
<1>1. PICK q : q = IF s = "left" THEN NoRequest
                   ELSE Request(request[s].route, "answered", request[s].expects, a)
  OBVIOUS
<1>2. request' = [request EXCEPT ![s] = q]
  BY <1>1, AnsweredIs
<1>3. \/ q.step = "idle"
      \/ q.step = "answered" /\ q.route = request[s].route /\ q.answer = a
  BY <1>1 DEF NoRequest, Request
<1> QED
  BY <1>2, <1>3, OneRequestQuiet

LEMMA FailureQuiet ==
  ASSUME PageInv, HoldsNothingNew, mined' = mined, NEW s \in Slots, NEW code,
         Answer(s, Failed(code)), request[s].step # "idle"
  PROVE  RequestQuiet
<1>1. PICK a : a = Failed(code)
  OBVIOUS
<1>2. a.kind # "ENVELOPE" /\ request' = Answered(s, a)
  BY <1>1 DEF Failed, Answer
<1> QED
  BY <1>2, AnswerQuiet

LEMMA ShownQuiet ==
  ASSUME PageInv, HoldsNothingNew, mined' = mined, NEW s \in Slots, NEW row,
         Answer(s, Shown(row)), request[s].step # "idle"
  PROVE  RequestQuiet
<1>1. PICK a : a = Shown(row)
  OBVIOUS
<1>2. a.kind # "ENVELOPE" /\ request' = Answered(s, a)
  BY <1>1 DEF Shown, Failed, Answer
<1> QED
  BY <1>2, AnswerQuiet

LEMMA StepQuiet ==
  ASSUME PageInv, HoldsNothingNew, mined' = mined, NEW s \in Slots, NEW step, NEW e,
         request[s].step # "idle", step # "answered",
         request' = [request EXCEPT ![s] = Request(request[s].route, step, e, request[s].answer)]
  PROVE  RequestQuiet
<1>1. PICK q : q = Request(request[s].route, step, e, request[s].answer)
  OBVIOUS
<1>2. q.route = request[s].route /\ q.step = step
  BY <1>1 DEF Request
<1> QED
  BY <1>1, <1>2, OneRequestQuiet

LEMMA GoOnQuiet ==
  ASSUME PageInv, HoldsNothingNew, mined' = mined, NEW s \in Slots, NEW step,
         request[s].step # "idle", step # "answered",
         \/ request' = [request EXCEPT ![s].step = step]
         \/ request' = [request EXCEPT ![s].step = step, ![s].expects = rev + 1]
  PROVE  RequestQuiet
<1>1. CASE request' = [request EXCEPT ![s].step = step]
  <2>1. request' = [request EXCEPT ![s] =
            Request(request[s].route, step, request[s].expects, request[s].answer)]
    BY <1>1, StepIs
  <2> QED
    BY <2>1, StepQuiet
<1>2. CASE request' = [request EXCEPT ![s].step = step, ![s].expects = rev + 1]
  <2>1. request' = [request EXCEPT ![s] =
            Request(request[s].route, step, rev + 1, request[s].answer)]
    BY <1>2, StepIs
  <2> QED
    BY <2>1, StepQuiet
<1> QED
  BY <1>1, <1>2

LEMMA ForgottenQuiet ==
  ASSUME PageInv, HoldsNothingNew, mined' = mined, NEW s \in Slots,
         request' = [request EXCEPT ![s] = NoRequest]
  PROVE  RequestQuiet
<1>1. PICK q : q = NoRequest
  OBVIOUS
<1>2. q.step = "idle"
  BY <1>1 DEF NoRequest
<1> QED
  BY <1>1, <1>2, OneRequestQuiet

LEMMA SendQuiet ==
  ASSUME PageInv, HoldsNothingNew, mined' = mined, NEW s \in Slots, NEW route, NEW e,
         request' = Send(s, route, e), route # "hash"
  PROVE  RequestQuiet
<1>1. PICK q : q = Request(route, "arrived", e, None)
  OBVIOUS
<1>2. q.route = route /\ q.step = "arrived"
  BY <1>1 DEF Request
<1>3. request' = [request EXCEPT ![s] = q]
  BY <1>1, SendIs
<1> QED
  BY <1>2, <1>3, OneRequestQuiet

\* The steps that bring one.
Sends ==
    \/ \E s \in Working :
           ReleaseEnvelope(s) /\ ReleaseSendAuthority(Op) /\ WriteAndAnswer(s, Envelope)
    \/ WalletAnswers

LEMMA ServeIsQuiet ==
  ASSUME PageInv, NEW s \in Working, Serve(s), ~Sends PROVE RequestQuiet
<1>1. s \in Slots
  BY DEF Working, Slots
<1>2. ASSUME OnlyAnswers \/ Write PROVE HoldsNothingNew /\ mined' = mined
  BY <1>2 DEF OnlyAnswers, Write, sectionVars, worldVars, HoldsNothingNew
<1>3. ASSUME NEW step, step # "answered", WriteAndGoOn(s, step) \/ GoOn(s, step),
             request[s].step # "idle"
      PROVE  RequestQuiet
  BY <1>1, <1>2, <1>3, GoOnQuiet DEF WriteAndGoOn, GoOn
<1>4. ASSUME NEW code, request[s].step # "idle",
             \/ WriteAndAnswer(s, Failed(code))
             \/ Answer(s, Failed(code)) /\ OnlyAnswers
      PROVE  RequestQuiet
  BY <1>1, <1>2, <1>4, FailureQuiet DEF WriteAndAnswer
<1>5. ASSUME NEW row, request[s].step # "idle", WriteAndAnswer(s, Shown(row))
      PROVE  RequestQuiet
  BY <1>1, <1>2, <1>5, ShownQuiet DEF WriteAndAnswer
<1>6. request[s].step # "idle"
  BY DEF Serve, AskBrickken, AskBrickkenAgain, RefuseToPrepare, TakeFirst, TakeSecond,
     PromoteRun, Evaluate, RecordPrompt, ReleaseEnvelope, IngestReport, Begins, At
<1>7. CASE AskBrickken(s) \/ AskBrickkenAgain(s)
  BY <1>3, <1>6, <1>7 DEF AskBrickken, AskBrickkenAgain
<1>8. CASE RefuseToPrepare(s)
  BY <1>4, <1>6, <1>8 DEF RefuseToPrepare
<1>9. CASE TakeFirst(s) \/ TakeSecond(s)
  <2>1. \/ WriteAndAnswer(s, Shown(Row'))
        \/ \E code : WriteAndAnswer(s, Failed(code))
    BY <1>9 DEF TakeFirst, TakeSecond
  <2>2. ASSUME WriteAndAnswer(s, Shown(Row')) PROVE RequestQuiet
    <3>1. PICK row : row = Row'
      OBVIOUS
    <3>2. WriteAndAnswer(s, Shown(row))
      BY <2>2, <3>1
    <3> QED
      BY <1>5, <1>6, <3>2
  <2> QED
    BY <1>4, <1>6, <2>1, <2>2
<1>10. CASE PromoteRun(s)
  BY <1>3, <1>4, <1>6, <1>10 DEF PromoteRun
<1>11. CASE Evaluate(s)
  BY <1>3, <1>4, <1>6, <1>11 DEF Evaluate, StaleAndAnswer
<1>12. CASE RecordPrompt(s)
  BY <1>3, <1>4, <1>6, <1>12 DEF RecordPrompt, StaleAndAnswer
<1>13. CASE ReleaseEnvelope(s)
  BY <1>4, <1>6, <1>13 DEF ReleaseEnvelope, Sends
<1>14. CASE IngestReport(s)
  <2>1. PICK row : row = Row'
    OBVIOUS
  <2>2. WriteAndAnswer(s, Shown(row))
    BY <1>14, <2>1 DEF IngestReport
  <2> QED
    BY <1>5, <1>6, <2>2
<1> QED
  BY <1>7, <1>8, <1>9, <1>10, <1>11, <1>12, <1>13, <1>14 DEF Serve

LEMMA OtherServerStepIsQuiet ==
  ASSUME PageInv,
         \/ \E s \in Working \cup {"pull"} : Crash(s)
         \/ \E s \in Slots : Conflict(s) \/ ServeRun(s)
         \/ BeginTracking("poll") \/ EndTracking("poll") \/ CancelRun("manual") \/ Poll
  PROVE  RequestQuiet
<1>1. Working \cup {"pull", "poll", "manual"} \subseteq Slots
  BY DEF Working, Slots
<1>2. HoldsNothingNew /\ mined' = mined
  BY DEF Crash, Conflict, ServeRun, BeginTracking, EndTracking, CancelRun, Poll, GoOn,
     WriteAndGoOn, WriteAndAnswer, OnlyAnswers, Write, sectionVars, worldVars, HoldsNothingNew
<1>3. CASE \/ \E s \in Working \cup {"pull"} : Crash(s)
           \/ \E s \in Slots : Conflict(s)
  <2>1. PICK s \in Slots : request[s].step # "idle" /\ \E code : Answer(s, Failed(code))
    BY <1>1, <1>3 DEF Crash, Conflict
  <2> QED
    BY <1>2, <2>1, FailureQuiet
<1>4. CASE \E s \in Slots : ServeRun(s)
  BY <1>2, <1>4, ShownQuiet DEF ServeRun
<1>5. CASE BeginTracking("poll")
  BY <1>1, <1>2, <1>5, GoOnQuiet, FailureQuiet DEF BeginTracking, Begins, WriteAndGoOn, GoOn
<1>6. CASE EndTracking("poll")
  BY <1>1, <1>2, <1>6, ShownQuiet, FailureQuiet DEF EndTracking
<1>7. CASE CancelRun("manual")
  <2>1. PICK row : row = Row'
    OBVIOUS
  <2>2. request["manual"].step # "idle"
    BY <1>7 DEF CancelRun, Begins
  <2>3. Answer("manual", Shown(row)) \/ \E code : Answer("manual", Failed(code))
    BY <1>7, <2>1 DEF CancelRun, WriteAndAnswer
  <2> QED
    BY <1>1, <1>2, <2>2, <2>3, ShownQuiet, FailureQuiet
<1>8. CASE Poll
  BY <1>2, <1>8, SameRequestsQuiet DEF Poll
<1> QED
  BY <1>3, <1>4, <1>5, <1>6, <1>7, <1>8

LEMMA ControllerIsQuiet == ASSUME PageInv, Controller PROVE RequestQuiet
<1>1. {"pull", "poll", "manual", "left"} \subseteq Slots
  BY DEF Slots
<1>2. HoldsNothingNew /\ mined' = mined
  BY DEF Controller, TakeRun, AskManually, AskElsewhere, TakeCancellation, PollTimer,
     TakeTracked, sectionVars, worldVars, HoldsNothingNew, NoAction
<1>3. \/ \E s \in {"pull", "poll", "manual"} : request' = [request EXCEPT ![s] = NoRequest]
      \/ \E s \in {"pull", "poll", "manual", "left"} :
             \E route \in {"get", "cancel", "track", "prepare"} : \E e : request' = Send(s, route, e)
  BY DEF Controller, TakeRun, AskManually, AskElsewhere, TakeCancellation, PollTimer,
     TakeTracked
<1> QED
  BY <1>1, <1>2, <1>3, ForgottenQuiet, SendQuiet

LEMMA RefreshIsQuiet == ASSUME PageInv, Refresh, mined' = mined PROVE RequestQuiet
<1>1. "action" \in Slots /\ "pull" \in Slots
  BY DEF Slots
<1>2. PICK q : q = Request("get", "arrived", view.rev, None)
  OBVIOUS
<1>3. request' = [[request EXCEPT !["pull"] = q] EXCEPT !["action"] = NoRequest]
  BY <1>1, <1>2, SendIs DEF Refresh
<1>4. /\ request'["pull"] = q /\ request'["action"] = NoRequest
      /\ \A t \in Slots : t \notin {"action", "pull"} => request'[t] = request[t]
  BY <1>1, <1>3 DEF PageInv
<1>5. q.route = "get" /\ NoRequest.step = "idle"
  BY <1>2 DEF Request, NoRequest
<1>6. Reporting' => Reporting
  BY <1>4, <1>5 DEF Reporting
<1>7. action'.step = "refreshing"
  BY DEF Refresh, NoAction
<1>8. \A t : t \notin Envelopes'
  BY <1>4, <1>5, <1>7, EnvelopesAreNext
<1> QED
  BY <1>6, <1>8 DEF RequestQuiet

LEMMA FailsIsQuiet ==
  ASSUME PageInv, NEW code, Fails(code), mined' = mined PROVE RequestQuiet
<1>1. CASE Refresh
  BY <1>1, RefreshIsQuiet
<1>2. CASE action' = NoAction /\ request' = [request EXCEPT !["action"] = NoRequest]
  <2>1. HoldsNothingNew /\ "action" \in Slots
    BY <1>2 DEF HoldsNothingNew, NoAction, Slots
  <2> QED
    BY <1>2, <2>1, ForgottenQuiet
<1> QED
  BY <1>1, <1>2 DEF Fails

\* The action is a record of the steps the button takes.
LEMMA ActionSteps ==
  ASSUME PageInv, NEW step, action' = [action EXCEPT !.step = step]
  PROVE  action'.step = step /\ action'.envelope = action.envelope /\ action'.rev = action.rev
<1>1. action = Action(action.step, action.rev, action.review, action.envelope)
  BY DEF PageInv, ActionOK
<1> QED
  BY <1>1 DEF Action

LEMMA ReportUnknownIsQuiet ==
  ASSUME PageInv, Report("unknown"), mined' = mined PROVE RequestQuiet
<1>1. action'.step = "reporting"
  BY ActionSteps DEF Report
<1>2. HoldsNothingNew /\ "action" \in Slots
  BY <1>1 DEF HoldsNothingNew, Slots
<1> QED
  BY <1>2, SendQuiet DEF Report

LEMMA TakeEnvelopeIsQuiet == ASSUME PageInv, TakeEnvelope PROVE RequestQuiet
<1>1. mined' = mined /\ Returned("action") /\ "action" \in Slots
  BY DEF TakeEnvelope, worldVars, Slots
<1>2. CASE request["action"].answer.kind = "ENVELOPE"
  <2> DEFINE a == request["action"].answer
  <2>1. /\ action' = [action EXCEPT !.step = "holding", !.rev = a.rev, !.envelope = a.tx]
        /\ request' = [request EXCEPT !["action"] = NoRequest]
    BY <1>2 DEF TakeEnvelope
  <2>2. action'.envelope = a.tx
    <3>1. action = Action(action.step, action.rev, action.review, action.envelope)
      BY DEF PageInv, ActionOK
    <3> HIDE DEF a
    <3> QED
      BY <2>1, <3>1 DEF Action
  <2>3. \A t \in Slots : request'[t] = IF t = "action" THEN NoRequest ELSE request[t]
    BY <1>1, <2>1 DEF PageInv
  <2>4. Reporting' => Reporting
    BY <2>3 DEF Reporting, NoRequest
  <2>5. request'["action"].step = "idle"
    BY <1>1, <2>3 DEF NoRequest
  <2>6. ASSUME NEW t \in Envelopes' PROVE t \in Envelopes
    <3>1. t = a.tx
      BY <2>2, <2>5, <2>6, EnvelopesAreNext
    <3> QED
      BY <1>1, <1>2, <3>1, EnvelopesAre DEF Returned
  <2> QED
    BY <1>1, <2>4, <2>6 DEF RequestQuiet
<1>3. CASE request["action"].answer.kind # "ENVELOPE"
  BY <1>1, <1>3, FailsIsQuiet DEF TakeEnvelope
<1> QED
  BY <1>2, <1>3

LEMMA AskWalletIsQuiet == ASSUME PageInv, AskWallet PROVE RequestQuiet
<1>1. mined' = mined /\ action.step = "holding"
  BY DEF AskWallet
<1>2. CASE Report("unknown")
  BY <1>1, <1>2, ReportUnknownIsQuiet
<1>3. CASE action' = [action EXCEPT !.step = "sending"] /\ request' = request
  <2>1. action'.envelope = action.envelope
    BY <1>3, ActionSteps
  <2>2. \A t \in Envelopes' : t \in Envelopes
    BY <1>1, <1>3, <2>1, EnvelopesAre, EnvelopesAreNext
  <2> QED
    BY <1>1, <1>3, <2>2 DEF RequestQuiet, Reporting
<1> QED
  BY <1>2, <1>3 DEF AskWallet

\* What is given up is still on its way.
LEMMA GiveUpIsQuiet == ASSUME PageInv, GiveUp PROVE RequestQuiet
<1>1. /\ mined' = mined /\ action' = action /\ "action" \in Slots /\ "left" \in Slots
      /\ request["action"].step # "idle"
  BY DEF GiveUp, sectionVars, Slots
<1>2. PICK a : a = Failed("LOST")
  OBVIOUS
<1>3. PICK q : q = Request(request["action"].route, "answered", request["action"].expects, a)
  OBVIOUS
<1>4. PICK l : l = request["action"]
  OBVIOUS
<1>5. request' = [[request EXCEPT !["action"] = q] EXCEPT !["left"] = l]
  <2>1. Answered("action", a) = [request EXCEPT !["action"] = q]
    BY <1>1, <1>3, AnsweredIs
  <2>2. request' = [Answered("action", a) EXCEPT !["left"] = l]
    BY <1>2, <1>4 DEF GiveUp
  <2> QED
    BY <2>1, <2>2
<1>6. /\ request'["action"] = q /\ request'["left"] = l
      /\ \A t \in Slots : t \notin {"action", "left"} => request'[t] = request[t]
  BY <1>1, <1>5 DEF PageInv
<1>7. q.route = request["action"].route /\ q.answer.kind = "ERROR"
  BY <1>2, <1>3 DEF Request, Failed
<1>8. Reporting' => Reporting
  BY <1>1, <1>4, <1>6, <1>7 DEF Reporting
<1>9. \A t \in Envelopes' : t \in Envelopes
  BY <1>1, <1>6, <1>7, EnvelopesAre, EnvelopesAreNext
<1> QED
  BY <1>1, <1>8, <1>9 DEF RequestQuiet

LEMMA SectionIsQuiet ==
  ASSUME PageInv, Section, ~WalletAnswers PROVE RequestQuiet
<1>1. CASE ClickPrepare \/ ClickExecute
  <2>1. mined' = mined /\ action'.step = "asking"
    BY <1>1 DEF ClickPrepare, ClickExecute, NoAction
  <2>2. HoldsNothingNew /\ "action" \in Slots
    BY <2>1 DEF HoldsNothingNew, Slots
  <2> QED
    BY <1>1, <2>1, <2>2, SendQuiet DEF ClickPrepare, ClickExecute
<1>2. CASE WalletNotReady \/ Dismiss \/ Remount
  BY <1>2, SameRequestsQuiet DEF WalletNotReady, Dismiss, Remount, worldVars, HoldsNothingNew
<1>3. CASE TakePrepared
  BY <1>3, RefreshIsQuiet DEF TakePrepared, worldVars
<1>4. CASE TakeReported
  BY <1>4, RefreshIsQuiet, ReportUnknownIsQuiet DEF TakeReported, worldVars
<1>5. CASE TakeUnknownReported
  BY <1>5, FailsIsQuiet DEF TakeUnknownReported, worldVars
<1> QED
  BY <1>1, <1>2, <1>3, <1>4, <1>5, TakeEnvelopeIsQuiet, AskWalletIsQuiet, GiveUpIsQuiet
  DEF Section

LEMMA OthersSendNothing ==
  ASSUME PageInv, [PageNext]_pageVars, ~Sends PROVE RequestQuiet
<1>1. CASE Server
  BY <1>1, ServeIsQuiet, OtherServerStepIsQuiet DEF Server
<1>2. CASE Controller
  BY <1>2, ControllerIsQuiet
<1>3. CASE Section
  BY <1>3, SectionIsQuiet DEF Sends
<1>4. CASE UNCHANGED pageVars
  BY <1>4, SameRequestsQuiet DEF pageVars, sectionVars, worldVars, HoldsNothingNew
<1> QED
  BY <1>1, <1>2, <1>3, <1>4 DEF PageNext

-----------------------------------------------------------------------------
(* The preparation *)

\* What the invariant of a run says of an operation and its release.
LEMMA ReleaseFacts ==
  ASSUME IInv
  PROVE  /\ released \in [Kinds -> Nat] /\ hash \in [Kinds -> Hashes \cup {None}]
         /\ stage \in [Kinds -> Stages] /\ Op \in Kinds
         /\ schema = "2.0" => released[Op] = 0
         /\ stage[Op] \in PreparationStages => released[Op] = 0
         /\ PromptUnspent(Op) => released[Op] = 0
         /\ hash[Op] # None => released[Op] = 1
         /\ rpc[Op] # "NONE" => hash[Op] # None
         /\ stage[Op] = "BROADCAST_HASH_PERSISTED" => hash[Op] # None
<1>1. /\ TypeOK /\ SchemaShape /\ Op \in Kinds
      /\ WalletShape(Op) /\ ChainShape(Op)
  BY OpIsKind DEF IInv
<1>2. schema = "2.0" => released[Op] = 0
  BY <1>1 DEF SchemaShape
<1>3. PromptUnspent(Op) => released[Op] = 0
  BY <1>1 DEF PromptUnspent, WalletShape, PromptStages
<1>4. hash[Op] # None => released[Op] = 1
  BY <1>1 DEF WalletShape, ChainShape, PromptStages
<1>5. rpc[Op] # "NONE" => hash[Op] # None
  BY <1>1 DEF ChainShape, ReceiptStages, ReleasedStages
<1>6. stage[Op] = "BROADCAST_HASH_PERSISTED" => hash[Op] # None
  BY <1>1 DEF ChainShape, ReleasedStages
<1>7. stage[Op] \in PreparationStages => released[Op] = 0
  BY <1>1 DEF WalletShape
<1> QED
  BY <1>1, <1>2, <1>3, <1>4, <1>5, <1>6, <1>7 DEF TypeOK

\* Brickken prepares only what is among its preparations, and nothing after the
\* release.
LEMMA TxKept ==
  ASSUME IInv, TxOK, [PageNext]_pageVars
  PROVE  TxOK' /\ (released[Op] # 0 => tx' = tx)
<1>1. CASE ~Touches
  BY <1>1, OthersAreQuiet DEF TxOK, RowQuiet, Mandate
<1>2. ASSUME NEW s \in Working, TakeFirst(s)
      PROVE  TxOK' /\ (released[Op] # 0 => tx' = tx)
  <2>1. PICK a \in AnswersNow :
            \/ Prepares(a) /\ RecordPrepared(Op) /\ tx' = a.body
            \/ /\ tx' = tx
               /\ \/ RecordPrepareFailure(Op) \/ RecordPrepareInterrupted(Op)
                  \/ RecordPrepareUnknown(Op)
    BY <1>2 DEF TakeFirst
  <2>2. schema = "2.0" /\ schema' = "2.0" /\ released'[Op] = released[Op]
    BY <2>1 DEF RecordPrepared, RecordPrepareFailure, RecordPrepareInterrupted,
       RecordPrepareUnknown, PrepareStep, logVars
  <2>3. released[Op] = 0
    BY <2>2, ReleaseFacts
  <2>4. CASE Prepares(a) /\ RecordPrepared(Op) /\ tx' = a.body
    <3>1. tx' \in Prepared
      BY <2>4 DEF AnswersNow, Prepared
    <3> QED
      BY <2>2, <2>3, <3>1 DEF TxOK
  <2>5. CASE /\ tx' = tx
             /\ \/ RecordPrepareFailure(Op) \/ RecordPrepareInterrupted(Op)
                \/ RecordPrepareUnknown(Op)
    <3>1. stage'[Op] # "PREPARED"
      BY <2>5, ReleaseFacts DEF RecordPrepareFailure, RecordPrepareInterrupted,
         RecordPrepareUnknown, PrepareStep
    <3> QED
      BY <2>2, <2>3, <2>5, <3>1 DEF TxOK
  <2> QED
    BY <2>1, <2>4, <2>5
<1>3. ASSUME NEW s \in Working, TakeSecond(s)
      PROVE  TxOK' /\ (released[Op] # 0 => tx' = tx)
  <2>1. PICK a \in AnswersNow :
            \/ Prepares(a) /\ Attemptable(a.body) /\ RecordReprepared(Op) /\ tx' = a.body
            \/ tx' = tx /\ (RecordReprepareUnknown(Op) \/ RecordReprepareRefused(Op))
    BY <1>3 DEF TakeSecond
  <2>2. /\ stage[Op] = "REPREPARE_INTENT" /\ released'[Op] = released[Op]
        /\ schema' = schema
    BY <2>1 DEF RecordReprepared, RecordReprepareUnknown, RecordReprepareRefused,
       EndReprepare, WalletStep
  <2>3. released[Op] = 0
    BY <2>2, ReleaseFacts DEF PreparationStages
  <2>4. CASE Prepares(a) /\ Attemptable(a.body) /\ tx' = a.body
    <3>1. tx' \in Prepared /\ Attemptable(tx')
      BY <2>4 DEF AnswersNow, Prepared
    <3> QED
      BY <2>2, <2>3, <3>1 DEF TxOK
  <2>5. CASE tx' = tx /\ (RecordReprepareUnknown(Op) \/ RecordReprepareRefused(Op))
    <3>1. stage'[Op] # "PREPARED"
      BY <2>5, ReleaseFacts DEF RecordReprepareUnknown, RecordReprepareRefused,
         EndReprepare, WalletStep
    <3> QED
      BY <2>2, <2>3, <2>5, <3>1 DEF TxOK
  <2> QED
    BY <2>1, <2>4, <2>5
<1>4. ASSUME NEW s \in Working, PromoteRun(s)
      PROVE  TxOK' /\ (released[Op] # 0 => tx' = tx)
  <2>1. CASE OnlyAnswers
    BY <2>1 DEF OnlyAnswers, serverVars, runState, vars, runVars, walletVars, logVars,
       TxOK, Mandate
  <2>2. CASE Attemptable(tx) /\ Promote(Op)
    <3>1. stage[Op] = "PREPARED" /\ tx' = tx /\ released' = released /\ stage' = stage
      BY <1>4, <2>2 DEF PromoteRun, Promote, logVars
    <3> QED
      BY <2>2, <3>1 DEF TxOK, Mandate
  <2> QED
    BY <1>4, <2>1, <2>2 DEF PromoteRun
<1>5. ASSUME NEW s \in Working, ReleaseEnvelope(s)
      PROVE  TxOK' /\ (released[Op] # 0 => tx' = tx)
  <2>1. tx' = tx
    BY <1>5 DEF ReleaseEnvelope
  <2>2. CASE OnlyAnswers
    BY <2>2 DEF OnlyAnswers, serverVars, runState, vars, runVars, walletVars, logVars,
       TxOK, Mandate
  <2>3. CASE DropPromptAndMarkStale(Op)
    BY <2>1, <2>3, QuietWriteIsQuiet DEF QuietWrite, TxOK, RowQuiet, Mandate
  <2>4. CASE ReleaseSendAuthority(Op) /\ \E p \in PreflightsOf(tx) : p.reason = "AUTHORIZED"
    <3>1. Mandate(tx)
      BY <2>4, AuthorizedIsMandate DEF PreflightsOf
    <3>2. schema' = schema /\ stage'[Op] # "PREPARED"
      BY <2>4, ReleaseFacts DEF ReleaseSendAuthority, WalletStep
    <3> QED
      BY <2>1, <3>1, <3>2 DEF TxOK, Mandate
  <2> QED
    BY <1>5, <2>2, <2>3, <2>4 DEF ReleaseEnvelope
<1>6. ASSUME \/ \E s \in Working : IngestReport(s)
             \/ Poll /\ SeeTransaction
      PROVE  TxOK' /\ (released[Op] # 0 => tx' = tx)
  <2>1. /\ tx' = tx /\ schema' = schema /\ released' = released
        /\ stage'[Op] # "PREPARED"
    BY <1>6, ReleaseFacts DEF IngestReport, RecordBroadcastHash, RecordBroadcastUnknown,
       WalletStep, Poll, SeeTransaction, VerifyTransaction, EvidenceStep
  <2> QED
    BY <2>1 DEF TxOK, Mandate
<1> QED
  BY <1>1, <1>2, <1>3, <1>4, <1>5, <1>6 DEF Touches

-----------------------------------------------------------------------------
(* The envelope, what the wallet made of it, and the hash *)

LEMMA ReleasedOnce ==
  ASSUME IInv, [PageNext]_pageVars
  PROVE  \/ released'[Op] = released[Op]
         \/ /\ released[Op] = 0 /\ released'[Op] = 1
            /\ \E s \in Working :
                   ReleaseEnvelope(s) /\ ReleaseSendAuthority(Op) /\ WriteAndAnswer(s, Envelope)
<1>1. CASE ~Touches
  BY <1>1, OthersAreQuiet DEF RowQuiet
<1>2. ASSUME NEW s \in Working, ReleaseEnvelope(s), ReleaseSendAuthority(Op),
             WriteAndAnswer(s, Envelope)
      PROVE  released[Op] = 0 /\ released'[Op] = 1
  BY <1>2, ReleaseFacts DEF ReleaseSendAuthority
<1>3. ASSUME NEW s \in Working, ReleaseEnvelope(s), DropPromptAndMarkStale(Op) \/ OnlyAnswers
      PROVE  released'[Op] = released[Op]
  BY <1>3 DEF DropPromptAndMarkStale, OnlyAnswers, serverVars, runState, vars, logVars
<1>4. ASSUME NEW s \in Working,
             TakeFirst(s) \/ TakeSecond(s) \/ PromoteRun(s) \/ IngestReport(s)
      PROVE  released' = released
  BY <1>4 DEF TakeFirst, RecordPrepared, RecordPrepareFailure, RecordPrepareInterrupted,
     RecordPrepareUnknown, PrepareStep, TakeSecond, RecordReprepared, RecordReprepareUnknown,
     RecordReprepareRefused, EndReprepare, PromoteRun, Promote, OnlyAnswers, serverVars,
     runState, vars, logVars, IngestReport, RecordBroadcastHash, RecordBroadcastUnknown
<1>5. ASSUME Poll, SeeTransaction PROVE released' = released
  BY <1>5 DEF SeeTransaction, VerifyTransaction, EvidenceStep
<1> QED
  BY <1>1, <1>2, <1>3, <1>4, <1>5 DEF Touches, ReleaseEnvelope

LEMMA HashIsReported ==
  ASSUME IInv, [PageNext]_pageVars PROVE hash'[Op] = hash[Op] \/ Reporting
<1>1. CASE ~Touches
  BY <1>1, OthersAreQuiet DEF RowQuiet
<1>2. ASSUME NEW s \in Working,
             TakeFirst(s) \/ TakeSecond(s) \/ PromoteRun(s) \/ ReleaseEnvelope(s)
      PROVE  hash' = hash
  BY <1>2 DEF TakeFirst, RecordPrepared, RecordPrepareFailure, RecordPrepareInterrupted,
     RecordPrepareUnknown, PrepareStep, TakeSecond, RecordReprepared, RecordReprepareUnknown,
     RecordReprepareRefused, EndReprepare, PromoteRun, Promote, ReleaseEnvelope,
     ReleaseSendAuthority, DropPromptAndMarkStale, OnlyAnswers, serverVars,
     runState, vars, chainVars
<1>3. ASSUME NEW s \in Working, IngestReport(s) PROVE hash' = hash \/ Reporting
  BY <1>3 DEF IngestReport, RecordBroadcastUnknown, Begins, Reporting, Working, Slots
<1>4. ASSUME Poll, SeeTransaction PROVE hash' = hash
  BY <1>4 DEF SeeTransaction, VerifyTransaction, EvidenceStep
<1> QED
  BY <1>1, <1>2, <1>3, <1>4 DEF Touches

LEMMA EnvelopeMade ==
  ASSUME PageInv, NEW s \in Working, ReleaseEnvelope(s), WriteAndAnswer(s, Envelope)
  PROVE  /\ mined' = mined /\ (Reporting' => Reporting)
         /\ \A t \in Envelopes' : t \in Envelopes \/ t = tx
<1>1. s \in Slots /\ "action" \in Slots /\ request[s].step # "idle"
  BY DEF Working, Slots, ReleaseEnvelope, At
<1>2. mined' = mined /\ action' = action
  BY DEF WriteAndAnswer, Write, sectionVars, worldVars
<1>3. PICK a : a = Envelope
  OBVIOUS
<1>4. a.tx = tx /\ request' = Answered(s, a)
  BY <1>3 DEF Envelope, WriteAndAnswer, Answer
<1>5. PICK q : q = IF s = "left" THEN NoRequest
                   ELSE Request(request[s].route, "answered", request[s].expects, a)
  OBVIOUS
<1>6. \A t \in Slots : request'[t] = IF t = s THEN q ELSE request[t]
  BY <1>1, <1>4, <1>5, AnsweredIs DEF PageInv
<1>7. \/ q.step = "idle"
      \/ q.route = request[s].route /\ q.answer = a
  BY <1>5 DEF NoRequest, Request
<1>8. Reporting' => Reporting
  BY <1>1, <1>6, <1>7 DEF Reporting
<1>9. ASSUME NEW t \in Envelopes' PROVE t \in Envelopes \/ t = tx
  BY <1>1, <1>2, <1>4, <1>6, <1>7, <1>9, EnvelopesAre, EnvelopesAreNext
<1> QED
  BY <1>2, <1>8, <1>9

LEMMA EnvelopeKept ==
  ASSUME IInv, PageInv, SendInv, [PageNext]_pageVars PROVE EnvelopeOK' /\ MinedOK'
<1>1. TxOK /\ EnvelopeOK /\ MinedOK
  BY DEF SendInv
<1>2. released[Op] # 0 => tx' = tx
  BY <1>1, TxKept
<1>3. CASE ~Sends
  <2>1. RequestQuiet
    BY <1>3, OthersSendNothing
  <2>2. released'[Op] = released[Op]
    BY <1>3, ReleasedOnce DEF Sends
  <2>3. hash'[Op] = hash[Op] \/ Reporting
    BY HashIsReported
  <2>4. EnvelopeOK'
    <3>1. ASSUME NEW t \in Envelopes'
          PROVE  t = tx' /\ released'[Op] = 1 /\ hash'[Op] = None /\ mined' = None
      <4>1. t = tx /\ released[Op] = 1 /\ hash[Op] = None /\ mined = None
        BY <1>1, <2>1 DEF EnvelopeOK, RequestQuiet
      <4> QED
        BY <1>1, <1>2, <2>1, <2>2, <2>3, <4>1 DEF MinedOK, RequestQuiet
    <3> QED
      BY <3>1 DEF EnvelopeOK
  <2>5. MinedOK'
    <3>1. mined' = mined /\ (Reporting' => Reporting)
      BY <2>1 DEF RequestQuiet
    <3>2. mined # None => released'[Op] = 1 /\ mined \in WalletMaySend(tx')
      BY <1>1, <1>2, <2>2 DEF MinedOK
    <3> QED
      BY <1>1, <2>3, <3>1, <3>2 DEF MinedOK
  <2> QED
    BY <2>4, <2>5
<1>4. ASSUME NEW s \in Working, ReleaseEnvelope(s), ReleaseSendAuthority(Op),
             WriteAndAnswer(s, Envelope)
      PROVE  EnvelopeOK' /\ MinedOK'
  <2>1. /\ mined' = mined /\ (Reporting' => Reporting) /\ tx' = tx
        /\ \A t \in Envelopes' : t \in Envelopes \/ t = tx
    BY <1>4, EnvelopeMade DEF ReleaseEnvelope
  <2>2. /\ released[Op] = 0 /\ released'[Op] = 1 /\ hash[Op] = None /\ hash' = hash
    BY <1>4, ReleaseFacts DEF ReleaseSendAuthority
  <2>3. Envelopes = {} /\ mined = None /\ ~Reporting
    BY <1>1, <2>2 DEF EnvelopeOK, MinedOK
  <2> QED
    BY <2>1, <2>2, <2>3 DEF EnvelopeOK, MinedOK
<1>5. CASE WalletAnswers
  <2>1. /\ tx' = tx /\ released' = released /\ hash' = hash /\ action.step = "sending"
    BY <1>5 DEF WalletAnswers, serverVars, runState, vars, chainVars, logVars
  <2>2. action.envelope \in Envelopes
    BY <2>1, EnvelopesAre
  <2>3. action.envelope = tx /\ released[Op] = 1 /\ hash[Op] = None /\ mined = None
    BY <1>1, <2>2 DEF EnvelopeOK
  <2>4. \E route : Report(route)
    BY <1>5 DEF WalletAnswers
  <2>5. action'.step = "reporting" /\ request'["action"].step = "arrived"
    <3>1. PICK route : Report(route)
      BY <2>4
    <3>2. action'.step = "reporting"
      BY <3>1, ActionSteps DEF Report
    <3>3. PICK q : q = Request(route, "arrived", action.rev, None)
      OBVIOUS
    <3>4. request' = [request EXCEPT !["action"] = q] /\ "action" \in Slots
      BY <3>1, <3>3, SendIs DEF Report, Slots
    <3>5. request'["action"] = q
      BY <3>4 DEF PageInv
    <3> QED
      BY <3>2, <3>3, <3>5 DEF Request
  <2>6. EnvelopeOK'
    BY <2>5, EnvelopesAreNext DEF EnvelopeOK
  <2>7. schema # "2.0" => schema = "4.0"
    BY DEF IInv, TypeOK
  <2>8. tx \in Prepared
    BY <1>1, <2>3, <2>7, ReleaseFacts DEF TxOK
  <2>9. CASE \E t \in WalletMaySend(action.envelope) : mined' = t
    <3>1. mined' \in WalletMaySend(tx) /\ mined' # None
      BY <2>3, <2>8, <2>9, AmountAssumption
    <3> QED
      BY <2>1, <2>3, <2>6, <3>1 DEF MinedOK
  <2>10. CASE mined' = mined /\ Report("unknown")
    <3>1. Reporting' => Reporting
      BY <2>10, ReportUnknownIsQuiet DEF RequestQuiet
    <3> QED
      BY <1>1, <2>1, <2>3, <2>6, <2>10, <3>1 DEF MinedOK
  <2> QED
    BY <1>5, <2>9, <2>10 DEF WalletAnswers
<1> QED
  BY <1>3, <1>4, <1>5 DEF Sends

-----------------------------------------------------------------------------
(* The cost *)

LEMMA CeilBpsIsAmount ==
  ASSUME NEW v \in Nat, NEW bps \in Nat PROVE CeilBps(v, bps) \in Int
<1>1. v * bps \in Int
  OBVIOUS
<1> QED
  BY <1>1 DEF CeilBps

LEMMA NetworkIsAmount ==
  ASSUME NEW t, t.gas \in Nat, t.maxFee \in Nat PROVE Caps(t).network \in Int
<1>1. {GasCeiling, FeeFloor, FeeCeiling} \subseteq Int
  BY PolicyAssumption
<1>2. CeilBps(t.gas, 15000) \in Int /\ CeilBps(t.maxFee, 30000) \in Int
  BY CeilBpsIsAmount
<1> DEFINE gas == Least(CeilBps(t.gas, 15000), GasCeiling)
           fee == Least(Greatest(CeilBps(t.maxFee, 30000), FeeFloor), FeeCeiling)
<1>3. gas \in Int /\ fee \in Int
  BY <1>1, <1>2 DEF Least, Greatest
<1>4. Caps(t).network = gas * fee
  BY DEF Caps
<1> HIDE DEF gas, fee
<1> QED
  BY <1>3, <1>4

\* A transaction that is found within the envelope of a preparation that can be
\* sent costs at most what the policy allows.
LEMMA ComparedIsBounded ==
  ASSUME NEW t \in Prepared, Attemptable(t), NEW m \in WalletMaySend(t), NEW baseFee,
         Compare(t, m, baseFee) = "WITHIN_ENVELOPE"
  PROVE  Identity(m) = Identity(t) /\ m.gas * Price(m) <= NetworkCeiling
<1>1. Identity(m) = Identity(t) /\ FeeCompliant(Caps(t), m, baseFee)
  BY DEF Compare
<1>2. Price(m) # None /\ m.gas * Price(m) <= Caps(t).network
  BY <1>1 DEF FeeCompliant
<1>3. m.gas \in Nat /\ Price(m) \in Nat /\ Caps(t).network \in Int
  BY <1>2, AmountAssumption, NetworkIsAmount
<1>4. Caps(t).network <= NetworkCeiling /\ NetworkCeiling \in Int
  BY PolicyAssumption DEF Attemptable, CapsAdmit
<1>5. m.gas * Price(m) \in Int
  BY <1>3
<1> QED
  BY <1>1, <1>2, <1>3, <1>4, <1>5

LEMMA IdentityHas ==
  ASSUME NEW m, NEW t, Identity(m) = Identity(t) PROVE m.call = t.call /\ m.to = t.to
<1>1. Identity(m).call = m.call /\ Identity(t).call = t.call
      /\ Identity(m).to = m.to /\ Identity(t).to = t.to
  BY DEF Identity
<1> QED
  BY <1>1

LEMMA CheckIsOfHash ==
  ASSUME IInv, [PageNext]_pageVars
  PROVE  rpc'[Op] = rpc[Op] \/ (Poll /\ SeeTransaction)
<1>1. CASE ~Touches
  BY <1>1, OthersAreQuiet DEF RowQuiet
<1>2. ASSUME NEW s \in Working,
             \/ TakeFirst(s) \/ TakeSecond(s) \/ PromoteRun(s) \/ ReleaseEnvelope(s)
             \/ IngestReport(s)
      PROVE  rpc' = rpc
  BY <1>2 DEF TakeFirst, RecordPrepared, RecordPrepareFailure, RecordPrepareInterrupted,
     RecordPrepareUnknown, PrepareStep, TakeSecond, RecordReprepared, RecordReprepareUnknown,
     RecordReprepareRefused, EndReprepare, PromoteRun, Promote, ReleaseEnvelope,
     ReleaseSendAuthority, DropPromptAndMarkStale, IngestReport, RecordBroadcastHash,
     RecordBroadcastUnknown, WalletStep, OnlyAnswers, serverVars, runState, vars, chainVars
<1> QED
  BY <1>1, <1>2 DEF Touches

\* Once there is a hash, what was sent and what was prepared stay what they are.
LEMMA HashFixes ==
  ASSUME IInv, PageInv, SendInv, [PageNext]_pageVars, hash[Op] # None
  PROVE  tx' = tx /\ mined' = mined
<1>1. released[Op] = 1 /\ Envelopes = {}
  BY ReleaseFacts DEF SendInv, EnvelopeOK
<1>2. tx' = tx
  BY <1>1, TxKept DEF SendInv
<1>3. ~WalletAnswers
  BY <1>1, EnvelopesAre DEF WalletAnswers
<1>4. CASE Sends
  BY <1>2, <1>3, <1>4, EnvelopeMade DEF Sends
<1>5. CASE ~Sends
  BY <1>2, <1>5, OthersSendNothing DEF RequestQuiet
<1> QED
  BY <1>4, <1>5

LEMMA BoundKept ==
  ASSUME IInv, PageInv, SendInv, [PageNext]_pageVars PROVE WithinMeansBounded'
<1>1. CASE rpc'[Op] = rpc[Op]
  <2>1. ASSUME rpc[Op] = "WITHIN_ENVELOPE" PROVE tx' = tx /\ mined' = mined
    BY <2>1, HashFixes, ReleaseFacts
  <2>2. WithinMeansBounded
    BY DEF SendInv
  <2>3. ASSUME rpc'[Op] = "WITHIN_ENVELOPE"
        PROVE  /\ mined' # None /\ Identity(mined') = Identity(tx')
               /\ mined'.call = "MANDATE" /\ mined'.to = "FACTORY"
               /\ mined'.gas * Price(mined') <= NetworkCeiling
    <3>1. rpc[Op] = "WITHIN_ENVELOPE" /\ tx' = tx /\ mined' = mined
      BY <1>1, <2>1, <2>3
    <3> QED
      BY <2>2, <3>1 DEF WithinMeansBounded
  <2> QED
    BY <2>3 DEF WithinMeansBounded, Identity, Price
<1>2. CASE Poll /\ SeeTransaction
  <2>1. PICK b \in BaseFees : VerifyTransaction(Op, Compare(tx, mined, b))
    BY <1>2 DEF SeeTransaction
  <2>2. stage[Op] = "BROADCAST_HASH_PERSISTED" /\ rpc'[Op] = Compare(tx, mined, b)
    <3>1. rpc \in [Kinds -> Comparisons] /\ Op \in Kinds
      BY OpIsKind DEF IInv, TypeOK
    <3> QED
      BY <2>1, <3>1 DEF VerifyTransaction
  <2>3. hash[Op] # None /\ released[Op] = 1
    BY <2>2, ReleaseFacts
  <2>4. mined # None /\ mined \in WalletMaySend(tx) /\ Mandate(tx)
    BY <2>3 DEF SendInv, MinedOK, TxOK
  <2>5. tx \in Prepared /\ Attemptable(tx)
    <3>1. schema \in {"2.0", "4.0"}
      BY DEF IInv, TypeOK
    <3> QED
      BY <2>3, <3>1, ReleaseFacts DEF SendInv, TxOK
  <2>6. tx' = tx /\ mined' = mined
    BY <2>3, HashFixes
  <2>7. ASSUME rpc'[Op] = "WITHIN_ENVELOPE"
        PROVE  /\ mined' # None /\ Identity(mined') = Identity(tx')
               /\ mined'.call = "MANDATE" /\ mined'.to = "FACTORY"
               /\ mined'.gas * Price(mined') <= NetworkCeiling
    <3>1. Identity(mined) = Identity(tx) /\ mined.gas * Price(mined) <= NetworkCeiling
      BY <2>2, <2>4, <2>5, <2>7, ComparedIsBounded
    <3>2. mined.call = "MANDATE" /\ mined.to = "FACTORY"
      BY <2>4, <3>1, IdentityHas DEF Mandate
    <3> QED
      BY <2>4, <2>6, <3>1, <3>2
  <2> QED
    BY <2>7 DEF WithinMeansBounded, Identity, Price
<1> QED
  BY <1>1, <1>2, CheckIsOfHash

LEMMA SendInvStarts == ASSUME PageInit PROVE SendInv
<1>1. /\ tx = None /\ mined = None /\ action = NoAction /\ schema = "2.0"
      /\ request = [s \in Slots |-> NoRequest]
      /\ stage[Op] = "NOT_STARTED" /\ released[Op] = 0 /\ hash[Op] = None /\ rpc[Op] = "NONE"
  BY OpIsKind DEF PageInit
<1>2. Envelopes = {} /\ ~Reporting
  <2>1. "action" \in Slots /\ NoRequest.step = "idle" /\ action.step = "idle"
    BY <1>1 DEF Slots, NoRequest, NoAction
  <2>2. \A t : t \notin Envelopes
    BY <1>1, <2>1, EnvelopesAre
  <2> QED
    BY <1>1, <2>1, <2>2 DEF Reporting
<1> QED
  BY <1>1, <1>2 DEF SendInv, TxOK, EnvelopeOK, MinedOK, WithinMeansBounded

\* Behind the page, what was compared is what was sent, of what is still the
\* preparation.
THEOREM SendInvariant == PageSpec => []SendInv
<1>1. PageInit => SendInv
  BY SendInvStarts
<1>2. IInv /\ PageInv /\ SendInv /\ [PageNext]_pageVars => SendInv'
  <2>1. SUFFICES ASSUME IInv, PageInv, SendInv, [PageNext]_pageVars PROVE SendInv'
    OBVIOUS
  <2>2. TxOK'
    BY <2>1, TxKept DEF SendInv
  <2> QED
    BY <2>1, <2>2, EnvelopeKept, BoundKept DEF SendInv
<1> QED
  BY <1>1, <1>2, PageInvariant, PageHonest, PTL DEF PageSpec

\* A transaction taken as within the envelope is the mandate and cost at most the
\* ceiling, whatever the wallet made of it and whatever base fee was read.
THEOREM CostIsBounded == PageSpec => []WithinMeansBounded
<1>1. SendInv => WithinMeansBounded
  BY DEF SendInv
<1> QED
  BY <1>1, SendInvariant, PTL

-----------------------------------------------------------------------------
(* Going back *)

LEMMA OthersKeepView ==
  ASSUME [PageNext]_pageVars
  PROVE  \/ view' = view
         \/ \E s \in {"pull", "poll", "manual"} : TakeRun(s)
         \/ TakeCancellation
         \/ TakeTracked /\ Accepts("poll", view.rev) /\ view' = request["poll"].answer.run
<1>1. CASE Server
  <2>1. CASE \E s \in Working : Serve(s)
    BY <2>1 DEF Serve, AskBrickken, AskBrickkenAgain, RefuseToPrepare, TakeFirst, TakeSecond,
       PromoteRun, Evaluate, RecordPrompt, ReleaseEnvelope, IngestReport, WriteAndGoOn,
       WriteAndAnswer, StaleAndAnswer, GoOn, OnlyAnswers, Write
  <2>2. CASE ~\E s \in Working : Serve(s)
    BY <1>1, <2>2 DEF Server, Crash, Conflict, ServeRun, BeginTracking, EndTracking,
       CancelRun, Poll, WriteAndGoOn, WriteAndAnswer, GoOn, OnlyAnswers, Write
  <2> QED
    BY <2>1, <2>2
<1>2. CASE Controller
  BY <1>2 DEF Controller, AskManually, AskElsewhere, PollTimer, TakeTracked
<1>3. CASE Section
  BY <1>3 DEF Section, ClickPrepare, ClickExecute, WalletNotReady, Dismiss, Remount,
     TakePrepared, TakeEnvelope, TakeReported, TakeUnknownReported, AskWallet, WalletAnswers,
     GiveUp
<1>4. CASE UNCHANGED pageVars
  BY <1>4 DEF pageVars
<1> QED
  BY <1>1, <1>2, <1>3, <1>4 DEF PageNext

LEMMA ViewGoesBack ==
  ASSUME PageInv, [PageNext]_pageVars, view'.rev < view.rev
  PROVE  \E s \in Slots : request[s].route \in {"get", "cancel"} /\ Returned(s)
                          /\ request'[s] # request[s]
<1>1. view.rev \in Nat
  BY DEF PageInv, Honest
<1>2. {"pull", "poll", "manual"} \subseteq Slots
  BY DEF Slots
<1>3. ASSUME NEW s \in Slots, Returned(s), request' = [request EXCEPT ![s] = NoRequest]
      PROVE  request'[s] # request[s]
  BY <1>3 DEF PageInv, Returned, NoRequest
<1>4. CASE \E s \in {"pull", "poll", "manual"} : TakeRun(s)
  BY <1>2, <1>3, <1>4 DEF TakeRun
<1>5. CASE TakeCancellation
  <2>1. Returned("manual") /\ request["manual"].route = "cancel"
    BY <1>5 DEF TakeCancellation
  <2>2. ShowsRun("manual")
    BY <1>1, <1>5 DEF TakeCancellation
  <2>3. request'["manual"] # request["manual"]
    BY <1>2, <1>3, <1>5, <2>1, <2>2 DEF TakeCancellation
  <2> QED
    BY <1>2, <2>1, <2>3
<1>6. CASE TakeTracked /\ Accepts("poll", view.rev) /\ view' = request["poll"].answer.run
  <2>1. Returned("poll") /\ ShowsRun("poll") /\ view'.rev >= view.rev
    BY <1>6 DEF TakeTracked, Accepts, Merges
  <2>2. view'.rev \in Nat
    BY <1>2, <1>6, <2>1, AnswerHonest DEF Honest
  <2> QED
    BY <1>1, <2>1, <2>2
<1>7. view' # view
  BY <1>1
<1> QED
  BY <1>4, <1>5, <1>6, <1>7, OthersKeepView

\* Only an answer to a read or to a cancellation takes the page back; the answer
\* to a tracking request never does, whatever came in between.
THEOREM OnlyReadsGoBack == PageSpec => ViewGoesBackOnlyByOldRead
<1>1. PageInv /\ [PageNext]_pageVars =>
          [view'.rev < view.rev =>
               \E s \in Slots : request[s].route \in {"get", "cancel"} /\ Returned(s)
                               /\ request'[s] # request[s]]_pageVars
  BY ViewGoesBack
<1> QED
  BY <1>1, PageHonest, PTL DEF PageSpec, ViewGoesBackOnlyByOldRead

=============================================================================
