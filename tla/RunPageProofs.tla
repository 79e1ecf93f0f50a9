--------------------------- MODULE RunPageProofs -----------------------------
(***************************************************************************)
(* Proofs about RunPage, for every set of answers of Brickken and of the   *)
(* node, every wallet and every policy.                                    *)
(*                                                                         *)
(* Every step of page and server is a step of ExecutionRun or leaves its   *)
(* variables alone.  So the run behind the page is one, and what           *)
(* ExecutionRunProofs shows of a run holds behind the page as well.  The   *)
(* rest is about what the page adds: what Brickken made of a preparation.  *)
(***************************************************************************)
EXTENDS RunPageInv, ExecutionRunProofs

-----------------------------------------------------------------------------
(* The run behind the page *)

\* Steps of the page that write nothing.
LEMMA OnlyAnswersKeepsRun == ASSUME OnlyAnswers PROVE UNCHANGED vars
BY DEF OnlyAnswers, serverVars, runState

LEMMA CompareIsComparison ==
  ASSUME NEW approved, NEW sent, NEW baseFee
  PROVE  Compare(approved, sent, baseFee) \in Comparisons
BY DEF Compare, Comparisons

LEMMA OpIsKind == Op \in Kinds
BY DEF Op, Kinds

LEMMA ServeIsRun ==
  ASSUME NEW s, Serve(s) PROVE [Next]_vars
<1> USE OpIsKind
<1>1. CASE AskBrickken(s)
  BY <1>1 DEF AskBrickken, Next, PrepareV2
<1>2. CASE AskBrickkenAgain(s)
  BY <1>2 DEF AskBrickkenAgain, Next, PrepareV4
<1>3. CASE RefuseToPrepare(s)
  BY <1>3, OnlyAnswersKeepsRun DEF RefuseToPrepare
<1>4. CASE TakeFirst(s)
  BY <1>4 DEF TakeFirst, Next, PrepareV2
<1>5. CASE TakeSecond(s)
  BY <1>5 DEF TakeSecond, Next, PrepareV4
<1>6. CASE PromoteRun(s)
  BY <1>6, OnlyAnswersKeepsRun DEF PromoteRun, Next, PrepareV2
<1>7. CASE Evaluate(s)
  BY <1>7, OnlyAnswersKeepsRun DEF Evaluate, GoOn, StaleAndAnswer, Next, PrepareV4
<1>8. CASE RecordPrompt(s)
  BY <1>8, OnlyAnswersKeepsRun DEF RecordPrompt, StaleAndAnswer, Next, PrepareV4, Wallet
<1>9. CASE ReleaseEnvelope(s)
  BY <1>9, OnlyAnswersKeepsRun DEF ReleaseEnvelope, Next, Wallet
<1>10. CASE IngestReport(s)
  BY <1>10 DEF IngestReport, Next, Wallet
<1> QED
  BY <1>1, <1>2, <1>3, <1>4, <1>5, <1>6, <1>7, <1>8, <1>9, <1>10 DEF Serve

LEMMA PollIsRun == ASSUME Poll PROVE [Next]_vars
<1> USE OpIsKind
<1>1. CASE SeeTransaction
  BY <1>1, CompareIsComparison DEF SeeTransaction, Next, Evidence
<1>2. CASE SeeReceipt
  BY <1>2 DEF SeeReceipt, Next, Evidence
<1>3. CASE BeginCorrelation(Op) \/ AuthorizeCorrelationRetry(Op) \/ ExhaustCorrelation(Op)
  BY <1>3 DEF Next, Brickken
<1>4. CASE TakeCorrelation
  BY <1>4 DEF TakeCorrelation, Next, Brickken
<1>5. CASE TakeStatus
  <2>1. PICK a \in StatusAnswers :
            \/ StatusOutcome(a, hash[Op]) = "STATUS" /\ RecordStatus(Op, a.body.text)
            \/ StatusOutcome(a, hash[Op]) = "CONTRADICTION" /\ RecordStatusContradiction(Op)
    BY <1>5 DEF TakeStatus
  <2>2. StatusOutcome(a, hash[Op]) = "STATUS" => a.body # None
    BY DEF StatusOutcome
  <2> QED
    BY <2>1, <2>2, TextAssumption DEF Next, Brickken
<1>6. CASE ReadBack
  BY <1>6 DEF ReadBack, Next, Tracking
<1> QED
  BY <1>1, <1>2, <1>3, <1>4, <1>5, <1>6 DEF Poll

LEMMA ServerIsRun == ASSUME Server PROVE [Next]_vars
<1> USE OpIsKind
<1>1. CASE \E s \in Working : Serve(s)
  BY <1>1, ServeIsRun
<1>2. CASE \E s \in Working \cup {"pull"} : Crash(s)
  BY <1>2 DEF Crash, serverVars, runState
<1>3. CASE \E s \in Slots : Conflict(s) \/ ServeRun(s)
  BY <1>3, OnlyAnswersKeepsRun DEF Conflict, ServeRun
<1>4. CASE BeginTracking("poll")
  BY <1>4, OnlyAnswersKeepsRun DEF BeginTracking, GoOn, Next, Tracking
<1>5. CASE EndTracking("poll")
  BY <1>5, OnlyAnswersKeepsRun DEF EndTracking
<1>6. CASE CancelRun("manual")
  BY <1>6, OnlyAnswersKeepsRun DEF CancelRun, Next
<1>7. CASE Poll
  BY <1>7, PollIsRun
<1> QED
  BY <1>1, <1>2, <1>3, <1>4, <1>5, <1>6, <1>7 DEF Server

\* Neither controller nor section writes anything the server keeps.
LEMMA BrowserKeepsServer ==
  ASSUME Controller \/ Section PROVE UNCHANGED serverVars
<1>1. CASE Controller
  BY <1>1 DEF Controller, TakeRun, AskManually, AskElsewhere, TakeCancellation, PollTimer,
     TakeTracked
<1>2. CASE Section
  BY <1>2 DEF Section, ClickPrepare, ClickExecute, WalletNotReady, Dismiss, Remount,
     TakePrepared, TakeEnvelope, TakeReported, TakeUnknownReported, AskWallet, WalletAnswers,
     GiveUp
<1> QED
  BY <1>1, <1>2

\* Every step of page and server is a step of the run or none of its business.
LEMMA PageStepIsRunStep == ASSUME [PageNext]_pageVars PROVE [Next]_vars
<1>1. CASE Server
  BY <1>1, ServerIsRun
<1>2. CASE Controller \/ Section
  BY <1>2, BrowserKeepsServer DEF serverVars, runState
<1>3. CASE UNCHANGED pageVars
  BY <1>3 DEF pageVars, serverVars, runState
<1> QED
  BY <1>1, <1>2, <1>3 DEF PageNext

\* The page opens on a run that was approved, which is a state of ExecutionRun
\* although not its first.
LEMMA PageInitHolds == ASSUME PageInit PROVE IInv
<1>1. /\ schema = "2.0" /\ phase = "TOKENIZATION" /\ status = "PREPARING"
      /\ outcome = None /\ eligible = FALSE /\ tokenIdentity = None
      /\ stage = [k \in Kinds |-> "NOT_STARTED"] /\ attempts = [k \in Kinds |-> << >>]
      /\ prompt = [k \in Kinds |-> None] /\ hash = [k \in Kinds |-> None]
      /\ rpc = [k \in Kinds |-> "NONE"] /\ receipt = [k \in Kinds |-> None]
      /\ correlation = [k \in Kinds |-> None] /\ statusText = [k \in Kinds |-> None]
      /\ released = [k \in Kinds |-> 0] /\ reserved = 0 /\ refused = FALSE /\ pollStep = 0
  BY DEF PageInit
<1>2. TypeOK
  <2>1. attempts \in [Kinds -> Seq(AttemptStates)] /\ \A k \in Kinds : Len(attempts[k]) <= MaxPreparations
    <3>1. << >> \in Seq(AttemptStates) /\ Len(<< >>) = 0 /\ 0 <= MaxPreparations
      BY BudgetAssumption
    <3> QED
      BY <1>1, <3>1
  <2>2. /\ prompt \in [Kinds -> Prompts \cup {None}] /\ hash \in [Kinds -> Hashes \cup {None}]
        /\ receipt \in [Kinds -> Receipts \cup {None}]
        /\ correlation \in [Kinds -> Correlations \cup {None}]
        /\ statusText \in [Kinds -> StatusTexts \cup {None}]
    BY <1>1
  <2>3. reserved \in 0..TrackBudget /\ pollStep \in 0..5 /\ released \in [Kinds -> Nat]
    BY <1>1, BudgetAssumption
  <2>4. stage \in [Kinds -> Stages] /\ rpc \in [Kinds -> Comparisons]
    BY <1>1 DEF Stages, PreparationStages, Comparisons
  <2> QED
    BY <1>1, <2>1, <2>2, <2>3, <2>4 DEF TypeOK, Phases, Statuses
<1>3. \A k \in Kinds : Pristine(k)
  BY <1>1 DEF Pristine
<1>4. PhaseShape /\ SchemaShape /\ TokenShape
  BY <1>1, <1>3 DEF PhaseShape, SchemaShape, TokenShape, Pristine, Kinds
<1>5. \A k \in Kinds : WalletShape(k) /\ ChainShape(k) /\ CorrelationShape(k)
  <2>1. TAKE k \in Kinds
  <2>2. Pristine(k) /\ status = "PREPARING"
    BY <1>1, <1>3
  <2>3. stage[k] = "NOT_STARTED" /\ stage[k] \notin PromptStages \cup ReceiptStages \cup CorrelationStages
    BY <2>2 DEF Pristine, PromptStages, ReleasedStages, ReceiptStages, CorrelationStages
  <2>4. WalletShape(k)
    BY <2>2, <2>3 DEF WalletShape, AttemptFitsStage, Pristine, PromptStages
  <2>5. ChainShape(k)
    BY <2>2, <2>3 DEF ChainShape, Pristine, PromptStages
  <2>6. CorrelationShape(k)
    BY <2>2, <2>3 DEF CorrelationShape, Pristine
  <2> QED
    BY <2>4, <2>5, <2>6
<1> QED
  BY <1>2, <1>4, <1>5 DEF IInv

\* Behind the page runs a run: every step is one of ExecutionRun's.
THEOREM PageRuns == PageSpec => [][Next]_vars
<1>1. [PageNext]_pageVars => [Next]_vars
  BY PageStepIsRunStep
<1> QED
  BY <1>1, PTL DEF PageSpec

\* So the inductive invariant of a run holds behind the page.
THEOREM PageInvariant == PageSpec => []IInv
<1>1. PageInit => IInv
  BY PageInitHolds
<1>2. IInv /\ [Next]_vars => IInv'
  BY NextKeeps, StutterKeeps
<1> QED
  BY <1>1, <1>2, PageRuns, PTL DEF PageSpec

-----------------------------------------------------------------------------
(* What a step of the server does to what the page knows *)

\* The row stays, or its revision goes up by one.
Moves ==
    \/ rev' = rev /\ tx' = tx /\ Row' = Row
    \/ rev' = rev + 1

\* The page is not told yet.
PageWaits == view' = view /\ action' = action /\ asked' = asked /\ detail' = detail

LEMMA RowStays == ASSUME UNCHANGED serverVars PROVE Row' = Row /\ Moves
<1>1. Row' = Row /\ rev' = rev /\ tx' = tx
  BY DEF serverVars, runState, vars, runVars, walletVars, chainVars, brickkenVars, logVars,
     Row, PromptUnspent
<1> QED
  BY <1>1 DEF Moves, Review

LEMMA AnswersMove == ASSUME OnlyAnswers PROVE Row' = Row /\ Moves /\ PageWaits
<1>1. UNCHANGED serverVars /\ PageWaits
  BY DEF OnlyAnswers, sectionVars, worldVars, PageWaits
<1> QED
  BY <1>1, RowStays

LEMMA WritesMove == ASSUME Write PROVE Moves /\ PageWaits
BY DEF Write, Moves, PageWaits, sectionVars, worldVars

LEMMA HonestKept ==
  ASSUME rev \in Nat, Moves, NEW v, Honest(v) PROVE Honest(v)'
BY DEF Moves, Honest

LEMMA ReviewFollows == ASSUME Row' = Row PROVE Review' = Review
BY DEF Review

LEMMA RequestKept ==
  ASSUME rev \in Nat, Moves, action' = action, NEW s, NEW q, RequestOK(s, q)
  PROVE  RequestOK(s, q)'
<1>1. q.step = "answered" /\ q.answer.kind = "RUN" => Honest(q.answer.run)'
  BY HonestKept DEF RequestOK
<1>2. ExecuteKnows(q) => ExecuteKnows(q)'
  BY ReviewFollows DEF ExecuteKnows, Moves, Mandate
<1>3. /\ q = Request(q.route, q.step, q.expects, q.answer)'
      /\ s = "pull" /\ q.step # "idle" => action'.step = "refreshing"
      /\ s = "action" /\ q.step # "idle" =>
             /\ action'.step = IF q.route \in {"prepare", "execute"} THEN "asking" ELSE "reporting"
             /\ q.route = "execute" => ExecuteKnows(q)
  BY DEF RequestOK, Request
<1> QED
  BY <1>1, <1>2, <1>3 DEF RequestOK

\* A step of the server that works on one request.
LEMMA ServerKeeps ==
  ASSUME PageInv, Moves, PageWaits, NEW s \in Slots, NEW q,
         request' = [request EXCEPT ![s] = q], RequestOK(s, q)'
  PROVE  PageInv'
<1>1. rev' \in Nat
  BY DEF PageInv, Moves
<1>2. /\ request' = [t \in Slots |-> request'[t]]
      /\ \A t \in Slots : request'[t] = IF t = s THEN q ELSE request[t]
  BY DEF PageInv
<1>3. \A t \in Slots : RequestOK(t, request[t])'
  <2>1. ASSUME NEW t \in Slots, NEW r, r = request'[t]
        PROVE  RequestOK(t, r)'
    <3>1. CASE t = s
      BY <1>2, <2>1, <3>1
    <3>2. CASE t # s
      <4>1. r = request[t] /\ RequestOK(t, r)
        BY <1>2, <2>1, <3>2 DEF PageInv
      <4> QED
        BY <4>1, RequestKept DEF PageInv, PageWaits
    <3> QED
      BY <3>1, <3>2
  <2> QED
    BY <2>1
<1>4. Honest(view)'
  <2>1. PICK v : v = view
    OBVIOUS
  <2>2. Honest(v)'
    BY <2>1, HonestKept DEF PageInv
  <2> QED
    BY <2>1, <2>2 DEF PageWaits
<1>5. ActionOK' /\ AskedOK' /\ DetailOK'
  BY DEF PageInv, PageWaits, ActionOK, AskedOK, DetailOK, Action, Mandate
<1> QED
  BY <1>1, <1>2, <1>3, <1>4, <1>5 DEF PageInv

-----------------------------------------------------------------------------
(* The forms of a request *)

LEMMA RequestHas ==
  ASSUME NEW r, NEW st, NEW e, NEW a
  PROVE  LET q == Request(r, st, e, a) IN
         q.route = r /\ q.step = st /\ q.expects = e /\ q.answer = a
BY DEF Request

LEMMA AnsweredIs ==
  ASSUME PageInv, NEW s \in Slots, NEW a
  PROVE  Answered(s, a) = [request EXCEPT ![s] =
             IF s = "left" THEN NoRequest
             ELSE Request(request[s].route, "answered", request[s].expects, a)]
<1>1. request[s] = Request(request[s].route, request[s].step, request[s].expects, request[s].answer)
  BY DEF PageInv, RequestOK
<1>2. [request[s] EXCEPT !.step = "answered", !.answer = a]
          = Request(request[s].route, "answered", request[s].expects, a)
  <2>1. [request[s] EXCEPT !.step = "answered"]
            = Request(request[s].route, "answered", request[s].expects, request[s].answer)
    BY <1>1 DEF Request
  <2>2. [Request(request[s].route, "answered", request[s].expects, request[s].answer)
            EXCEPT !.answer = a]
            = Request(request[s].route, "answered", request[s].expects, a)
    BY DEF Request
  <2>3. [request[s] EXCEPT !.step = "answered", !.answer = a]
            = [[request[s] EXCEPT !.step = "answered"] EXCEPT !.answer = a]
    OBVIOUS
  <2> QED
    BY <2>1, <2>2, <2>3
<1>3. Answered(s, a) = [request EXCEPT ![s] =
          IF s = "left" THEN NoRequest
          ELSE [request[s] EXCEPT !.step = "answered", !.answer = a]]
  BY DEF Answered, PageInv
<1> QED
  BY <1>2, <1>3

LEMMA StepIs ==
  ASSUME PageInv, NEW s \in Slots, NEW x, NEW y
  PROVE  LET q == request[s] IN
         /\ [request EXCEPT ![s].step = x]
                = [request EXCEPT ![s] = Request(q.route, x, q.expects, q.answer)]
         /\ [request EXCEPT ![s].step = x, ![s].expects = y]
                = [request EXCEPT ![s] = Request(q.route, x, y, q.answer)]
<1> DEFINE q == request[s]
           new == Request(q.route, x, q.expects, q.answer)
<1>1. q = Request(q.route, q.step, q.expects, q.answer)
  BY DEF PageInv, RequestOK
<1>2. [q EXCEPT !.step = x] = new
  BY <1>1 DEF Request
<1>3. [request EXCEPT ![s].step = x] = [request EXCEPT ![s] = new]
  BY <1>2
<1>4. [new EXCEPT !.expects = y] = Request(q.route, x, y, q.answer)
  BY DEF Request
<1>5. [[request EXCEPT ![s] = new] EXCEPT ![s].expects = y]
          = [request EXCEPT ![s] = Request(q.route, x, y, q.answer)]
  <2> HIDE DEF new, q
  <2>1. DOMAIN request = Slots
    BY DEF PageInv
  <2>2. [request EXCEPT ![s] = new][s] = new
    BY <2>1
  <2>3. [[request EXCEPT ![s] = new] EXCEPT ![s].expects = y]
            = [[request EXCEPT ![s] = new] EXCEPT ![s] = [new EXCEPT !.expects = y]]
    BY <2>2
  <2>4. \A z : [[request EXCEPT ![s] = new] EXCEPT ![s] = z] = [request EXCEPT ![s] = z]
    BY <2>1
  <2> QED
    BY <1>4, <2>3, <2>4
<1>6. [request EXCEPT ![s].step = x, ![s].expects = y]
          = [[request EXCEPT ![s].step = x] EXCEPT ![s].expects = y]
  OBVIOUS
<1> QED
  BY <1>3, <1>5, <1>6

LEMMA SendIs ==
  ASSUME NEW s \in Slots, NEW route, NEW e
  PROVE  Send(s, route, e) = [request EXCEPT ![s] = Request(route, "arrived", e, None)]
<1>1. [NoRequest EXCEPT !.route = route] = Request(route, "idle", 0, None)
  BY DEF NoRequest, Request
<1>2. [Request(route, "idle", 0, None) EXCEPT !.step = "arrived"]
          = Request(route, "arrived", 0, None)
  BY DEF Request
<1>3. [Request(route, "arrived", 0, None) EXCEPT !.expects = e]
          = Request(route, "arrived", e, None)
  BY DEF Request
<1>4. [NoRequest EXCEPT !.route = route, !.step = "arrived", !.expects = e]
          = [[[NoRequest EXCEPT !.route = route] EXCEPT !.step = "arrived"] EXCEPT !.expects = e]
  OBVIOUS
<1> QED
  BY <1>1, <1>2, <1>3, <1>4 DEF Send

-----------------------------------------------------------------------------
(* The server's steps keep what the page knows *)

\* A request is answered, honestly if with a run, and with the transaction that
\* was shown if with an envelope.
LEMMA AnswerKeeps ==
  ASSUME PageInv, Moves, PageWaits, NEW s \in Slots, NEW a,
         request' = Answered(s, a), request[s].step # "idle",
         a.kind = "RUN" => Honest(a.run)',
         s = "action" /\ request[s].route = "execute" /\ a.kind = "ENVELOPE" =>
             a.tx = action.review /\ Mandate(a.tx)
  PROVE  PageInv'
<1> DEFINE old == request[s]
<1>1. PICK q : q = IF s = "left" THEN NoRequest
                   ELSE Request(old.route, "answered", old.expects, a)
  OBVIOUS
<1>2. request' = [request EXCEPT ![s] = q]
  BY <1>1, AnsweredIs
<1>3. RequestOK(s, old)
  BY DEF PageInv
<1>4. RequestOK(s, q)'
  <2>1. CASE s = "left"
    BY <1>1, <2>1 DEF NoRequest, RequestOK, Request
  <2>2. CASE s # "left"
    <3>1. /\ q.route = old.route /\ q.step = "answered" /\ q.expects = old.expects
          /\ q.answer = a /\ q = Request(q.route, q.step, q.expects, q.answer)
      BY <1>1, <2>2 DEF Request
    <3>2. s = "action" /\ q.route = "execute" => ExecuteKnows(q)'
      BY <3>1 DEF ExecuteKnows, PageWaits, Mandate
    <3>3. /\ s = "pull" => action.step = "refreshing"
          /\ s = "action" => action.step = IF q.route \in {"prepare", "execute"}
                                           THEN "asking" ELSE "reporting"
      BY <1>3, <3>1 DEF RequestOK
    <3>4. q = Request(q.route, q.step, q.expects, q.answer)'
      BY <3>1 DEF Request
    <3> HIDE DEF old
    <3> QED
      BY <3>1, <3>2, <3>3, <3>4 DEF RequestOK, PageWaits
  <2> QED
    BY <2>1, <2>2
<1> QED
  BY <1>2, <1>4, ServerKeeps

\* A request goes on with the revision there is now.
LEMMA GoOnKeeps ==
  ASSUME PageInv, Moves, PageWaits, NEW s \in Slots,
         NEW step, step \notin {"idle", "arrived", "answered"},
         request' = [request EXCEPT ![s] =
             Request(request[s].route, step, rev', request[s].answer)],
         request[s].step # "idle",
         s = "action" /\ request[s].route = "execute" => action.review = tx'
  PROVE  PageInv'
<1> DEFINE old == request[s]
<1>1. PICK q : q = Request(old.route, step, rev', old.answer)
  OBVIOUS
<1>2. RequestOK(s, old)
  BY DEF PageInv
<1>3. /\ q.route = old.route /\ q.step = step /\ q.expects = rev'
      /\ q = Request(q.route, q.step, q.expects, q.answer)
  BY <1>1 DEF Request
<1>4. rev' \in Nat
  BY DEF PageInv, Moves
<1>5. s = "action" /\ q.route = "execute" => ExecuteKnows(q)'
  BY <1>3, <1>4 DEF ExecuteKnows, PageWaits
<1>6. /\ s = "pull" => action.step = "refreshing"
      /\ s = "action" => action.step = IF q.route \in {"prepare", "execute"}
                                       THEN "asking" ELSE "reporting"
  BY <1>2, <1>3 DEF RequestOK
<1>7. RequestOK(s, q)'
  <2>1. q = Request(q.route, q.step, q.expects, q.answer)'
    BY <1>3 DEF Request
  <2> HIDE DEF old
  <2> QED
    BY <1>3, <1>5, <1>6, <2>1 DEF RequestOK, PageWaits
<1> QED
  BY <1>1, <1>7, ServerKeeps

LEMMA WriteAndGoOnKeeps ==
  ASSUME PageInv, NEW s \in Slots, NEW step, step \notin {"idle", "arrived", "answered"},
         WriteAndGoOn(s, step), request[s].step # "idle",
         s = "action" /\ request[s].route = "execute" => action.review = tx'
  PROVE  PageInv'
<1>1. Write /\ rev' = rev + 1
  BY DEF WriteAndGoOn, Write
<1>2. request' = [request EXCEPT ![s] =
          Request(request[s].route, step, rev', request[s].answer)]
  <2>1. request' = [request EXCEPT ![s].step = step, ![s].expects = rev + 1]
    BY DEF WriteAndGoOn
  <2>2. [request EXCEPT ![s].step = step, ![s].expects = rev + 1]
            = [request EXCEPT ![s] = Request(request[s].route, step, rev + 1, request[s].answer)]
    BY StepIs
  <2> QED
    BY <1>1, <2>1, <2>2
<1> QED
  BY <1>1, <1>2, WritesMove, GoOnKeeps

\* A request goes on without a write.
LEMMA GoOnQuietlyKeeps ==
  ASSUME PageInv, NEW s \in Slots, NEW step, step \notin {"idle", "arrived", "answered"},
         GoOn(s, step), Knows(s), request[s].step # "idle",
         s = "action" /\ request[s].route = "execute" => action.review = tx
  PROVE  PageInv'
<1>1. Moves /\ PageWaits /\ rev' = rev /\ tx' = tx
  BY AnswersMove DEF GoOn, OnlyAnswers, serverVars
<1>2. request' = [request EXCEPT ![s] =
          Request(request[s].route, step, rev', request[s].answer)]
  BY <1>1, StepIs DEF GoOn, Knows
<1> QED
  BY <1>1, <1>2, GoOnKeeps

\* An error is an honest answer, whether something was written or not.
LEMMA FailsKeeps ==
  ASSUME PageInv, Moves, PageWaits, NEW s \in Slots, NEW code,
         Answer(s, Failed(code)), request[s].step # "idle"
  PROVE  PageInv'
<1>1. PICK a : a = Failed(code)
  OBVIOUS
<1>2. a.kind = "ERROR"
  BY <1>1 DEF Failed
<1>3. request' = Answered(s, a)
  BY <1>1 DEF Answer
<1> QED
  BY <1>2, <1>3, AnswerKeeps

\* What a read or a write shows of the row it leaves is honest.
LEMMA ShowsKeeps ==
  ASSUME PageInv, Moves, PageWaits, NEW s \in Slots,
         Answer(s, Shown(Row')), request[s].step # "idle"
  PROVE  PageInv'
<1>1. PICK a : a = Shown(Row')
  OBVIOUS
<1>2. rev' \in Nat
  BY DEF PageInv, Moves
<1>3. a.kind = "RUN" => a.run = Projection(Row')
  BY <1>1 DEF Shown, Failed
<1>4. a.kind = "RUN" => Honest(a.run)'
  <2>1. Projection(Row').rev = rev'
    BY DEF Projection, Row
  <2> QED
    BY <1>2, <1>3, <2>1 DEF Honest
<1>5. a.kind # "ENVELOPE"
  BY <1>1 DEF Shown, Failed
<1>6. request' = Answered(s, a)
  BY <1>1 DEF Answer
<1> QED
  BY <1>4, <1>5, <1>6, AnswerKeeps

\* Both schemas let a click execute only what the page could review.
LEMMA ReviewOfPrepared ==
  ASSUME status = "AWAITING_WALLET", stage[Op] = "PREPARED" PROVE Review = tx
BY DEF Review, Projection, Preparation, Row

\* What the button's request knows when the server takes it up.
LEMMA ActionKnows ==
  ASSUME PageInv, Knows("action"), request["action"].route = "execute",
         request["action"].step # "idle"
  PROVE  /\ request["action"].step = "arrived" => action.review = Review
         /\ request["action"].step \in {"promoted", "fresh", "prompted"} => action.review = tx
<1>1. RequestOK("action", request["action"])
  BY DEF PageInv, Slots
<1> QED
  BY <1>1 DEF RequestOK, ExecuteKnows, Knows

LEMMA PrepareServesKeep ==
  ASSUME PageInv, NEW s \in Working,
         \/ AskBrickken(s) \/ AskBrickkenAgain(s) \/ RefuseToPrepare(s)
         \/ TakeFirst(s) \/ TakeSecond(s)
  PROVE  PageInv'
<1>1. s \in Slots
  BY DEF Working, Slots
<1>2. CASE AskBrickken(s) \/ AskBrickkenAgain(s)
  <2>1. PICK step \in {"asked", "askedAgain"} : WriteAndGoOn(s, step)
    BY <1>2 DEF AskBrickken, AskBrickkenAgain
  <2>2. request[s].step # "idle" /\ request[s].route # "execute"
    BY <1>2 DEF AskBrickken, AskBrickkenAgain, Begins
  <2> QED
    BY <1>1, <2>1, <2>2, WriteAndGoOnKeeps
<1>3. CASE RefuseToPrepare(s)
  <2>1. request[s].step # "idle" /\ Answer(s, Failed("STATE_CONFLICT"))
    BY <1>3 DEF RefuseToPrepare, Begins
  <2> QED
    BY <1>1, <1>3, <2>1, AnswersMove, FailsKeeps DEF RefuseToPrepare
<1>4. CASE TakeFirst(s) \/ TakeSecond(s)
  <2>1. request[s].step # "idle"
    BY <1>4 DEF TakeFirst, TakeSecond, At
  <2>2. \/ WriteAndAnswer(s, Shown(Row'))
        \/ \E code : WriteAndAnswer(s, Failed(code))
    BY <1>4 DEF TakeFirst, TakeSecond
  <2>3. Write
    BY <2>2 DEF WriteAndAnswer
  <2> QED
    BY <1>1, <2>1, <2>2, <2>3, WritesMove, ShowsKeeps, FailsKeeps DEF WriteAndAnswer
<1> QED
  BY <1>2, <1>3, <1>4

LEMMA PromoteKeepsPage ==
  ASSUME PageInv, NEW s \in Working, PromoteRun(s) PROVE PageInv'
<1>1. s \in Slots /\ request[s].step = "arrived" /\ request[s].route = "execute" /\ Knows(s)
  BY DEF Working, Slots, PromoteRun, Begins
<1>2. \/ \E code : Answer(s, Failed(code)) /\ OnlyAnswers
      \/ WriteAndGoOn(s, "promoted")
  BY DEF PromoteRun
<1>3. CASE \E code : Answer(s, Failed(code)) /\ OnlyAnswers
  BY <1>1, <1>3, AnswersMove, FailsKeeps
<1>4. CASE WriteAndGoOn(s, "promoted")
  <2>1. Review = tx /\ tx' = tx
    BY ReviewOfPrepared DEF PromoteRun
  <2>2. s = "action" => action.review = tx'
    BY <1>1, <2>1, ActionKnows
  <2> QED
    BY <1>1, <1>4, <2>2, WriteAndGoOnKeeps
<1> QED
  BY <1>2, <1>3, <1>4

LEMMA EvaluateKeepsPage ==
  ASSUME PageInv, NEW s \in Working, Evaluate(s) PROVE PageInv'
<1>1. s \in Slots /\ request[s].step \in {"arrived", "promoted"} /\ Knows(s)
  BY DEF Working, Slots, Evaluate, Begins, At
<1>2. \/ GoOn(s, "fresh")
      \/ \E code : WriteAndAnswer(s, Failed(code))
      \/ \E code : Answer(s, Failed(code)) /\ OnlyAnswers
  BY DEF Evaluate, StaleAndAnswer
<1>3. CASE GoOn(s, "fresh")
  <2>1. request[s].step = "arrived" => Review = tx
    BY ReviewOfPrepared DEF Evaluate, Begins, At
  <2>2. s = "action" /\ request[s].route = "execute" => action.review = tx
    BY <1>1, <2>1, ActionKnows
  <2> QED
    BY <1>1, <1>3, <2>2, GoOnQuietlyKeeps
<1>4. CASE \E code : WriteAndAnswer(s, Failed(code))
  BY <1>1, <1>4, WritesMove, FailsKeeps DEF WriteAndAnswer
<1>5. CASE \E code : Answer(s, Failed(code)) /\ OnlyAnswers
  BY <1>1, <1>5, AnswersMove, FailsKeeps
<1> QED
  BY <1>2, <1>3, <1>4, <1>5

LEMMA RecordPromptKeepsPage ==
  ASSUME PageInv, NEW s \in Working, RecordPrompt(s) PROVE PageInv'
<1>1. s \in Slots /\ request[s].step = "fresh" /\ Knows(s) /\ tx' = tx
  BY DEF Working, Slots, RecordPrompt, At
<1>2. \/ WriteAndGoOn(s, "prompted")
      \/ \E code : WriteAndAnswer(s, Failed(code))
      \/ \E code : Answer(s, Failed(code)) /\ OnlyAnswers
  BY DEF RecordPrompt, StaleAndAnswer
<1>3. CASE WriteAndGoOn(s, "prompted")
  <2>1. s = "action" /\ request[s].route = "execute" => action.review = tx'
    BY <1>1, ActionKnows
  <2> QED
    BY <1>1, <1>3, <2>1, WriteAndGoOnKeeps
<1>4. CASE \E code : WriteAndAnswer(s, Failed(code))
  BY <1>1, <1>4, WritesMove, FailsKeeps DEF WriteAndAnswer
<1>5. CASE \E code : Answer(s, Failed(code)) /\ OnlyAnswers
  BY <1>1, <1>5, AnswersMove, FailsKeeps
<1> QED
  BY <1>2, <1>3, <1>4, <1>5

\* A preflight that authorizes has seen the mandate.
LEMMA AuthorizedIsMandate ==
  ASSUME NEW t, NEW r1, NEW c, NEW r2, Preflight(t, r1, c, r2).reason = "AUTHORIZED"
  PROVE  Mandate(t)
<1>1. SemanticallyAllowed(t)
  BY DEF Preflight
<1> QED
  BY <1>1 DEF SemanticallyAllowed, ToTheFactory, Canonical, Mandate

LEMMA ReleaseKeepsPage ==
  ASSUME PageInv, NEW s \in Working, ReleaseEnvelope(s) PROVE PageInv'
<1>1. s \in Slots /\ request[s].step = "prompted" /\ Knows(s)
  BY DEF Working, Slots, ReleaseEnvelope, At
<1>2. \/ Mandate(tx) /\ WriteAndAnswer(s, Envelope)
      \/ \E code : WriteAndAnswer(s, Failed(code))
      \/ \E code : Answer(s, Failed(code)) /\ OnlyAnswers
  BY AuthorizedIsMandate DEF ReleaseEnvelope, PreflightsOf
<1>3. CASE Mandate(tx) /\ WriteAndAnswer(s, Envelope)
  <2>1. PICK a : a = Envelope
    OBVIOUS
  <2>2. a.kind = "ENVELOPE" /\ a.tx = tx
    BY <2>1 DEF Envelope
  <2>3. s = "action" /\ request[s].route = "execute" => a.tx = action.review
    BY <1>1, <2>2, ActionKnows
  <2>4. Write /\ request' = Answered(s, a) /\ Mandate(a.tx)
    BY <1>3, <2>1, <2>2 DEF WriteAndAnswer, Answer
  <2> QED
    BY <1>1, <2>2, <2>3, <2>4, WritesMove, AnswerKeeps
<1>4. CASE \E code : WriteAndAnswer(s, Failed(code))
  BY <1>1, <1>4, WritesMove, FailsKeeps DEF WriteAndAnswer
<1>5. CASE \E code : Answer(s, Failed(code)) /\ OnlyAnswers
  BY <1>1, <1>5, AnswersMove, FailsKeeps
<1> QED
  BY <1>2, <1>3, <1>4, <1>5

LEMMA OtherServesKeep ==
  ASSUME PageInv,
         \/ \E s \in Working : IngestReport(s)
         \/ \E s \in Working \cup {"pull"} : Crash(s)
         \/ \E s \in Slots : Conflict(s) \/ ServeRun(s)
         \/ EndTracking("poll") \/ CancelRun("manual")
  PROVE  PageInv'
<1>1. Working \cup {"pull", "poll", "manual"} \subseteq Slots
  BY DEF Working, Slots
<1>2. PICK s \in Slots : /\ request[s].step # "idle"
                         /\ \/ Write /\ Answer(s, Shown(Row'))
                            \/ OnlyAnswers /\ Answer(s, Shown(Row))
                            \/ OnlyAnswers /\ \E code : Answer(s, Failed(code))
                            \/ UNCHANGED serverVars /\ PageWaits /\ \E code : Answer(s, Failed(code))
  BY <1>1 DEF IngestReport, WriteAndAnswer, Crash, Conflict, ServeRun, EndTracking, CancelRun,
     Begins, PageWaits, sectionVars
<1>3. CASE Write /\ Answer(s, Shown(Row'))
  BY <1>2, <1>3, WritesMove, ShowsKeeps
<1>4. CASE OnlyAnswers /\ Answer(s, Shown(Row))
  <2>1. Answer(s, Shown(Row'))
    BY <1>4, AnswersMove
  <2> QED
    BY <1>2, <1>4, <2>1, AnswersMove, ShowsKeeps
<1>5. CASE OnlyAnswers /\ \E code : Answer(s, Failed(code))
  BY <1>2, <1>5, AnswersMove, FailsKeeps
<1>6. CASE UNCHANGED serverVars /\ PageWaits /\ \E code : Answer(s, Failed(code))
  BY <1>2, <1>6, RowStays, FailsKeeps
<1> QED
  BY <1>2, <1>3, <1>4, <1>5, <1>6

LEMMA TrackingKeepsPage ==
  ASSUME PageInv, BeginTracking("poll") \/ Poll PROVE PageInv'
<1>1. "poll" \in Slots
  BY DEF Slots
<1>2. CASE BeginTracking("poll")
  <2>1. request["poll"].step # "idle" /\ Knows("poll")
    BY <1>2 DEF BeginTracking, Begins
  <2>2. \/ WriteAndGoOn("poll", "tracked")
        \/ GoOn("poll", "tracked")
        \/ Answer("poll", Failed("STATE_CONFLICT")) /\ OnlyAnswers
    BY <1>2 DEF BeginTracking
  <2>3. CASE WriteAndGoOn("poll", "tracked")
    BY <1>1, <2>1, <2>3, WriteAndGoOnKeeps
  <2>4. CASE GoOn("poll", "tracked")
    BY <1>1, <2>1, <2>4, GoOnQuietlyKeeps
  <2>5. CASE Answer("poll", Failed("STATE_CONFLICT")) /\ OnlyAnswers
    BY <1>1, <2>1, <2>5, AnswersMove, FailsKeeps
  <2> QED
    BY <2>2, <2>3, <2>4, <2>5
<1>3. CASE Poll
  <2>1. PICK q : q = request["poll"]
    OBVIOUS
  <2>2. Moves /\ PageWaits /\ request' = request
    BY <1>3, WritesMove DEF Poll
  <2>3. RequestOK("poll", q)' /\ request' = [request EXCEPT !["poll"] = q]
    BY <1>1, <2>1, <2>2, RequestKept DEF PageInv, PageWaits
  <2> QED
    BY <1>1, <2>2, <2>3, ServerKeeps
<1> QED
  BY <1>2, <1>3

-----------------------------------------------------------------------------
(* The browser's steps keep what the page knows *)

\* What is new among the requests is checked; the others may rely on the action
\* being what it was, if they rely on it at all.
LEMMA BrowserKeeps ==
  ASSUME PageInv, UNCHANGED serverVars,
         request' = [t \in Slots |-> request'[t]],
         \A t \in Slots : request'[t] = request[t] \/ RequestOK(t, request[t])',
         \/ action' = action
         \/ \A t \in {"action", "pull"} : request[t].step = "idle" \/ RequestOK(t, request[t])',
         Honest(view'), ActionOK', AskedOK', DetailOK'
  PROVE  PageInv'
<1>1. Moves /\ rev' = rev /\ rev' \in Nat
  BY RowStays DEF PageInv, serverVars
<1>2. Honest(view)'
  <2>1. PICK v : v = view'
    OBVIOUS
  <2>2. Honest(v)'
    BY <1>1, <2>1, HonestKept DEF PageInv
  <2> QED
    BY <2>1, <2>2
<1>3. \A t \in Slots : RequestOK(t, request[t])'
  <2>1. ASSUME NEW t \in Slots, request'[t] = request[t], ~RequestOK(t, request[t])'
        PROVE  FALSE
    <3>1. PICK q : q = request[t]
      OBVIOUS
    <3>2. RequestOK(t, q)
      BY <3>1 DEF PageInv
    <3>3. RequestOK(t, q)'
      <4>1. CASE action' = action
        BY <1>1, <3>2, <4>1, RequestKept DEF PageInv
      <4>2. CASE \A u \in {"action", "pull"} : request[u].step = "idle" \/ RequestOK(u, request[u])'
        <5>1. t \in {"action", "pull"} => q.step = "idle"
          BY <2>1, <3>1, <4>2
        <5>2. q = Request(q.route, q.step, q.expects, q.answer)'
          BY <3>2 DEF RequestOK, Request
        <5>3. q.step = "answered" /\ q.answer.kind = "RUN" => Honest(q.answer.run)'
          BY <1>1, <3>2, HonestKept DEF PageInv, RequestOK
        <5> QED
          BY <5>1, <5>2, <5>3 DEF RequestOK
      <4> QED
        BY <4>1, <4>2
    <3> QED
      BY <2>1, <3>1, <3>3
  <2> QED
    BY <2>1
<1> QED
  BY <1>1, <1>2, <1>3 DEF PageInv

\* Slots nobody waits for, and requests of the controller, ask nothing of the
\* action.
LEMMA NoRequestOK == ASSUME NEW s PROVE RequestOK(s, NoRequest)'
BY DEF RequestOK, NoRequest, Request

LEMMA ControllerRequestOK ==
  ASSUME NEW s \in {"poll", "manual", "left"}, NEW route, NEW e
  PROVE  RequestOK(s, Request(route, "arrived", e, None))'
BY DEF RequestOK, Request

\* A step that changes the requests at s only.
LEMMA OneRequest ==
  ASSUME PageInv, NEW s \in Slots, NEW q, request' = [request EXCEPT ![s] = q],
         RequestOK(s, q)'
  PROVE  /\ request' = [t \in Slots |-> request'[t]]
         /\ request'[s] = q
         /\ \A t \in Slots : t # s => request'[t] = request[t]
         /\ \A t \in Slots : request'[t] = request[t] \/ RequestOK(t, request[t])'
<1>1. /\ request' = [t \in Slots |-> request'[t]]
      /\ request'[s] = q
      /\ \A t \in Slots : t # s => request'[t] = request[t]
  BY DEF PageInv
<1>2. RequestOK(s, request[s])'
  BY <1>1
<1> QED
  BY <1>1, <1>2

LEMMA RequestForgotten ==
  ASSUME PageInv, NEW s \in Slots, request' = [request EXCEPT ![s] = NoRequest]
  PROVE  /\ request' = [t \in Slots |-> request'[t]]
         /\ request'[s] = NoRequest
         /\ \A t \in Slots : t # s => request'[t] = request[t]
         /\ \A t \in Slots : request'[t] = request[t] \/ RequestOK(t, request[t])'
<1>1. PICK q : q = NoRequest
  OBVIOUS
<1>2. RequestOK(s, q)'
  BY <1>1, NoRequestOK
<1> QED
  BY <1>1, <1>2, OneRequest

LEMMA ControllerSends ==
  ASSUME PageInv, NEW s \in {"poll", "manual", "left"}, NEW route, NEW e,
         request' = Send(s, route, e)
  PROVE  /\ request' = [t \in Slots |-> request'[t]]
         /\ \A t \in Slots : request'[t] = request[t] \/ RequestOK(t, request[t])'
<1>1. s \in Slots
  BY DEF Slots
<1>2. PICK q : q = Request(route, "arrived", e, None)
  OBVIOUS
<1>3. RequestOK(s, q)'
  <2>1. q = Request(q.route, q.step, q.expects, q.answer)' /\ q.step = "arrived"
    BY <1>2 DEF Request
  <2> QED
    BY <2>1 DEF RequestOK
<1>4. request' = [request EXCEPT ![s] = q]
  BY <1>1, <1>2, SendIs
<1> QED
  BY <1>1, <1>3, <1>4, OneRequest

\* An answer that shows a run shows it honestly.
LEMMA AnswerHonest ==
  ASSUME PageInv, NEW s \in Slots, Returned(s), ShowsRun(s)
  PROVE  Honest(request[s].answer.run)
BY DEF PageInv, RequestOK, Returned, ShowsRun

LEMMA PageStays ==
  ASSUME PageInv, action' = action, asked' = asked, detail' = detail
  PROVE  ActionOK' /\ AskedOK' /\ DetailOK'
BY DEF PageInv, ActionOK, AskedOK, DetailOK, Action, Mandate

LEMMA TakeRunKeeps ==
  ASSUME PageInv, NEW s \in {"pull", "poll", "manual"}, TakeRun(s) PROVE PageInv'
<1>1. s \in Slots /\ "action" \in Slots
  BY DEF Slots
<1>2. /\ request' = [t \in Slots |-> request'[t]]
      /\ request'[s] = NoRequest
      /\ \A t \in Slots : t # s => request'[t] = request[t]
      /\ \A t \in Slots : request'[t] = request[t] \/ RequestOK(t, request[t])'
  BY <1>1, RequestForgotten DEF TakeRun
<1>3. Honest(view')
  BY <1>1, AnswerHonest DEF TakeRun, Accepts, PageInv
<1>4. UNCHANGED serverVars /\ asked' = asked /\ detail' = detail
  BY DEF TakeRun, worldVars
<1>5. CASE s # "pull"
  <2>1. action' = action
    BY <1>5 DEF TakeRun
  <2> QED
    BY <1>2, <1>3, <1>4, <2>1, PageStays, BrowserKeeps
<1>6. CASE s = "pull"
  <2>1. action.step = "refreshing"
    BY <1>1, <1>6 DEF PageInv, RequestOK, TakeRun, Returned
  <2>2. request["action"].step = "idle"
    BY <1>1, <2>1 DEF PageInv, RequestOK
  <2>3. \A t \in {"action", "pull"} : request[t].step = "idle" \/ RequestOK(t, request[t])'
    BY <1>2, <1>6, <2>2, NoRequestOK
  <2>4. action' = Action("idle", 0, None, None)
    BY <1>6 DEF TakeRun, NoAction, Action
  <2>5. ActionOK' /\ AskedOK' /\ DetailOK'
    BY <1>4, <2>4 DEF PageInv, ActionOK, AskedOK, DetailOK, Action, Mandate
  <2> QED
    BY <1>2, <1>3, <1>4, <2>3, <2>5, BrowserKeeps
<1> QED
  BY <1>5, <1>6

LEMMA ControllerKeeps == ASSUME PageInv, Controller PROVE PageInv'
<1>1. {"poll", "manual", "left"} \subseteq Slots
  BY DEF Slots
<1>2. CASE \E s \in {"pull", "poll", "manual"} : TakeRun(s)
  BY <1>2, TakeRunKeeps
<1>3. CASE AskManually \/ AskElsewhere \/ TakeCancellation \/ PollTimer \/ TakeTracked
  <2>1. UNCHANGED serverVars /\ action' = action /\ asked' = asked /\ detail' = detail
    BY <1>3 DEF AskManually, AskElsewhere, TakeCancellation, PollTimer, TakeTracked,
       sectionVars, worldVars
  <2>2. \/ \E s \in {"poll", "manual"} : request' = [request EXCEPT ![s] = NoRequest]
        \/ \E s \in {"poll", "manual", "left"} : \E route, e : request' = Send(s, route, e)
    BY <1>3 DEF AskManually, AskElsewhere, TakeCancellation, PollTimer, TakeTracked
  <2>3. /\ request' = [t \in Slots |-> request'[t]]
        /\ \A t \in Slots : request'[t] = request[t] \/ RequestOK(t, request[t])'
    BY <1>1, <2>2, RequestForgotten, ControllerSends
  <2>4. Honest(view')
    BY <1>1, <1>3, AnswerHonest
    DEF AskManually, AskElsewhere, TakeCancellation, PollTimer, TakeTracked, Accepts, PageInv
  <2> QED
    BY <2>1, <2>3, <2>4, PageStays, BrowserKeeps
<1> QED
  BY <1>2, <1>3 DEF Controller

-----------------------------------------------------------------------------
(* The button's steps *)

\* While the page does not refresh, no GET of the button is on its way.
LEMMA PullIdle ==
  ASSUME PageInv, action.step # "refreshing" PROVE request["pull"].step = "idle"
BY DEF PageInv, RequestOK, Slots

\* While the button does nothing, holds an envelope or waits for the wallet, it has
\* no request on its way.
LEMMA ActionIdle ==
  ASSUME PageInv, action.step \notin {"asking", "reporting"}
  PROVE  request["action"].step = "idle"
BY DEF PageInv, RequestOK, Slots

\* The button sends a request that is in order.
LEMMA ButtonSends ==
  ASSUME PageInv, UNCHANGED serverVars, view' = view, action.step # "refreshing",
         NEW route, NEW e, request' = Send("action", route, e),
         action'.step = IF route \in {"prepare", "execute"} THEN "asking" ELSE "reporting",
         route = "execute" => e \in Nat /\ e <= rev /\ (e = rev => action'.review = Review),
         ActionOK', AskedOK', DetailOK'
  PROVE  PageInv'
<1>1. "action" \in Slots /\ "pull" \in Slots
  BY DEF Slots
<1>2. PICK q : q = Request(route, "arrived", e, None)
  OBVIOUS
<1>3. rev' = rev /\ Review' = Review
  <2>1. Row' = Row /\ rev' = rev
    BY RowStays DEF serverVars
  <2> QED
    BY <2>1 DEF Review
<1>4. RequestOK("action", q)'
  <2>1. /\ q.step = "arrived" /\ q.route = route /\ q.expects = e
        /\ q = Request(q.route, q.step, q.expects, q.answer)'
    BY <1>2 DEF Request
  <2>2. q.route = "execute" => ExecuteKnows(q)'
    BY <1>3, <2>1 DEF ExecuteKnows
  <2> QED
    BY <2>1, <2>2 DEF RequestOK
<1>5. request' = [request EXCEPT !["action"] = q]
  BY <1>1, <1>2, SendIs
<1>6. /\ request' = [t \in Slots |-> request'[t]]
      /\ \A t \in Slots : t # "action" => request'[t] = request[t]
      /\ \A t \in Slots : request'[t] = request[t] \/ RequestOK(t, request[t])'
  BY <1>1, <1>4, <1>5, OneRequest
<1>7. RequestOK("action", request["action"])'
  <2>1. request'["action"] = q
    BY <1>1, <1>5 DEF PageInv
  <2> QED
    BY <1>4, <2>1
<1> QED
  BY <1>6, <1>7, PullIdle, BrowserKeeps DEF PageInv

\* The click is over, with or without a GET behind it.
LEMMA ClickEnds ==
  ASSUME PageInv, UNCHANGED serverVars, view' = view, asked' = asked,
         action.step # "refreshing",
         \/ Refresh
         \/ action' = NoAction /\ request' = [request EXCEPT !["action"] = NoRequest],
         detail' # None /\ detail'.submission = "NO" => asked = None
  PROVE  PageInv'
<1>1. "action" \in Slots /\ "pull" \in Slots
  BY DEF Slots
<1>2. \/ action' = Action("idle", 0, None, None)
      \/ action' = Action("refreshing", 0, None, None)
  BY DEF Refresh, NoAction, Action
<1>3. ActionOK' /\ AskedOK' /\ DetailOK'
  BY <1>2 DEF PageInv, ActionOK, AskedOK, DetailOK, Action, Mandate
<1>4. CASE action' = NoAction /\ request' = [request EXCEPT !["action"] = NoRequest]
  <2>1. /\ request' = [t \in Slots |-> request'[t]]
        /\ request'["action"] = NoRequest
        /\ \A t \in Slots : request'[t] = request[t] \/ RequestOK(t, request[t])'
    BY <1>1, <1>4, RequestForgotten
  <2>2. RequestOK("action", request["action"])'
    BY <2>1, NoRequestOK
  <2> QED
    BY <1>3, <2>1, <2>2, PullIdle, BrowserKeeps DEF PageInv
<1>5. CASE Refresh
  <2>1. PICK q : q = Request("get", "arrived", view.rev, None)
    OBVIOUS
  <2>2. request' = [[request EXCEPT !["pull"] = q] EXCEPT !["action"] = NoRequest]
    BY <1>1, <1>5, <2>1, SendIs DEF Refresh
  <2>3. action'.step = "refreshing"
    BY <1>5 DEF Refresh, NoAction
  <2>4. RequestOK("pull", q)'
    <3>1. q.step = "arrived" /\ q = Request(q.route, q.step, q.expects, q.answer)'
      BY <2>1 DEF Request
    <3> QED
      BY <2>3, <3>1 DEF RequestOK
  <2>5. /\ request' = [t \in Slots |-> request'[t]]
        /\ request'["pull"] = q /\ request'["action"] = NoRequest
        /\ \A t \in Slots : t \notin {"action", "pull"} => request'[t] = request[t]
    BY <1>1, <2>2 DEF PageInv
  <2>6. RequestOK("pull", request["pull"])' /\ RequestOK("action", request["action"])'
    BY <2>4, <2>5, NoRequestOK
  <2>7. \A t \in Slots : request'[t] = request[t] \/ RequestOK(t, request[t])'
    BY <2>5, <2>6
  <2> QED
    BY <1>3, <2>5, <2>6, <2>7, BrowserKeeps DEF PageInv
<1> QED
  BY <1>4, <1>5

\* What changes no request and leaves the action alone.
LEMMA TalkKeeps ==
  ASSUME PageInv, WalletNotReady \/ Dismiss \/ Remount PROVE PageInv'
<1>1. /\ UNCHANGED serverVars /\ request' = request /\ view' = view /\ action' = action
      /\ asked' = None \/ (asked' = asked /\ detail' = None)
  BY DEF WalletNotReady, Dismiss, Remount, worldVars
<1>2. detail' = None \/ action.step = "idle"
  BY DEF WalletNotReady, Dismiss, Remount, Offered
<1>3. ActionOK' /\ AskedOK' /\ DetailOK'
  BY <1>1, <1>2 DEF PageInv, ActionOK, AskedOK, DetailOK, Action, Mandate
<1> QED
  BY <1>1, <1>3, BrowserKeeps DEF PageInv

LEMMA ClicksKeep ==
  ASSUME PageInv, ClickPrepare \/ ClickExecute PROVE PageInv'
<1>1. /\ UNCHANGED serverVars /\ view' = view /\ action.step = "idle"
      /\ asked' = None /\ detail' = None
  BY DEF ClickPrepare, ClickExecute, Offered
<1>2. AskedOK'
  BY <1>1 DEF AskedOK
<1>3. CASE ClickPrepare
  <2>1. action' = Action("asking", view.rev, None, None)
    <3>1. [NoAction EXCEPT !.step = "asking"] = Action("asking", 0, None, None)
      BY DEF NoAction, Action
    <3>2. [Action("asking", 0, None, None) EXCEPT !.rev = view.rev]
              = Action("asking", view.rev, None, None)
      BY DEF Action
    <3>3. action' = [[NoAction EXCEPT !.step = "asking"] EXCEPT !.rev = view.rev]
      BY <1>3 DEF ClickPrepare
    <3> QED
      BY <3>1, <3>2, <3>3
  <2>2. ActionOK' /\ DetailOK' /\ action'.step = "asking"
    BY <1>1, <2>1 DEF ActionOK, DetailOK, Action
  <2>3. request' = Send("action", "prepare", view.rev)
    BY <1>3 DEF ClickPrepare
  <2> QED
    BY <1>1, <1>2, <2>2, <2>3, ButtonSends
<1>4. CASE ClickExecute
  <2>1. action' = Action("asking", view.rev, view.review, None)
    <3>1. [NoAction EXCEPT !.step = "asking"] = Action("asking", 0, None, None)
      BY DEF NoAction, Action
    <3>2. [Action("asking", 0, None, None) EXCEPT !.rev = view.rev]
              = Action("asking", view.rev, None, None)
      BY DEF Action
    <3>3. [Action("asking", view.rev, None, None) EXCEPT !.review = view.review]
              = Action("asking", view.rev, view.review, None)
      BY DEF Action
    <3>4. action' = [[[NoAction EXCEPT !.step = "asking"] EXCEPT !.rev = view.rev]
                         EXCEPT !.review = view.review]
      BY <1>4 DEF ClickExecute
    <3> QED
      BY <3>1, <3>2, <3>3, <3>4
  <2>2. /\ ActionOK' /\ DetailOK' /\ action'.step = "asking"
        /\ action'.review = view.review
    BY <1>1, <2>1 DEF ActionOK, DetailOK, Action
  <2>3. request' = Send("action", "execute", view.rev)
    BY <1>4 DEF ClickExecute
  <2>4. view.rev \in Nat /\ view.rev <= rev /\ (view.rev = rev => view.review = Review)
    BY DEF PageInv, Honest, Review
  <2> QED
    BY <1>1, <1>2, <2>2, <2>3, <2>4, ButtonSends
<1> QED
  BY <1>3, <1>4

\* The button's request that came back.
LEMMA ActionReturned ==
  ASSUME PageInv, Returned("action")
  PROVE  /\ action.step = IF request["action"].route \in {"prepare", "execute"}
                          THEN "asking" ELSE "reporting"
         /\ request["action"].route = "execute" /\ request["action"].answer.kind = "ENVELOPE" =>
                /\ request["action"].answer.tx = action.review
                /\ Mandate(request["action"].answer.tx)
BY DEF PageInv, RequestOK, ExecuteKnows, Returned, Slots

LEMMA ReportKeeps ==
  ASSUME PageInv, UNCHANGED serverVars, view' = view, asked' = asked, detail' = detail,
         action.step \in {"holding", "sending", "reporting"},
         NEW route \in {"hash", "unknown"}, Report(route)
  PROVE  PageInv'
<1>1. action' = Action("reporting", action.rev, action.review, action.envelope)
  <2>1. action = Action(action.step, action.rev, action.review, action.envelope)
    BY DEF PageInv, ActionOK
  <2>2. action' = [action EXCEPT !.step = "reporting"]
    BY DEF Report
  <2> QED
    BY <2>1, <2>2 DEF Action
<1>2. ActionOK' /\ AskedOK' /\ DetailOK' /\ action'.step = "reporting"
  BY <1>1 DEF PageInv, ActionOK, AskedOK, DetailOK, Action, Mandate
<1>3. request' = Send("action", route, action.rev)
  BY DEF Report
<1> QED
  BY <1>2, <1>3, ButtonSends

LEMMA TakePreparedKeeps == ASSUME PageInv, TakePrepared PROVE PageInv'
<1>1. /\ UNCHANGED serverVars /\ view' = view /\ asked' = asked /\ Refresh
      /\ Returned("action") /\ request["action"].route = "prepare"
  BY DEF TakePrepared, worldVars
<1>2. action.step = "asking" /\ asked = None
  BY <1>1, ActionReturned DEF PageInv, DetailOK
<1> QED
  BY <1>1, <1>2, ClickEnds

LEMMA TakeEnvelopeKeeps == ASSUME PageInv, TakeEnvelope PROVE PageInv'
<1> DEFINE a == request["action"].answer
<1>1. /\ UNCHANGED serverVars /\ view' = view /\ asked' = asked
      /\ Returned("action") /\ request["action"].route = "execute"
  BY DEF TakeEnvelope, worldVars
<1>2. action.step = "asking" /\ asked = None /\ detail = None
  BY <1>1, ActionReturned DEF PageInv, DetailOK
<1>3. CASE a.kind = "ENVELOPE"
  <2>1. a.tx = action.review /\ Mandate(a.tx)
    BY <1>1, <1>3, ActionReturned
  <2>2. /\ action' = [action EXCEPT !.step = "holding", !.rev = a.rev, !.envelope = a.tx]
        /\ request' = [request EXCEPT !["action"] = NoRequest] /\ detail' = detail
    BY <1>3 DEF TakeEnvelope
  <2>3. action' = Action("holding", a.rev, action.review, a.tx)
    <3>1. action = Action(action.step, action.rev, action.review, action.envelope)
      BY DEF PageInv, ActionOK
    <3>2. [action EXCEPT !.step = "holding"]
              = Action("holding", action.rev, action.review, action.envelope)
      BY <3>1 DEF Action
    <3>3. [Action("holding", action.rev, action.review, action.envelope) EXCEPT !.rev = a.rev]
              = Action("holding", a.rev, action.review, action.envelope)
      BY DEF Action
    <3>4. [Action("holding", a.rev, action.review, action.envelope) EXCEPT !.envelope = a.tx]
              = Action("holding", a.rev, action.review, a.tx)
      BY DEF Action
    <3>5. action' = [[[action EXCEPT !.step = "holding"] EXCEPT !.rev = a.rev]
                         EXCEPT !.envelope = a.tx]
      BY <2>2
    <3> QED
      BY <3>2, <3>3, <3>4, <3>5
  <2>4. ActionOK' /\ AskedOK' /\ DetailOK'
    <3> HIDE DEF a
    <3> QED
      BY <1>1, <1>2, <2>1, <2>2, <2>3 DEF ActionOK, AskedOK, DetailOK, Action, Mandate
  <2>5. "action" \in Slots
    BY DEF Slots
  <2>6. /\ request' = [t \in Slots |-> request'[t]]
        /\ request'["action"] = NoRequest
        /\ \A t \in Slots : request'[t] = request[t] \/ RequestOK(t, request[t])'
    BY <2>2, <2>5, RequestForgotten
  <2>7. RequestOK("action", request["action"])'
    BY <2>6, NoRequestOK
  <2> QED
    BY <1>1, <1>2, <2>4, <2>6, <2>7, PullIdle, BrowserKeeps DEF PageInv
<1>4. CASE a.kind # "ENVELOPE"
  BY <1>1, <1>2, <1>4, ClickEnds DEF TakeEnvelope, Fails
<1> QED
  BY <1>3, <1>4

LEMMA AskWalletKeeps == ASSUME PageInv, AskWallet PROVE PageInv'
<1>1. /\ UNCHANGED serverVars /\ view' = view /\ detail' = detail /\ action.step = "holding"
  BY DEF AskWallet
<1>2. CASE Report("unknown") /\ asked' = asked
  BY <1>1, <1>2, ReportKeeps
<1>3. CASE /\ action' = [action EXCEPT !.step = "sending"]
           /\ asked' = [tx |-> action.envelope, shown |-> action.review]
           /\ request' = request
  <2>1. action' = Action("sending", action.rev, action.review, action.envelope)
    <3>1. action = Action(action.step, action.rev, action.review, action.envelope)
      BY DEF PageInv, ActionOK
    <3> QED
      BY <1>3, <3>1 DEF Action
  <2>2. ActionOK' /\ AskedOK' /\ DetailOK'
    BY <1>1, <1>3, <2>1 DEF PageInv, ActionOK, AskedOK, DetailOK, Action, Mandate
  <2>3. request["action"].step = "idle" /\ request["pull"].step = "idle"
    BY <1>1, ActionIdle, PullIdle
  <2> QED
    BY <1>1, <1>3, <2>2, <2>3, BrowserKeeps DEF PageInv
<1> QED
  BY <1>2, <1>3 DEF AskWallet

LEMMA WalletAnswersKeeps == ASSUME PageInv, WalletAnswers PROVE PageInv'
<1>1. /\ UNCHANGED serverVars /\ view' = view /\ detail' = detail /\ asked' = asked
      /\ action.step = "sending" /\ \E route \in {"hash", "unknown"} : Report(route)
  BY DEF WalletAnswers
<1> QED
  BY <1>1, ReportKeeps

LEMMA TakeReportsKeep ==
  ASSUME PageInv, TakeReported \/ TakeUnknownReported PROVE PageInv'
<1>1. /\ UNCHANGED serverVars /\ view' = view /\ asked' = asked
      /\ Returned("action") /\ request["action"].route \in {"hash", "unknown"}
  BY DEF TakeReported, TakeUnknownReported, worldVars
<1>2. action.step = "reporting" /\ detail = None
  BY <1>1, ActionReturned DEF PageInv, DetailOK
<1>3. CASE TakeReported
  <2>1. detail' = detail /\ (Refresh \/ Report("unknown"))
    BY <1>3 DEF TakeReported
  <2> QED
    BY <1>1, <1>2, <2>1, ClickEnds, ReportKeeps
<1>4. CASE TakeUnknownReported
  <2>1. Fails("BROADCAST_OUTCOME_UNKNOWN")
    BY <1>4 DEF TakeUnknownReported
  <2>2. detail'.submission = "UNKNOWN"
    BY <2>1 DEF Fails, Detail
  <2> QED
    BY <1>1, <1>2, <2>1, <2>2, ClickEnds DEF Fails
<1> QED
  BY <1>3, <1>4

\* The request that is left is out of the page's mind.
LEMMA GiveUpKeeps == ASSUME PageInv, GiveUp PROVE PageInv'
<1> DEFINE old == request["action"]
<1>1. /\ UNCHANGED serverVars /\ view' = view /\ action' = action
      /\ asked' = asked /\ detail' = detail
      /\ old.step # "idle" /\ old.step # "answered"
  BY DEF GiveUp, sectionVars
<1>2. "action" \in Slots /\ "left" \in Slots
  BY DEF Slots
<1>3. PICK a : a = Failed("LOST")
  OBVIOUS
<1>4. PICK q : q = Request(old.route, "answered", old.expects, a)
  OBVIOUS
<1>5. PICK l : l = old
  OBVIOUS
<1>6. request' = [[request EXCEPT !["action"] = q] EXCEPT !["left"] = l]
  <2>1. Answered("action", a) = [request EXCEPT !["action"] = q]
    BY <1>2, <1>4, AnsweredIs
  <2>2. request' = [Answered("action", a) EXCEPT !["left"] = l]
    BY <1>3, <1>5 DEF GiveUp
  <2> QED
    BY <2>1, <2>2
<1>7. RequestOK("action", old) /\ RequestOK("left", l)
  BY <1>1, <1>2, <1>5 DEF PageInv, RequestOK
<1>8. RequestOK("left", l)'
  <2>1. Moves /\ rev \in Nat
    BY <1>1, RowStays DEF PageInv
  <2> QED
    BY <1>1, <1>7, <2>1, RequestKept
<1>9. RequestOK("action", q)'
  <2>1. /\ q.route = old.route /\ q.step = "answered" /\ q.answer = a /\ a.kind = "ERROR"
        /\ q = Request(q.route, q.step, q.expects, q.answer)'
    BY <1>3, <1>4 DEF Request, Failed
  <2>2. ExecuteKnows(q)'
    BY <2>1 DEF ExecuteKnows
  <2>3. action.step = IF q.route \in {"prepare", "execute"} THEN "asking" ELSE "reporting"
    BY <1>1, <1>7, <2>1 DEF RequestOK
  <2> HIDE DEF old
  <2> QED
    BY <1>1, <2>1, <2>2, <2>3 DEF RequestOK
<1>10. /\ request' = [t \in Slots |-> request'[t]]
       /\ request'["action"] = q /\ request'["left"] = l
       /\ \A t \in Slots : t \notin {"action", "left"} => request'[t] = request[t]
  BY <1>2, <1>6 DEF PageInv
<1>11. RequestOK("action", request["action"])' /\ RequestOK("left", request["left"])'
  BY <1>8, <1>9, <1>10
<1>12. \A t \in Slots : request'[t] = request[t] \/ RequestOK(t, request[t])'
  BY <1>10, <1>11
<1> QED
  BY <1>1, <1>10, <1>12, PageStays, BrowserKeeps DEF PageInv

-----------------------------------------------------------------------------
(* The promise of the page *)

LEMMA PageInvStarts == ASSUME PageInit PROVE PageInv
<1>1. /\ rev = 0 /\ request = [s \in Slots |-> NoRequest] /\ view = Projection(Row)
      /\ action = NoAction /\ asked = None /\ detail = None
  BY DEF PageInit
<1>2. Honest(view)
  BY <1>1 DEF Honest, Projection, Row, Review
<1>3. \A s \in Slots : RequestOK(s, request[s])
  BY <1>1 DEF RequestOK, NoRequest, Request
<1>4. ActionOK /\ AskedOK /\ DetailOK
  BY <1>1 DEF ActionOK, AskedOK, DetailOK, NoAction, Action
<1>5. request = [s \in Slots |-> request[s]]
  BY <1>1
<1> QED
  BY <1>1, <1>2, <1>3, <1>4, <1>5 DEF PageInv

LEMMA PageStepKeeps == ASSUME PageInv, [PageNext]_pageVars PROVE PageInv'
<1>1. CASE \E s \in Working : Serve(s)
  BY <1>1, PrepareServesKeep, PromoteKeepsPage, EvaluateKeepsPage, RecordPromptKeepsPage,
     ReleaseKeepsPage, OtherServesKeep DEF Serve
<1>2. CASE \/ \E s \in Working \cup {"pull"} : Crash(s)
           \/ \E s \in Slots : Conflict(s) \/ ServeRun(s)
           \/ EndTracking("poll") \/ CancelRun("manual")
  BY <1>2, OtherServesKeep
<1>3. CASE BeginTracking("poll") \/ Poll
  BY <1>3, TrackingKeepsPage
<1>4. CASE Controller
  BY <1>4, ControllerKeeps
<1>5. CASE Section
  BY <1>5, ClicksKeep, TalkKeeps, TakePreparedKeeps, TakeEnvelopeKeeps, AskWalletKeeps,
     WalletAnswersKeeps, TakeReportsKeep, GiveUpKeeps DEF Section
<1>6. CASE UNCHANGED pageVars
  <2>1. /\ UNCHANGED serverVars /\ request' = request /\ view' = view /\ action' = action
        /\ asked' = asked /\ detail' = detail
    BY <1>6 DEF pageVars, sectionVars, worldVars
  <2> QED
    BY <2>1, PageStays, BrowserKeeps DEF PageInv
<1> QED
  BY <1>1, <1>2, <1>3, <1>4, <1>5, <1>6 DEF PageNext, Server

\* Whoever still has the current revision has seen the current transaction.
THEOREM PageHonest == PageSpec => []PageInv
<1>1. PageInit => PageInv
  BY PageInvStarts
<1>2. PageInv /\ [PageNext]_pageVars => PageInv'
  BY PageStepKeeps
<1> QED
  BY <1>1, <1>2, PTL DEF PageSpec

\* What you see is what you sign: the wallet is asked for the transaction that was
\* shown, whatever the requests of the page, its timer, the user and a process that
\* died do in between.
THEOREM SeenIsSent == PageSpec => []ReviewedIsSent
<1>1. PageInv => ReviewedIsSent
  BY DEF PageInv, AskedOK, ReviewedIsSent
<1> QED
  BY <1>1, PageHonest, PTL

\* And that transaction is the approved mandate, whatever Brickken prepared.
THEOREM OnlyTheMandate == PageSpec => []ReleasedIsMandate
<1>1. PageInv => ReleasedIsMandate
  BY DEF PageInv, AskedOK, ReleasedIsMandate, Mandate
<1> QED
  BY <1>1, PageHonest, PTL

\* The page says that nothing was submitted only when the wallet was never asked.
THEOREM SaysTheTruth == PageSpec => []NoSubmissionIsTrue
<1>1. PageInv => NoSubmissionIsTrue
  BY DEF PageInv, DetailOK, NoSubmissionIsTrue
<1> QED
  BY <1>1, PageHonest, PTL

-----------------------------------------------------------------------------
(* The row accounts for what Brickken made *)

\* A refusal is an answer to a request that made nothing, and what is recorded as
\* prepared was made.
LEMMA RefusedOrMade ==
  ASSUME NEW a \in AnswersNow, ledger.last \in 0..1
  PROVE  /\ Definite(FailureOf(a)) => ledger.last = 0
         /\ Prepares(a) => ledger.last = 1
<1>1. a \in PrepareAnswers /\ ledger.last \in BrickkenMade(a)
  BY DEF AnswersNow
<1>2. ASSUME Definite(FailureOf(a)) PROVE ledger.last = 0
  <2>1. a.came = "ANSWER" /\ Definite(RefusalCode(a))
    BY <1>1, <1>2, AnswerAssumption DEF FailureOf, ErrorCode, Definite
  <2>2. a.status \in {400, 401, 402, 403, 422}
    BY <2>1, SMTT(30) DEF Definite, RefusalCode
  <2>3. a.came = "ANSWER" /\ a.status \in {400, 401, 402, 403, 422, 429}
    BY <2>1, <2>2
  <2>4. BrickkenMade(a) = {0}
    BY <2>3, Zenon DEF BrickkenMade
  <2> QED
    BY <1>1, <2>4
<1>3. ASSUME Prepares(a) PROVE ledger.last = 1
  <2>1. /\ a.came = "ANSWER" /\ a.status = 200 /\ a.form = "JSON"
        /\ a.status \notin {400, 401, 402, 403, 422, 429}
    BY <1>3 DEF Prepares
  <2>2. BrickkenMade(a) = {1}
    BY <2>1 DEF BrickkenMade
  <2> QED
    BY <1>1, <2>2
<1> QED
  BY <1>2, <1>3

LEMMA SupersededIs ==
  ASSUME IInv
  PROVE  /\ Superseded \in Nat
         /\ attempts[Op] = << >> => Superseded = 0
         /\ attempts[Op] # << >> => Superseded = Len(attempts[Op]) - 1
<1>1. attempts[Op] \in Seq(AttemptStates)
  BY OpIsKind DEF IInv, TypeOK
<1>2. Len(attempts[Op]) \in Nat /\ (attempts[Op] # << >> => Len(attempts[Op]) # 0)
  BY <1>1, EmptySeq, LenProperties
<1> QED
  BY <1>2 DEF Superseded

NotStanding == {"NOT_STARTED", "PREPARE_INTENT", "REPREPARE_INTENT", "PREPARE_UNKNOWN",
                "REJECTED"}

\* A step that changes no preparation changes no count.
LEMMA CountsStay ==
  ASSUME LedgerInv, ledger' = ledger, Superseded' = Superseded,
         \/ stage'[Op] = stage[Op]
         \/ stage[Op] \notin NotStanding /\ stage'[Op] \notin NotStanding
  PROVE  LedgerInv'
<1>1. /\ Stands' <=> Stands
      /\ InDoubt' <=> InDoubt
      /\ stage'[Op] \in {"PREPARE_INTENT", "REPREPARE_INTENT"} <=>
             stage[Op] \in {"PREPARE_INTENT", "REPREPARE_INTENT"}
  BY DEF Stands, InDoubt, NotStanding
<1> QED
  BY <1>1 DEF LedgerInv, AccountsForBrickken, Recorded

\* Brickken is asked: what the row recorded stays recorded.
LEMMA CountsAsked ==
  ASSUME LedgerInv, BrickkenActs, Superseded \in Nat,
         stage'[Op] \in {"PREPARE_INTENT", "REPREPARE_INTENT"},
         \/ stage[Op] = "NOT_STARTED" /\ Superseded' = Superseded
         \/ stage[Op] = "PREPARED_STALE" /\ Superseded' = Superseded + 1
  PROVE  LedgerInv'
<1>1. PICK n \in 0..1 : ledger' = [ledger EXCEPT !.made = @ + n, !.last = n]
  BY DEF BrickkenActs
<1>2. ledger \in Ledgers
  BY DEF LedgerInv
<1>3. /\ ledger' \in Ledgers /\ ledger'.interrupted = ledger.interrupted
      /\ ledger'.last = n
      /\ ledger'.made = ledger.made + n
  <2>1. ledger.made \in Nat /\ ledger.made + n \in Nat
    BY <1>2 DEF Ledgers
  <2>2. ledger' = [made |-> ledger.made + n, last |-> n, interrupted |-> ledger.interrupted]
    BY <1>1, <1>2 DEF Ledgers
  <2> QED
    BY <1>2, <2>1, <2>2 DEF Ledgers
<1>4. Recorded \in Nat /\ Recorded' = Recorded
  <2>1. CASE stage[Op] = "NOT_STARTED" /\ Superseded' = Superseded
    BY <2>1 DEF Recorded, Stands
  <2>2. CASE stage[Op] = "PREPARED_STALE" /\ Superseded' = Superseded + 1
    BY <2>2 DEF Recorded, Stands
  <2> QED
    BY <2>1, <2>2
<1>5. Recorded <= ledger.made /\ ledger.made <= Recorded + ledger.interrupted
  <2>1. ledger.made \in Nat /\ ledger.interrupted \in Nat
    BY <1>2 DEF Ledgers
  <2>2. ~InDoubt
    BY DEF InDoubt
  <2>3. AccountsForBrickken
    BY DEF LedgerInv
  <2> QED
    BY <1>4, <2>1, <2>2, <2>3 DEF AccountsForBrickken
<1>6. InDoubt'
  BY DEF InDoubt
<1> QED
  BY <1>2, <1>3, <1>4, <1>5, <1>6 DEF LedgerInv, AccountsForBrickken, Ledgers

\* The answer is taken: recorded, refused, in doubt, or interrupted.
LEMMA CountsAnswered ==
  ASSUME LedgerInv, Superseded \in Nat, Superseded' = Superseded,
         stage[Op] \in {"PREPARE_INTENT", "REPREPARE_INTENT"},
         \/ stage'[Op] = "PREPARED" /\ ledger.last = 1 /\ ledger' = ledger
         \/ stage'[Op] = "REJECTED" /\ ledger.last = 0 /\ ledger' = ledger
         \/ stage'[Op] = "PREPARE_UNKNOWN" /\ ledger' = ledger
         \/ /\ stage'[Op] = "NOT_STARTED"
            /\ ledger' = [ledger EXCEPT !.interrupted = @ + 1]
  PROVE  LedgerInv'
<1>1. ledger \in Ledgers
  BY DEF LedgerInv
<1>2. /\ ledger' \in Ledgers /\ ledger'.made = ledger.made
      /\ ledger'.interrupted =
             ledger.interrupted + (IF stage'[Op] = "NOT_STARTED" THEN 1 ELSE 0)
  BY <1>1 DEF Ledgers
<1>3. /\ Recorded \in Nat
      /\ Recorded' = Recorded + (IF stage'[Op] = "PREPARED" THEN 1 ELSE 0)
      /\ InDoubt' <=> stage'[Op] = "PREPARE_UNKNOWN"
  BY DEF Recorded, Stands, InDoubt
<1>4. /\ Recorded <= ledger.made - ledger.last
      /\ ledger.made - ledger.last <= Recorded + ledger.interrupted
  BY DEF LedgerInv
<1>5. AccountsForBrickken'
  BY <1>1, <1>2, <1>3, <1>4 DEF AccountsForBrickken, Ledgers
<1> QED
  BY <1>2, <1>5 DEF LedgerInv

\* What the run does besides preparing.
PreparesNothing ==
    \/ Promote(Op) \/ Cancel \/ MarkPreparedStale(Op)
    \/ RecordWalletPrompt(Op) \/ DropPromptAndMarkStale(Op)
    \/ ReleaseSendAuthority(Op) \/ RecordBroadcastUnknown(Op)
    \/ \E h \in Hashes : RecordBroadcastHash(Op, h)
    \/ ReserveTracking(Op)
    \/ SeeTransaction \/ SeeReceipt \/ TakeCorrelation \/ TakeStatus \/ ReadBack
    \/ BeginCorrelation(Op) \/ AuthorizeCorrelationRetry(Op) \/ ExhaustCorrelation(Op)

LEMMA PreparationStands ==
  ASSUME IInv, PreparesNothing
  PROVE  /\ Superseded' = Superseded
         /\ \/ stage'[Op] = stage[Op]
            \/ stage[Op] \notin NotStanding /\ stage'[Op] \notin NotStanding
<1>1. /\ TypeOK /\ stage \in [Kinds -> Stages] /\ Op \in Kinds
      /\ WalletShape(Op) /\ ChainShape(Op)
  BY OpIsKind DEF IInv, TypeOK
<1>2. ASSUME attempts' = attempts PROVE Superseded' = Superseded
  BY <1>2 DEF Superseded
<1>3. CASE Promote(Op)
  <2>1. attempts[Op] = << >> /\ attempts' = [attempts EXCEPT ![Op] = <<"PREPARED">>]
    BY <1>1, <1>3 DEF Promote, IInv, SchemaShape
  <2>2. attempts'[Op] = <<"PREPARED">>
    BY <1>1, <2>1 DEF TypeOK
  <2>3. Superseded = 0 /\ Superseded' = 0
    BY <2>1, <2>2 DEF Superseded
  <2> QED
    BY <1>3, <2>3 DEF Promote
<1>4. CASE MarkPreparedStale(Op) \/ DropPromptAndMarkStale(Op)
  <2>1. /\ stage[Op] \in {"PREPARED", "WALLET_PROMPT_RECORDED"} /\ schema = "4.0"
        /\ stage' = [stage EXCEPT ![Op] = "PREPARED_STALE"]
        /\ attempts' = SetActiveAttempt(Op, "STALE")
    BY <1>4 DEF MarkPreparedStale, DropPromptAndMarkStale, PromptUnspent, WalletStep, ActiveV4
  <2>2. attempts[Op] # << >>
    BY <1>1, <2>1 DEF WalletShape
  <2>3. Len(attempts'[Op]) = Len(attempts[Op]) /\ attempts'[Op] # << >>
    BY <1>1, <2>1, <2>2, ActiveAttemptReplaced DEF AttemptStates
  <2>4. Superseded' = Superseded
    BY <2>2, <2>3 DEF Superseded
  <2> QED
    BY <1>1, <2>1, <2>4 DEF NotStanding
<1>5. CASE RecordWalletPrompt(Op) \/ ReleaseSendAuthority(Op)
  BY <1>1, <1>2, <1>5 DEF RecordWalletPrompt, ReleaseSendAuthority, PromptUnspent, WalletStep,
     NotStanding
<1>6. CASE RecordBroadcastUnknown(Op) \/ \E h \in Hashes : RecordBroadcastHash(Op, h)
  <2>1. PICK to \in {"BROADCAST_UNKNOWN", "BROADCAST_HASH_PERSISTED"} :
            /\ HoldsAuthority(Op) /\ attempts' = attempts
            /\ stage' = [stage EXCEPT ![Op] = to]
    BY <1>6 DEF RecordBroadcastUnknown, RecordBroadcastHash, WalletStep
  <2>2. stage[Op] \notin NotStanding
    BY <2>1 DEF HoldsAuthority, NotStanding
  <2> QED
    BY <1>1, <1>2, <2>1, <2>2 DEF NotStanding
<1>7. CASE Cancel \/ ReserveTracking(Op)
  BY <1>2, <1>7 DEF Cancel, ReserveTracking, walletVars
<1>8. CASE SeeTransaction
  BY <1>1, <1>2, <1>8 DEF SeeTransaction, VerifyTransaction, EvidenceStep, NotStanding
<1>9. CASE SeeReceipt \/ TakeStatus
  BY <1>2, <1>9 DEF SeeReceipt, TakeStatus, RecordReceipt, RecordStatus,
     RecordStatusContradiction, EvidenceStep
<1>10. CASE \/ TakeCorrelation \/ BeginCorrelation(Op) \/ AuthorizeCorrelationRetry(Op)
            \/ ExhaustCorrelation(Op)
  <2>1. attempts' = attempts
    BY <1>10 DEF TakeCorrelation, BeginCorrelation, AuthorizeCorrelationRetry,
       ExhaustCorrelation, RecordCorrelationUncertain, RecordCorrelated, RefuseCorrelation,
       CorrelationStep
  <2>2. \/ stage' = stage
        \/ /\ stage[Op] \in {"RPC_TRANSACTION_VERIFIED", "POLICY_VIOLATION_ONCHAIN",
                            "BRICKKEN_CORRELATION_PENDING"}
           /\ \E to \in {"BRICKKEN_CORRELATION_PENDING", "BRICKKEN_CORRELATED"} :
                 stage' = [stage EXCEPT ![Op] = to]
    BY <1>10 DEF TakeCorrelation, BeginCorrelation, AuthorizeCorrelationRetry,
       ExhaustCorrelation, RecordCorrelationUncertain, RecordCorrelated, RefuseCorrelation,
       CorrelationAuthorized
  <2> QED
    BY <1>1, <1>2, <2>1, <2>2 DEF NotStanding
<1>11. CASE ReadBack
  BY <1>1, <1>2, <1>11 DEF ReadBack, RecordTokenIdentity, ReadBackStep, ReadBackReady,
     RecordReadBackMismatch, walletVars, NotStanding, Op
<1> QED
  BY <1>3, <1>4, <1>5, <1>6, <1>7, <1>8, <1>9, <1>10, <1>11 DEF PreparesNothing

LEMMA AskedKeeps ==
  ASSUME IInv, LedgerInv, BrickkenActs, BeginPrepare(Op) \/ BeginReprepare(Op)
  PROVE  LedgerInv'
<1>1. /\ TypeOK /\ stage \in [Kinds -> Stages] /\ Op \in Kinds
      /\ WalletShape(Op)
  BY OpIsKind DEF IInv, TypeOK
<1>2. Superseded \in Nat
  BY SupersededIs
<1>3. CASE BeginPrepare(Op)
  <2>1. /\ stage[Op] = "NOT_STARTED" /\ stage'[Op] = "PREPARE_INTENT"
        /\ attempts' = attempts
    BY <1>1, <1>3 DEF BeginPrepare, PrepareStep
  <2>2. Superseded' = Superseded
    BY <2>1 DEF Superseded
  <2> QED
    BY <1>2, <2>1, <2>2, CountsAsked
<1>4. CASE BeginReprepare(Op)
  <2>1. /\ stage[Op] = "PREPARED_STALE" /\ stage'[Op] = "REPREPARE_INTENT"
        /\ attempts' = [attempts EXCEPT ![Op] = Append(@, "REPREPARE_INTENT")]
        /\ schema = "4.0"
    BY <1>1, <1>4 DEF BeginReprepare, WalletStep, ActiveV4
  <2>2. attempts[Op] # << >>
    BY <1>1, <2>1 DEF WalletShape
  <2>3. attempts'[Op] # << >> /\ Len(attempts'[Op]) = Len(attempts[Op]) + 1
    BY <1>1, <2>1, AttemptAppended DEF AttemptStates
  <2>4. Superseded' = Superseded + 1
    BY <2>2, <2>3, <1>2, SupersededIs DEF Superseded
  <2> QED
    BY <1>2, <2>1, <2>4, CountsAsked
<1> QED
  BY <1>3, <1>4

LEMMA TakeFirstKeeps ==
  ASSUME IInv, LedgerInv, NEW s \in Working, TakeFirst(s) PROVE LedgerInv'
<1>1. stage \in [Kinds -> Stages] /\ Op \in Kinds /\ Superseded \in Nat
  BY OpIsKind, SupersededIs DEF IInv, TypeOK
<1>2. PICK a \in AnswersNow :
          \/ Prepares(a) /\ RecordPrepared(Op) /\ ledger' = ledger
          \/ Definite(FailureOf(a)) /\ RecordPrepareFailure(Op) /\ ledger' = ledger
          \/ /\ RecordPrepareInterrupted(Op)
             /\ ledger' = [ledger EXCEPT !.interrupted = @ + 1]
          \/ RecordPrepareUnknown(Op) /\ ledger' = ledger
  BY DEF TakeFirst
<1>3. stage[Op] = "PREPARE_INTENT" /\ attempts' = attempts
  BY <1>2 DEF RecordPrepared, RecordPrepareFailure, RecordPrepareInterrupted,
     RecordPrepareUnknown, PrepareStep
<1>4. \/ stage'[Op] = "PREPARED" /\ Prepares(a) /\ ledger' = ledger
      \/ stage'[Op] = "REJECTED" /\ Definite(FailureOf(a)) /\ ledger' = ledger
      \/ stage'[Op] = "PREPARE_UNKNOWN" /\ ledger' = ledger
      \/ stage'[Op] = "NOT_STARTED" /\ ledger' = [ledger EXCEPT !.interrupted = @ + 1]
  BY <1>1, <1>2 DEF RecordPrepared, RecordPrepareFailure, RecordPrepareInterrupted,
     RecordPrepareUnknown, PrepareStep
<1>5. /\ Definite(FailureOf(a)) => ledger.last = 0
      /\ Prepares(a) => ledger.last = 1
  BY RefusedOrMade DEF LedgerInv, Ledgers
<1>6. Superseded' = Superseded
  BY <1>3 DEF Superseded
<1> QED
  BY <1>1, <1>3, <1>4, <1>5, <1>6, CountsAnswered

LEMMA TakeSecondKeeps ==
  ASSUME IInv, LedgerInv, NEW s \in Working, TakeSecond(s) PROVE LedgerInv'
<1>1. TypeOK /\ stage \in [Kinds -> Stages] /\ Op \in Kinds /\ Superseded \in Nat
  BY OpIsKind, SupersededIs DEF IInv, TypeOK
<1>2. ledger' = ledger
  BY DEF TakeSecond
<1>3. PICK a \in AnswersNow :
          \/ Prepares(a) /\ RecordReprepared(Op)
          \/ Definite(FailureOf(a)) /\ RecordReprepareRefused(Op)
          \/ RecordReprepareUnknown(Op)
  BY DEF TakeSecond
<1>4. PICK state \in AttemptStates :
          /\ stage[Op] = "REPREPARE_INTENT" /\ schema = "4.0"
          /\ attempts' = SetActiveAttempt(Op, state)
          /\ \/ stage'[Op] = "PREPARED" /\ Prepares(a)
             \/ stage'[Op] = "REJECTED" /\ Definite(FailureOf(a))
             \/ stage'[Op] = "PREPARE_UNKNOWN"
  BY <1>1, <1>3 DEF RecordReprepared, RecordReprepareRefused, RecordReprepareUnknown,
     EndReprepare, WalletStep, ActiveV4, AttemptStates
<1>5. /\ Definite(FailureOf(a)) => ledger.last = 0
      /\ Prepares(a) => ledger.last = 1
  BY RefusedOrMade DEF LedgerInv, Ledgers
<1>6. attempts[Op] # << >>
  BY <1>1, <1>4 DEF IInv, WalletShape
<1>7. Len(attempts'[Op]) = Len(attempts[Op]) /\ attempts'[Op] # << >>
  BY <1>1, <1>4, <1>6, ActiveAttemptReplaced
<1>8. Superseded' = Superseded
  BY <1>6, <1>7 DEF Superseded
<1> QED
  BY <1>1, <1>2, <1>4, <1>5, <1>8, CountsAnswered

LEMMA LedgerKept ==
  ASSUME IInv, IInv', LedgerInv, [PageNext]_pageVars PROVE LedgerInv'
<1>1. ASSUME ledger' = ledger, PreparesNothing \/ UNCHANGED vars
      PROVE  LedgerInv'
  <2>1. CASE PreparesNothing
    BY <1>1, <2>1, PreparationStands, CountsStay
  <2>2. CASE UNCHANGED vars
    <3>1. Superseded' = Superseded /\ stage'[Op] = stage[Op]
      BY <2>2 DEF vars, walletVars, Superseded
    <3> QED
      BY <1>1, <3>1, CountsStay
  <2> QED
    BY <1>1, <2>1, <2>2
<1>2. ASSUME NEW s \in Working, Serve(s)
      PROVE  LedgerInv'
  <2>1. CASE AskBrickken(s) \/ AskBrickkenAgain(s)
    BY <2>1, AskedKeeps DEF AskBrickken, AskBrickkenAgain
  <2>2. CASE TakeFirst(s)
    BY <2>2, TakeFirstKeeps
  <2>3. CASE TakeSecond(s)
    BY <2>3, TakeSecondKeeps
  <2>4. CASE RefuseToPrepare(s)
    BY <1>1, <2>4 DEF RefuseToPrepare, OnlyAnswers, serverVars, runState
  <2>5. CASE PromoteRun(s)
    BY <1>1, <2>5 DEF PromoteRun, OnlyAnswers, serverVars, runState, PreparesNothing
  <2>6. CASE Evaluate(s)
    BY <1>1, <2>6 DEF Evaluate, GoOn, StaleAndAnswer, OnlyAnswers, serverVars, runState,
       PreparesNothing
  <2>7. CASE RecordPrompt(s)
    BY <1>1, <2>7 DEF RecordPrompt, StaleAndAnswer, OnlyAnswers, serverVars, runState,
       PreparesNothing
  <2>8. CASE ReleaseEnvelope(s)
    BY <1>1, <2>8 DEF ReleaseEnvelope, OnlyAnswers, serverVars, runState, PreparesNothing
  <2>9. CASE IngestReport(s)
    BY <1>1, <2>9 DEF IngestReport, PreparesNothing
  <2> QED
    BY <1>2, <2>1, <2>2, <2>3, <2>4, <2>5, <2>6, <2>7, <2>8, <2>9 DEF Serve
<1>3. CASE \/ \E s \in Working \cup {"pull"} : Crash(s)
           \/ \E s \in Slots : Conflict(s) \/ ServeRun(s)
           \/ EndTracking("poll")
  BY <1>1, <1>3 DEF Crash, Conflict, ServeRun, EndTracking, OnlyAnswers, serverVars, runState
<1>4. CASE BeginTracking("poll")
  BY <1>1, <1>4 DEF BeginTracking, GoOn, OnlyAnswers, serverVars, runState, PreparesNothing
<1>5. CASE CancelRun("manual")
  BY <1>1, <1>5 DEF CancelRun, OnlyAnswers, serverVars, runState, PreparesNothing
<1>6. CASE Poll
  BY <1>1, <1>6 DEF Poll, PreparesNothing
<1>7. CASE Controller \/ Section
  BY <1>1, <1>7, BrowserKeepsServer DEF serverVars, runState
<1>8. CASE UNCHANGED pageVars
  BY <1>1, <1>8 DEF pageVars, serverVars, runState
<1> QED
  BY <1>2, <1>3, <1>4, <1>5, <1>6, <1>7, <1>8 DEF PageNext, Server

THEOREM LedgerInvariant == PageSpec => []LedgerInv
<1>1. PageInit => LedgerInv
  <2> SUFFICES ASSUME PageInit PROVE LedgerInv
    OBVIOUS
  <2>1. /\ ledger = Nothing /\ Nothing \in Ledgers
        /\ stage[Op] = "NOT_STARTED" /\ attempts[Op] = << >>
    BY OpIsKind DEF PageInit, Nothing, Ledgers
  <2>2. Recorded = 0 /\ ~InDoubt
    BY <2>1 DEF Recorded, Superseded, Stands, InDoubt
  <2> QED
    BY <2>1, <2>2 DEF LedgerInv, AccountsForBrickken, Nothing
<1>2. IInv /\ IInv' /\ LedgerInv /\ [PageNext]_pageVars => LedgerInv'
  BY LedgerKept
<1> QED
  BY <1>1, <1>2, PageInvariant, PTL DEF PageSpec

\* Over all its preparations, whatever Brickken answers and whatever of it arrives,
\* Brickken has made for a run what the row recorded, perhaps what its stage leaves
\* in doubt, perhaps one for each interrupted request, and nothing else.
THEOREM RunAccounts == PageSpec => []AccountsForBrickken
<1>1. LedgerInv => AccountsForBrickken
  BY DEF LedgerInv
<1> QED
  BY <1>1, LedgerInvariant, PTL

=============================================================================
