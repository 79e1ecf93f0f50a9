-------------------------- MODULE SubmissionProofs ---------------------------
(***************************************************************************)
(* Proofs about Submission, for any number of requests, tabs and faults:   *)
(* preparations under an intent exclude each other, and whatever is lost or*)
(* interleaved, an operation is sent at most once and the run records only *)
(* what the wallet broadcast: Submission implements OneSend.               *)
(*                                                                         *)
(* Every step of Submission is one of ExecutionRun's, so the run keeps its *)
(* invariant.  The invariant of the tokens is then shown part by part: the *)
(* steps of a request that write, those that only go on, and the steps of  *)
(* the browser and the wallet.                                             *)
(***************************************************************************)
EXTENDS SubmissionInv, ExecutionRunStepProofs, FiniteSetTheorems

-----------------------------------------------------------------------------
(* The beginning *)

LEMMA FirstStart == ASSUME StartOf("TOKENIZE", None) PROVE RunInv
<1>1. /\ schema = "2.0" /\ phase = "TOKENIZATION" /\ status = "PREPARING" /\ outcome = None
      /\ eligible = FALSE /\ tokenIdentity = None /\ reserved = 0 /\ refused = FALSE /\ pollStep = 0
  BY DEF StartOf, PhaseOf
<1>2. \A j \in Kinds : Pristine(j)
  BY DEF StartOf, Pristine
<1>3. TypeOK
  <2>1. /\ attempts = [j \in Kinds |-> << >>] /\ stage = [j \in Kinds |-> "NOT_STARTED"]
        /\ rpc = [j \in Kinds |-> "NONE"] /\ released = [j \in Kinds |-> 0]
        /\ prompt = [j \in Kinds |-> None] /\ hash = [j \in Kinds |-> None]
        /\ receipt = [j \in Kinds |-> None] /\ correlation = [j \in Kinds |-> None]
        /\ statusText = [j \in Kinds |-> None]
    BY DEF StartOf
  <2>2. << >> \in Seq(AttemptStates) /\ Len(<< >>) = 0 /\ 0 <= MaxPreparations
    BY BudgetAssumption
  <2>3. "NOT_STARTED" \in Stages /\ "NONE" \in Comparisons
    BY DEF Stages, PreparationStages, Comparisons
  <2>4. attempts \in [Kinds -> Seq(AttemptStates)] /\ \A j \in Kinds : Len(attempts[j]) <= MaxPreparations
    BY <2>1, <2>2
  <2>5. /\ stage \in [Kinds -> Stages] /\ rpc \in [Kinds -> Comparisons] /\ released \in [Kinds -> Nat]
        /\ prompt \in [Kinds -> Prompts \cup {None}] /\ hash \in [Kinds -> Hashes \cup {None}]
        /\ receipt \in [Kinds -> Receipts \cup {None}]
        /\ correlation \in [Kinds -> Correlations \cup {None}]
        /\ statusText \in [Kinds -> StatusTexts \cup {None}]
    BY <2>1, <2>3
  <2>6. eligible \in BOOLEAN /\ refused \in BOOLEAN
    BY <1>1
  <2>7. reserved \in 0..TrackBudget /\ pollStep \in 0..5
    BY <1>1, BudgetAssumption
  <2>8. /\ schema \in {"2.0", "4.0"} /\ phase \in Phases /\ status \in Statuses
        /\ outcome \in Outcomes \cup {None} /\ tokenIdentity \in Hashes \cup {None}
    BY <1>1 DEF Phases, Statuses
  <2> QED
    BY <2>4, <2>5, <2>6, <2>7, <2>8 DEF TypeOK
<1>4. PhaseShape /\ SchemaShape /\ TokenShape
  BY <1>1, <1>2 DEF PhaseShape, SchemaShape, TokenShape, Pristine, Kinds
<1>5. SuccessInv /\ BlockedInv
  BY <1>1, <1>2 DEF SuccessInv, SuccessMeansVerified, OutcomeShape, BlockedInv, EndedShape,
     WorkShape, AmbiguityShape, Blocked, Pristine
<1> QED
  BY <1>2, <1>3, <1>4, <1>5, PristineHolds DEF RunInv, IInv, Shape

LEMMA LaterStart ==
  ASSUME NEW h \in Hashes, Blocks # {}, Scope = "LEGACY_FULL", StartOf("WHITELIST", h)
  PROVE  RunInv /\ SettledAtFirst("TOKENIZE") /\ Pristine("WHITELIST") /\ Pristine("MINT")
<1> DEFINE b == CHOOSE x \in Blocks : TRUE
           open == [invocation |-> "INVOKED_OR_UNKNOWN", attempt |-> 1]
           good == [execution |-> "SUCCESS", identity |-> "MATCH", finality |-> "FINALIZED",
                    block |-> b]
           linked == [attempt |-> 1, hash |-> h, lifecycle |-> "CORRELATED", count |-> 1,
                      last |-> "AUTHORIZED"]
<1>1. /\ schema = "4.0" /\ phase = "WHITELIST" /\ status = "PREPARING" /\ outcome = None
      /\ eligible = FALSE /\ tokenIdentity = h /\ reserved = 0 /\ refused = FALSE /\ pollStep = 0
  BY DEF StartOf, PhaseOf
<1>2. open \in Prompts /\ good \in Receipts /\ linked \in Correlations
  <2>1. b \in Blocks
    OBVIOUS
  <2> QED
    BY <2>1, BudgetAssumption DEF Prompts, Receipts, Correlations
<1>3. None \notin Prompts \cup Hashes \cup Receipts \cup Correlations
  BY NoneAssumption
<1>4. /\ stage = [j \in Kinds |-> IF j = "TOKENIZE" THEN "READ_BACK_VERIFIED" ELSE "NOT_STARTED"]
      /\ attempts = [j \in Kinds |-> IF j = "TOKENIZE" THEN <<"PREPARED">> ELSE << >>]
      /\ prompt = [j \in Kinds |-> IF j = "TOKENIZE" THEN open ELSE None]
      /\ hash = [j \in Kinds |-> IF j = "TOKENIZE" THEN h ELSE None]
      /\ rpc = [j \in Kinds |-> IF j = "TOKENIZE" THEN "WITHIN_ENVELOPE" ELSE "NONE"]
      /\ receipt = [j \in Kinds |-> IF j = "TOKENIZE" THEN good ELSE None]
      /\ correlation = [j \in Kinds |-> IF j = "TOKENIZE" THEN linked ELSE None]
      /\ statusText = [j \in Kinds |-> None]
      /\ released = [j \in Kinds |-> IF j = "TOKENIZE" THEN 1 ELSE 0]
  BY DEF StartOf, Kinds
<1>5. "TOKENIZE" \in Kinds /\ "WHITELIST" \in Kinds /\ "MINT" \in Kinds
  BY DEF Kinds
<1>6. attempts["TOKENIZE"] = <<"PREPARED">>
  BY <1>4, <1>5
<1>7. SettledAtFirst("TOKENIZE")
  <2>1. /\ attempts["TOKENIZE"] # << >> /\ Len(attempts["TOKENIZE"]) = 1
        /\ attempts["TOKENIZE"][1] = "PREPARED"
    BY <1>6
  <2>2. /\ prompt["TOKENIZE"] = open /\ receipt["TOKENIZE"] = good
        /\ correlation["TOKENIZE"] = linked /\ hash["TOKENIZE"] = h
        /\ stage["TOKENIZE"] = "READ_BACK_VERIFIED" /\ released["TOKENIZE"] = 1
        /\ rpc["TOKENIZE"] = "WITHIN_ENVELOPE"
    BY <1>4, <1>5
  <2>3. /\ prompt["TOKENIZE"] # None /\ receipt["TOKENIZE"] # None
        /\ correlation["TOKENIZE"] # None /\ hash["TOKENIZE"] # None
    <3> HIDE DEF open, good, linked
    <3> QED
      BY <1>2, <1>3, <2>2
  <2> QED
    BY <2>1, <2>2, <2>3 DEF SettledAtFirst
<1>8. Pristine("WHITELIST") /\ Pristine("MINT")
  <2>1. attempts["WHITELIST"] = << >> /\ attempts["MINT"] = << >>
    BY <1>4, <1>5
  <2> QED
    BY <1>4, <1>5, <2>1 DEF Pristine
<1>9. TypeOK
  <2>1. /\ <<"PREPARED">> \in Seq(AttemptStates) /\ Len(<<"PREPARED">>) = 1
        /\ << >> \in Seq(AttemptStates) /\ Len(<< >>) = 0
        /\ 0 <= MaxPreparations /\ 1 <= MaxPreparations
    BY BudgetAssumption DEF AttemptStates
  <2>2. attempts \in [Kinds -> Seq(AttemptStates)] /\ \A j \in Kinds : Len(attempts[j]) <= MaxPreparations
    BY <1>4, <2>1
  <2>3. {"READ_BACK_VERIFIED", "NOT_STARTED"} \subseteq Stages
        /\ {"WITHIN_ENVELOPE", "NONE"} \subseteq Comparisons
    BY DEF Stages, PreparationStages, PromptStages, ReleasedStages, Comparisons
  <2>4. /\ stage \in [Kinds -> Stages] /\ rpc \in [Kinds -> Comparisons] /\ released \in [Kinds -> Nat]
        /\ prompt \in [Kinds -> Prompts \cup {None}] /\ hash \in [Kinds -> Hashes \cup {None}]
        /\ receipt \in [Kinds -> Receipts \cup {None}]
        /\ correlation \in [Kinds -> Correlations \cup {None}]
        /\ statusText \in [Kinds -> StatusTexts \cup {None}]
    <3> HIDE DEF open, good, linked
    <3> QED
      BY <1>2, <1>4, <2>3
  <2>5. eligible \in BOOLEAN /\ refused \in BOOLEAN
    BY <1>1
  <2>6. reserved \in 0..TrackBudget /\ pollStep \in 0..5
    BY <1>1, BudgetAssumption
  <2>7. /\ schema \in {"2.0", "4.0"} /\ phase \in Phases /\ status \in Statuses
        /\ outcome \in Outcomes \cup {None} /\ tokenIdentity \in Hashes \cup {None}
    BY <1>1 DEF Phases, Statuses
  <2> QED
    BY <2>2, <2>4, <2>5, <2>6, <2>7 DEF TypeOK
<1>10. PhaseShape /\ SchemaShape /\ TokenShape
  BY <1>1, <1>4, <1>5, <1>7, <1>8 DEF PhaseShape, SchemaShape, TokenShape, SettledAtFirst, Pristine
<1>11. SuccessInv /\ BlockedInv
  BY <1>1, <1>7, <1>8 DEF SuccessInv, SuccessMeansVerified, OutcomeShape, BlockedInv, EndedShape,
     WorkShape, AmbiguityShape, Blocked, Pristine, SettledAtFirst, Kinds
<1>12. \A j \in Kinds : Shape(j)
  BY <1>7, <1>8, SettledHolds, PristineHolds DEF Kinds
<1> QED
  BY <1>7, <1>8, <1>9, <1>10, <1>11, <1>12 DEF RunInv, IInv, Shape

LEMMA OpIsActive ==
  ASSUME phase \in {"TOKENIZATION", "WHITELIST"}
  PROVE  Op \in Kinds /\ Active(Op)
<1>1. \E k \in Kinds : Active(k)
  BY DEF Active, PhaseOf, Kinds
<1> QED
  BY <1>1 DEF Op

LEMMA OpStays ==
  ASSUME phase' = phase
  PROVE  Op' = Op
<1>1. \A k \in Kinds : Active(k)' <=> Active(k)
  BY DEF Active
<1> QED
  BY <1>1 DEF Op, Active

\* Before the first request nobody holds anything.
LEMMA NobodyYet ==
  ASSUME /\ request = [r \in Requests |-> NoRequest] /\ tab = [t \in Tabs |-> NoTab],
         phase \in {"TOKENIZATION", "WHITELIST"}, WalletOK
  PROVE  SubmissionInv
<1>1. /\ \A r \in Requests : request[r].step = "idle"
      /\ \A t \in Tabs : tab[t].step = "idle"
  BY DEF NoRequest, NoTab
<1>2. NoRequest \in RequestStates /\ NoTab \in TabStates
  BY DEF NoRequest, NoTab, RequestStates, RequestSteps, TabStates, TabSteps
<1>3. ActorTypes
  BY <1>2 DEF ActorTypes
<1> QED
  BY <1>1, <1>3 DEF SubmissionInv, Reporting, ReportsAreDue, EnvelopeIsOne, HashIsBroadcast,
     IntentIsHeld

LEMMA SubmissionStarts == ASSUME SubmissionInit PROVE RunInv /\ SubmissionInv /\ Promise!Init
<1>1. CASE StartOf("TOKENIZE", None)
  <2>1. RunInv
    BY <1>1, FirstStart
  <2>2. \A k \in Kinds : sent[k] = 0 /\ released[k] = 0 /\ hash[k] = None
                         /\ stage[k] = "NOT_STARTED" /\ broadcast[k] = {}
    BY <1>1 DEF StartOf
  <2>3. sent = [k \in Kinds |-> 0] /\ broadcast = [k \in Kinds |-> {}] /\ phase = "TOKENIZATION"
    BY <1>1 DEF StartOf, PhaseOf
  <2>4. WalletOK
    BY <2>2, <2>3 DEF WalletOK
  <2>5. SubmissionInv
    BY <2>3, <2>4, NobodyYet DEF SubmissionInit
  <2>6. \A k \in Kinds : AuthorityOf(k) = "withheld" /\ KnownOf(k) = None
    BY <2>2 DEF AuthorityOf, KnownOf
  <2>7. Promise!Init
    BY <2>3, <2>6 DEF Promise!Init
  <2> QED
    BY <2>1, <2>5, <2>7
<1>2. ASSUME NEW h \in Hashes, Blocks # {}, Scope = "LEGACY_FULL", StartOf("WHITELIST", h)
      PROVE  RunInv /\ SubmissionInv /\ Promise!Init
  <2>1. RunInv /\ SettledAtFirst("TOKENIZE") /\ Pristine("WHITELIST") /\ Pristine("MINT")
    BY <1>2, LaterStart
  <2>2. /\ sent = [k \in Kinds |-> IF k = "TOKENIZE" THEN 1 ELSE 0] /\ released = sent
        /\ broadcast = [k \in Kinds |-> IF k = "TOKENIZE" THEN {h} ELSE {}]
        /\ hash = [k \in Kinds |-> IF k = "TOKENIZE" THEN h ELSE None]
        /\ stage = [k \in Kinds |-> IF k = "TOKENIZE" THEN "READ_BACK_VERIFIED" ELSE "NOT_STARTED"]
        /\ phase = "WHITELIST"
    BY <1>2 DEF StartOf, PhaseOf, Kinds
  <2>3. WalletOK
    BY <2>2 DEF WalletOK
  <2>4. SubmissionInv
    BY <2>2, <2>3, NobodyYet DEF SubmissionInit
  <2>5. \A k \in Kinds : /\ AuthorityOf(k) = IF k = "TOKENIZE" THEN "spent" ELSE "withheld"
                         /\ KnownOf(k) = IF k = "TOKENIZE" THEN h ELSE None
    BY <2>2 DEF AuthorityOf, KnownOf
  <2>6. h # None
    BY NoneAssumption
  <2>7. Promise!Init
    BY <2>2, <2>5, <2>6 DEF Promise!Init
  <2> QED
    BY <2>1, <2>4, <2>7
<1> QED
  BY <1>1, <1>2, PredecessorAssumption DEF SubmissionInit

-----------------------------------------------------------------------------
(* Every step is a step of the run *)

LEMMA SubmissionIsRun ==
  ASSUME ActorTypes, HashIsBroadcast, WalletOK, [SubmissionNext]_allVars
  PROVE  [Next]_vars /\ phase' = phase
<1>0. Op \in Kinds
  BY OpIsActive DEF ActorTypes
<1>1. ASSUME NEW r \in Requests, Prepares(r)
      PROVE  [Next]_vars /\ phase' = phase
  <2>1. CASE AskFirst(r) \/ FirstPrepared(r) \/ FirstNotPrepared(r) \/ PromoteRun(r)
    <3>1. PrepareV2
      BY <1>0, <2>1 DEF AskFirst, FirstPrepared, FirstNotPrepared, PromoteRun, PrepareV2
    <3>2. phase' = phase
      BY <2>1 DEF AskFirst, FirstPrepared, FirstNotPrepared, PromoteRun, BeginPrepare,
         RecordPrepared, RecordPrepareUnknown, RecordPrepareFailure, RecordPrepareInterrupted,
         PrepareStep, Promote
    <3> QED
      BY <3>1, <3>2 DEF Next
  <2>2. CASE LifecyclePrepared(r) \/ AskAgain(r) \/ PreparedAgain(r) \/ NotPreparedAgain(r) \/ TooOld(r)
    <3>1. PrepareV4
      BY <1>0, <2>2 DEF LifecyclePrepared, AskAgain, PreparedAgain, NotPreparedAgain, TooOld, PrepareV4
    <3>2. phase' = phase
      BY <2>2 DEF LifecyclePrepared, AskAgain, PreparedAgain, NotPreparedAgain, TooOld,
         RecordInitialPreparation, BeginReprepare, RecordReprepared, RecordReprepareUnknown,
         RecordReprepareRefused, EndReprepare, MarkPreparedStale, WalletStep
    <3> QED
      BY <3>1, <3>2 DEF Next
  <2>3. CASE AskLifecycle(r) \/ FreshEnough(r)
    BY <2>3 DEF AskLifecycle, FreshEnough, Proceed, runState, vars, runVars
  <2> QED
    BY <1>1, <2>1, <2>2, <2>3 DEF Prepares
<1>2. ASSUME NEW r \in Requests, Releases(r)
      PROVE  [Next]_vars /\ phase' = phase
  <2>1. CASE RecordPrompt(r) \/ FindStale(r) \/ Release(r) \/ MarkStalePrompt(r)
    <3>1. PrepareV4 \/ Wallet
      BY <1>0, <2>1 DEF RecordPrompt, FindStale, Release, MarkStalePrompt, PrepareV4, Wallet
    <3>2. phase' = phase
      BY <2>1 DEF RecordPrompt, FindStale, Release, MarkStalePrompt, RecordWalletPrompt,
         MarkPreparedStale, ReleaseSendAuthority, DropPromptAndMarkStale, WalletStep
    <3> QED
      BY <3>1, <3>2 DEF Next
  <2>2. CASE ThrowOnStalePrompt(r)
    BY <2>2 DEF ThrowOnStalePrompt, Proceed, runState, vars, runVars
  <2> QED
    BY <1>2, <2>1, <2>2 DEF Releases
<1>3. ASSUME NEW r \in Requests, Reports(r)
      PROVE  [Next]_vars /\ phase' = phase
  <2>1. CASE IngestHash(r)
    <3>1. request[r].hash \in Hashes
      BY <1>0, <2>1 DEF IngestHash, HashIsBroadcast, WalletOK
    <3>2. Wallet
      BY <1>0, <2>1, <3>1 DEF IngestHash, Wallet
    <3> QED
      BY <2>1, <3>2 DEF Next, IngestHash, RecordBroadcastHash, WalletStep
  <2>2. CASE IngestUnknown(r)
    BY <1>0, <2>2 DEF IngestUnknown, Next, Wallet, RecordBroadcastUnknown, WalletStep
  <2> QED
    BY <1>3, <2>1, <2>2 DEF Reports
<1>4. ASSUME NEW r \in Requests, CancelRun(r)
      PROVE  [Next]_vars /\ phase' = phase
  BY <1>4 DEF CancelRun, Cancel, Next
<1>5. ASSUME NEW r \in Requests, NEW route \in Routes,
             Conflict(r) \/ Refuse(r) \/ Fail(r) \/ Deliver(r) \/ Arrive(r, route)
      PROVE  UNCHANGED vars
  BY <1>5 DEF Conflict, Refuse, Fail, Deliver, Arrive, Proceed, BrowserStep, runState
<1>6. ASSUME NEW t \in Tabs,
             Click(t) \/ GiveUp(t) \/ Browse(t) \/ PostHash(t) \/ PostUnknown(t) \/ Close(t)
      PROVE  UNCHANGED vars
  BY <1>6 DEF Click, GiveUp, Browse, PostHash, PostUnknown, Post, Close, Invoke, LoseReadiness,
     WalletAnswers, WalletFails, BrowserStep, runState
<1>7. ASSUME (\E h \in Hashes : Confirm(h)) \/ Expire \/ UNCHANGED allVars
      PROVE  UNCHANGED vars
  BY <1>7 DEF Confirm, Expire, BrowserStep, allVars, runState
<1>8. UNCHANGED vars => phase' = phase
  BY DEF vars, runVars
<1> QED
  BY <1>1, <1>2, <1>3, <1>4, <1>5, <1>6, <1>7, <1>8 DEF SubmissionNext, Handle, Routes

-----------------------------------------------------------------------------
(* Steps of a request *)

\* Request r goes on at s.  Of the others, and of the tabs, only freshness changes.
RequestMoves(r, s) ==
    /\ request' \in [Requests -> RequestStates] /\ tab' \in [Tabs -> TabStates]
    /\ \A q \in Requests :
           /\ request'[q].step = IF q = r THEN s ELSE request[q].step
           /\ request'[q].route = request[q].route /\ request'[q].hash = request[q].hash
    /\ \A t \in Tabs : tab'[t].step = tab[t].step /\ tab'[t].hash = tab[t].hash
    /\ UNCHANGED <<sent, broadcast>>

LEMMA WriteMoves ==
  ASSUME ActorTypes, NEW r \in Requests, NEW s \in RequestSteps, Write(r, s)
  PROVE  RequestMoves(r, s)
<1>1. ASSUME NEW q \in Requests
      PROVE  /\ request'[q] \in RequestStates
             /\ request'[q].step = IF q = r THEN s ELSE request[q].step
             /\ request'[q].route = request[q].route /\ request'[q].hash = request[q].hash
  <2>1. request[q] \in RequestStates
    BY DEF ActorTypes
  <2>2. request'[q] = IF q = r THEN [request[r] EXCEPT !.step = s]
                               ELSE [request[q] EXCEPT !.fresh = FALSE]
    BY DEF Write
  <2>3. CASE q = r
    BY <2>1, <2>2, <2>3 DEF RequestStates
  <2>4. CASE q # r
    BY <2>1, <2>2, <2>4 DEF RequestStates
  <2> QED
    BY <2>3, <2>4
<1>2. ASSUME NEW t \in Tabs
      PROVE  tab'[t] \in TabStates /\ tab'[t].step = tab[t].step /\ tab'[t].hash = tab[t].hash
  <2>1. tab[t] \in TabStates /\ tab'[t] = [tab[t] EXCEPT !.fresh = FALSE]
    BY DEF ActorTypes, Write
  <2> QED
    BY <2>1 DEF TabStates
<1>3. request' \in [Requests -> RequestStates] /\ tab' \in [Tabs -> TabStates]
  BY <1>1, <1>2 DEF Write
<1> QED
  BY <1>1, <1>2, <1>3 DEF RequestMoves, Write

LEMMA ProceedMoves ==
  ASSUME ActorTypes, NEW r \in Requests, NEW s \in RequestSteps, Proceed(r, s)
  PROVE  RequestMoves(r, s) /\ UNCHANGED vars
<1>1. ASSUME NEW q \in Requests
      PROVE  /\ request'[q] \in RequestStates
             /\ request'[q].step = IF q = r THEN s ELSE request[q].step
             /\ request'[q].route = request[q].route /\ request'[q].hash = request[q].hash
  <2>1. request[q] \in RequestStates /\ request[r] \in RequestStates
    BY DEF ActorTypes
  <2>2. request'[q] = IF q = r THEN [request[r] EXCEPT !.step = s] ELSE request[q]
    BY DEF Proceed, ActorTypes
  <2>3. CASE q = r
    BY <2>1, <2>2, <2>3 DEF RequestStates
  <2>4. CASE q # r
    BY <2>1, <2>2, <2>4
  <2> QED
    BY <2>3, <2>4
<1>2. request' \in [Requests -> RequestStates]
  BY <1>1 DEF Proceed, ActorTypes
<1> QED
  BY <1>1, <1>2 DEF RequestMoves, Proceed, runState, ActorTypes

\* What concerns the promise did not change.
Quiet ==
    /\ UNCHANGED <<released, hash>>
    /\ \A k \in Kinds : stage'[k] = "BROADCAST_UNKNOWN" <=> stage[k] = "BROADCAST_UNKNOWN"

LEMMA QuietIsStutter ==
  ASSUME Quiet, UNCHANGED <<sent, broadcast>>
  PROVE  UNCHANGED Promise!vars
<1>1. \A k \in Kinds : AuthorityOf(k)' = AuthorityOf(k) /\ KnownOf(k)' = KnownOf(k)
  BY DEF Quiet, AuthorityOf, KnownOf
<1> QED
  BY <1>1 DEF Promise!vars

LEMMA UnchangedIsQuiet == ASSUME UNCHANGED vars PROVE Quiet /\ phase' = phase
BY DEF Quiet, vars, runVars, walletVars, chainVars, logVars

Intents == {"PREPARE_INTENT", "REPREPARE_INTENT"}

UnderIntent == {"askFirst", "askAgain"}

\* A step of request r that gives no envelope, leaves one that exists alone, and keeps
\* or begins an intent.
QuietMove(r, s) ==
    /\ RequestMoves(r, s) /\ s \notin {"envelope", "report"}
    /\ phase' = phase /\ Quiet
    /\ ~HoldsAuthority(Op) \/ UNCHANGED vars
    /\ \/ s \in UnderIntent /\ stage[Op] \notin Intents /\ stage'[Op] = IntentOf[s]
       \/ s \notin UnderIntent
          /\ (stage'[Op] = stage[Op] \/ stage[Op] \notin Intents \/ request[r].step \in UnderIntent)

Tokens == ActorTypes /\ WalletOK /\ ReportsAreDue /\ EnvelopeIsOne /\ HashIsBroadcast

\* What a step of a request does to the tokens if it gives no envelope.
LEMMA MoveKeepsTokens ==
  ASSUME Tokens, NEW r \in Requests, NEW s, RequestMoves(r, s), s \notin {"envelope", "report"},
         phase' = phase, released' = released,
         ~HoldsAuthority(Op) \/ Reporting \/ UNCHANGED vars
  PROVE  Tokens'
<1>1. Op' = Op
  BY OpStays
<1>2. ActorTypes' /\ WalletOK'
  BY DEF Tokens, RequestMoves, ActorTypes, WalletOK
<1>3. Reporting' => Reporting
  BY DEF RequestMoves, Reporting
<1>4. ReportsAreDue' /\ HashIsBroadcast'
  BY <1>1, <1>3 DEF Tokens, RequestMoves, ReportsAreDue, HashIsBroadcast
<1>5. EnvelopeIsOne'
  <2>1. Unspent => Unspent'
    <3>1. CASE UNCHANGED vars
      BY <1>1, <1>3, <3>1 DEF Unspent, HoldsAuthority, RequestMoves, vars, walletVars, chainVars
    <3> QED
      BY <3>1 DEF Unspent
  <2> QED
    BY <2>1 DEF Tokens, RequestMoves, EnvelopeIsOne
<1> QED
  BY <1>2, <1>4, <1>5 DEF Tokens

LEMMA MoveKeepsIntent ==
  ASSUME IntentIsHeld, NEW r \in Requests, NEW s, RequestMoves(r, s), Op' = Op,
         \/ s \in UnderIntent /\ stage[Op] \notin Intents /\ stage'[Op] = IntentOf[s]
         \/ s \notin UnderIntent
            /\ (stage'[Op] = stage[Op] \/ stage[Op] \notin Intents \/ request[r].step \in UnderIntent)
  PROVE  IntentIsHeld'
<1> USE DEF UnderIntent, Intents, IntentOf
<1>1. CASE stage[Op] \notin Intents
  <2>1. \A q \in Requests : request[q].step \notin UnderIntent
    BY <1>1 DEF IntentIsHeld
  <2>2. \A q \in Requests : q # r => request'[q].step \notin UnderIntent
    BY <2>1 DEF RequestMoves
  <2>3. request'[r].step = s
    BY DEF RequestMoves
  <2> QED
    BY <1>1, <2>2, <2>3 DEF IntentIsHeld
<1>2. CASE stage[Op] \in Intents
  <2>1. s \notin UnderIntent
    BY <1>2
  <2>2. \A q \in Requests : request'[q].step \in UnderIntent =>
            q # r /\ request'[q].step = request[q].step
    BY <2>1 DEF RequestMoves
  <2>3. CASE request[r].step \in UnderIntent
    BY <2>2, <2>3 DEF IntentIsHeld
  <2>4. CASE stage'[Op] = stage[Op]
    BY <2>2, <2>4 DEF IntentIsHeld
  <2> QED
    BY <1>2, <2>3, <2>4
<1> QED
  BY <1>1, <1>2

LEMMA QuietMoveKeeps ==
  ASSUME SubmissionInv, NEW r \in Requests, NEW s, QuietMove(r, s)
  PROVE  SubmissionInv' /\ UNCHANGED Promise!vars
<1>1. Tokens'
  BY MoveKeepsTokens DEF SubmissionInv, Tokens, QuietMove, Quiet
<1>2. IntentIsHeld'
  BY MoveKeepsIntent, OpStays DEF SubmissionInv, QuietMove
<1>3. UNCHANGED Promise!vars
  BY QuietIsStutter DEF QuietMove, RequestMoves
<1> QED
  BY <1>1, <1>2, <1>3 DEF Tokens, SubmissionInv

LEMMA StageMoves ==
  ASSUME TypeOK, Op \in Kinds, NEW to, to # "BROADCAST_UNKNOWN",
         stage[Op] # "BROADCAST_UNKNOWN", stage' = [stage EXCEPT ![Op] = to],
         released' = released, hash' = hash
  PROVE  Quiet /\ stage'[Op] = to
BY DEF Quiet, TypeOK

LEMMA ThenIsStep ==
  ASSUME NEW r \in Requests, NEW s \in {"begin", "release"}
  PROVE  Then(r, s) \in {"begin", "release", "ok"}
BY DEF Then

\* A preparation in schema 2.0, and the promotion.
LEMMA FirstPreparationIsQuiet ==
  ASSUME RunInv, SubmissionInv, NEW r \in Requests,
         AskFirst(r) \/ FirstPrepared(r) \/ FirstNotPrepared(r) \/ PromoteRun(r)
  PROVE  \E s \in RequestSteps : QuietMove(r, s)
<1>0. TypeOK /\ ActorTypes /\ Op \in Kinds
  BY OpIsActive DEF RunInv, IInv, SubmissionInv, ActorTypes
<1>1. CASE AskFirst(r)
  <2>1. /\ stage[Op] = "NOT_STARTED" /\ stage' = [stage EXCEPT ![Op] = "PREPARE_INTENT"]
        /\ phase' = phase /\ released' = released /\ hash' = hash /\ Write(r, "askFirst")
    BY <1>1 DEF AskFirst, BeginPrepare, PrepareStep, chainVars, logVars
  <2>2. RequestMoves(r, "askFirst")
    BY <1>0, <2>1, WriteMoves DEF RequestSteps
  <2>3. Quiet /\ stage'[Op] = "PREPARE_INTENT"
    BY <1>0, <2>1, StageMoves
  <2> QED
    BY <2>1, <2>2, <2>3 DEF QuietMove, HoldsAuthority, UnderIntent, Intents, IntentOf, RequestSteps
<1>2. CASE FirstPrepared(r) \/ FirstNotPrepared(r)
  <2>1. PICK to \in {"PREPARED", "PREPARE_UNKNOWN", "REJECTED", "NOT_STARTED"},
             s \in {"begin", "ok", "error"} :
            /\ stage[Op] = "PREPARE_INTENT" /\ stage' = [stage EXCEPT ![Op] = to]
            /\ phase' = phase /\ released' = released /\ hash' = hash
            /\ request[r].step = "askFirst" /\ Write(r, s)
    BY <1>2 DEF FirstPrepared, FirstNotPrepared, Then, RecordPrepared, RecordPrepareUnknown,
       RecordPrepareFailure, RecordPrepareInterrupted, PrepareStep, chainVars, logVars
  <2>2. RequestMoves(r, s)
    BY <1>0, <2>1, WriteMoves DEF RequestSteps
  <2>3. Quiet /\ stage'[Op] = to
    BY <1>0, <2>1, StageMoves
  <2> QED
    BY <2>1, <2>2, <2>3 DEF QuietMove, HoldsAuthority, UnderIntent, RequestSteps
<1>3. CASE PromoteRun(r)
  <2>1. PICK s \in {"begin", "ok"} :
            /\ stage[Op] = "PREPARED" /\ stage' = stage
            /\ phase' = phase /\ released' = released /\ hash' = hash /\ Write(r, s)
    BY <1>3 DEF PromoteRun, Then, Promote, chainVars, logVars
  <2>2. RequestMoves(r, s)
    BY <1>0, <2>1, WriteMoves DEF RequestSteps
  <2> QED
    BY <2>1, <2>2 DEF QuietMove, Quiet, HoldsAuthority, UnderIntent, RequestSteps
<1> QED
  BY <1>1, <1>2, <1>3

\* Preparations in schema 4.0.
LEMMA LaterPreparationIsQuiet ==
  ASSUME RunInv, SubmissionInv, NEW r \in Requests,
         LifecyclePrepared(r) \/ AskAgain(r) \/ PreparedAgain(r) \/ NotPreparedAgain(r) \/ TooOld(r)
  PROVE  \E s \in RequestSteps : QuietMove(r, s)
<1>0. TypeOK /\ ActorTypes /\ Op \in Kinds
  BY OpIsActive DEF RunInv, IInv, SubmissionInv, ActorTypes
<1>1. CASE AskAgain(r)
  <2>1. /\ stage[Op] = "PREPARED_STALE" /\ stage' = [stage EXCEPT ![Op] = "REPREPARE_INTENT"]
        /\ phase' = phase /\ released' = released /\ hash' = hash /\ Write(r, "askAgain")
    BY <1>1 DEF AskAgain, BeginReprepare, WalletStep
  <2>2. RequestMoves(r, "askAgain")
    BY <1>0, <2>1, WriteMoves DEF RequestSteps
  <2>3. Quiet /\ stage'[Op] = "REPREPARE_INTENT"
    BY <1>0, <2>1, StageMoves
  <2> QED
    BY <2>1, <2>2, <2>3 DEF QuietMove, HoldsAuthority, UnderIntent, Intents, IntentOf, RequestSteps
<1>2. CASE PreparedAgain(r) \/ NotPreparedAgain(r)
  <2>1. PICK to \in {"PREPARED", "PREPARE_UNKNOWN", "REJECTED"}, s \in {"release", "ok", "error"} :
            /\ stage[Op] = "REPREPARE_INTENT" /\ stage' = [stage EXCEPT ![Op] = to]
            /\ phase' = phase /\ released' = released /\ hash' = hash
            /\ request[r].step = "askAgain" /\ Write(r, s)
    BY <1>2 DEF PreparedAgain, NotPreparedAgain, Then, RecordReprepared, RecordReprepareUnknown,
       RecordReprepareRefused, EndReprepare, WalletStep
  <2>2. RequestMoves(r, s)
    BY <1>0, <2>1, WriteMoves DEF RequestSteps
  <2>3. Quiet /\ stage'[Op] = to
    BY <1>0, <2>1, StageMoves
  <2> QED
    BY <2>1, <2>2, <2>3 DEF QuietMove, HoldsAuthority, UnderIntent, RequestSteps
<1>3. CASE LifecyclePrepared(r) \/ TooOld(r)
  <2>1. PICK to \in {"PREPARED", "PREPARED_STALE"}, s \in {"begin", "ok", "stale"} :
            /\ stage[Op] \in {"NOT_STARTED", "PREPARED"} /\ stage' = [stage EXCEPT ![Op] = to]
            /\ phase' = phase /\ released' = released /\ hash' = hash /\ Write(r, s)
    BY <1>3 DEF LifecyclePrepared, TooOld, Then, RecordInitialPreparation, MarkPreparedStale, WalletStep
  <2>2. RequestMoves(r, s)
    BY <1>0, <2>1, WriteMoves DEF RequestSteps
  <2>3. Quiet /\ stage'[Op] = to
    BY <1>0, <2>1, StageMoves
  <2> QED
    BY <2>1, <2>2, <2>3 DEF QuietMove, HoldsAuthority, UnderIntent, Intents, RequestSteps
<1> QED
  BY <1>1, <1>2, <1>3

\* Recording the prompt, and finding it or its preparation stale.
LEMMA PromptIsQuiet ==
  ASSUME RunInv, SubmissionInv, NEW r \in Requests,
         RecordPrompt(r) \/ FindStale(r) \/ MarkStalePrompt(r)
  PROVE  \E s \in RequestSteps : QuietMove(r, s)
<1>0. TypeOK /\ ActorTypes /\ Op \in Kinds
  BY OpIsActive DEF RunInv, IInv, SubmissionInv, ActorTypes
<1>1. PICK to \in {"WALLET_PROMPT_RECORDED", "PREPARED_STALE"}, s \in {"release", "stale"} :
          /\ stage[Op] = "PREPARED" \/ PromptUnspent(Op)
          /\ stage' = [stage EXCEPT ![Op] = to]
          /\ phase' = phase /\ released' = released /\ hash' = hash /\ Write(r, s)
  BY DEF RecordPrompt, FindStale, MarkStalePrompt, RecordWalletPrompt, MarkPreparedStale,
     DropPromptAndMarkStale, WalletStep
<1>2. RequestMoves(r, s)
  BY <1>0, <1>1, WriteMoves DEF RequestSteps
<1>3. ~HoldsAuthority(Op) /\ stage[Op] \notin Intents /\ stage[Op] # "BROADCAST_UNKNOWN"
  BY <1>1 DEF HoldsAuthority, PromptUnspent, Intents
<1>4. Quiet /\ stage'[Op] = to
  BY <1>0, <1>1, <1>3, StageMoves
<1> QED
  BY <1>1, <1>2, <1>3, <1>4 DEF QuietMove, UnderIntent, RequestSteps

LEMMA CancelIsQuiet ==
  ASSUME RunInv, SubmissionInv, NEW r \in Requests, CancelRun(r)
  PROVE  \E s \in RequestSteps : QuietMove(r, s)
<1>1. ActorTypes /\ Op \in Kinds
  BY OpIsActive DEF SubmissionInv, ActorTypes
<1>2. /\ schema = "2.0" /\ stage' = stage /\ phase' = phase /\ released' = released /\ hash' = hash
      /\ Write(r, "ok")
  BY DEF CancelRun, Cancel, walletVars, chainVars, logVars
<1>3. ~HoldsAuthority(Op)
  BY <1>1, <1>2 DEF RunInv, IInv, SchemaShape, HoldsAuthority
<1>4. RequestMoves(r, "ok")
  BY <1>1, <1>2, WriteMoves DEF RequestSteps
<1> QED
  BY <1>2, <1>3, <1>4 DEF QuietMove, Quiet, UnderIntent, RequestSteps

\* A request that reads, waits, or ends without a write.
LEMMA ProceedIsQuiet ==
  ASSUME SubmissionInv, NEW r \in Requests,
         \/ AskLifecycle(r) \/ FreshEnough(r) \/ ThrowOnStalePrompt(r)
         \/ Conflict(r) \/ Refuse(r) \/ Fail(r)
  PROVE  \E s \in RequestSteps : QuietMove(r, s)
<1>1. PICK s \in {"askLifecycle", "release", "ok", "threw", "error"} : Proceed(r, s)
  BY DEF AskLifecycle, FreshEnough, Then, ThrowOnStalePrompt, Conflict, Refuse, Fail
<1>2. RequestMoves(r, s) /\ UNCHANGED vars
  BY <1>1, ProceedMoves DEF SubmissionInv, RequestSteps
<1>3. Quiet /\ phase' = phase /\ stage' = stage
  BY <1>2, UnchangedIsQuiet DEF vars, walletVars
<1> QED
  BY <1>2, <1>3 DEF QuietMove, UnderIntent, RequestSteps

-----------------------------------------------------------------------------
(* Giving the authority, and reporting what came of it *)

\* Authority is given when nobody holds or reports anything.
LEMMA ReleaseKeepsInv ==
  ASSUME RunInv, SubmissionInv, NEW r \in Requests, Release(r)
  PROVE  SubmissionInv' /\ [Promise!Next]_(Promise!vars)
<1>0. TypeOK /\ ActorTypes /\ WalletOK /\ Op \in Kinds
  BY OpIsActive DEF RunInv, IInv, SubmissionInv, ActorTypes
<1>1. /\ PromptUnspent(Op) /\ hash[Op] = None /\ UNCHANGED <<phase, hash>>
      /\ stage' = [stage EXCEPT ![Op] = "WALLET_PROMPT_RECORDED"]
      /\ prompt' = NewPrompt(Op, "INVOKED_OR_UNKNOWN")
      /\ released' = [released EXCEPT ![Op] = @ + 1]
      /\ Write(r, "envelope")
  BY DEF Release, ReleaseSendAuthority, WalletStep
<1>2. RequestMoves(r, "envelope") /\ Op' = Op
  BY <1>0, <1>1, WriteMoves, OpStays DEF RequestSteps
<1>3. released[Op] = 0 /\ sent[Op] = 0 /\ attempts[Op] # << >>
  <2>1. WalletShape(Op)
    BY <1>0 DEF RunInv, IInv
  <2>2. released[Op] = 0
    BY <1>1, <2>1 DEF WalletShape, PromptUnspent, PromptStages
  <2>3. sent[Op] = 0
    BY <1>0, <2>2 DEF WalletOK
  <2>4. attempts[Op] # << >>
    BY <1>1, <2>1 DEF WalletShape, PromptUnspent, Release, ReleaseSendAuthority, WalletStep, ActiveV4
  <2> QED
    BY <2>2, <2>3, <2>4
<1>4. /\ stage'[Op] = "WALLET_PROMPT_RECORDED" /\ released'[Op] = 1
      /\ \A k \in Kinds : k # Op => stage'[k] = stage[k] /\ released'[k] = released[k]
      /\ stage[Op] = "WALLET_PROMPT_RECORDED" /\ released' \in [Kinds -> Nat]
  BY <1>0, <1>1, <1>3 DEF TypeOK, PromptUnspent
<1>5. HoldsAuthority(Op)'
  <2>1. prompt'[Op] # None /\ prompt'[Op].invocation = "INVOKED_OR_UNKNOWN"
    BY <1>0, <1>1, <1>3, PromptBound
  <2> QED
    BY <1>1, <1>2, <1>4, <2>1 DEF HoldsAuthority
<1>6. ~Reporting /\ ~HoldsAuthority(Op)
  BY <1>1, <1>3 DEF SubmissionInv, ReportsAreDue, HoldsAuthority, PromptUnspent
<1>7. /\ \A q \in Requests : request[q].step # "envelope"
      /\ \A t \in Tabs : tab[t].step # "holding"
  BY <1>6 DEF SubmissionInv, EnvelopeIsOne, Unspent
<1>8. ~Reporting'
  BY <1>2, <1>6 DEF RequestMoves, Reporting
<1>9. Unspent'
  BY <1>2, <1>3, <1>5, <1>8 DEF Unspent, RequestMoves
<1>10. EnvelopeIsOne'
  BY <1>2, <1>7, <1>9 DEF EnvelopeIsOne, RequestMoves
<1>11. ActorTypes' /\ WalletOK'
  BY <1>0, <1>1, <1>2, <1>3, <1>4 DEF ActorTypes, WalletOK, RequestMoves
<1>12. ReportsAreDue' /\ HashIsBroadcast'
  BY <1>2, <1>8 DEF SubmissionInv, ReportsAreDue, HashIsBroadcast, RequestMoves
<1>13. IntentIsHeld'
  BY <1>2, <1>4, MoveKeepsIntent DEF SubmissionInv, UnderIntent
<1>14. Promise!Grant(Op)
  <2>1. AuthorityOf(Op) = "withheld" /\ AuthorityOf(Op)' = "granted" /\ KnownOf(Op) = None
    BY <1>1, <1>2, <1>3, <1>4 DEF AuthorityOf, KnownOf, RequestMoves
  <2>2. \A k \in Kinds : KnownOf(k)' = KnownOf(k)
    BY <1>1, <1>4 DEF KnownOf
  <2>3. \A k \in Kinds : k # Op => AuthorityOf(k)' = AuthorityOf(k)
    BY <1>2, <1>4 DEF AuthorityOf, RequestMoves
  <2> QED
    BY <1>0, <1>2, <2>1, <2>2, <2>3 DEF Promise!Grant, RequestMoves
<1> QED
  BY <1>0, <1>10, <1>11, <1>12, <1>13, <1>14 DEF SubmissionInv, Promise!Next

\* A report is recorded while the run still holds its authority, and ends that.
LEMMA ReportKeepsInv ==
  ASSUME RunInv, SubmissionInv, NEW r \in Requests, Reports(r)
  PROVE  SubmissionInv' /\ [Promise!Next]_(Promise!vars)
<1>0. TypeOK /\ ActorTypes /\ WalletOK /\ Op \in Kinds
  BY OpIsActive DEF RunInv, IInv, SubmissionInv, ActorTypes
<1>1. /\ request[r].step = "report" /\ HoldsAuthority(Op) /\ Write(r, "ok")
      /\ phase' = phase /\ released' = released
  BY DEF Reports, IngestHash, IngestUnknown, RecordBroadcastHash, RecordBroadcastUnknown, WalletStep
<1>2. RequestMoves(r, "ok") /\ Op' = Op
  BY <1>0, <1>1, WriteMoves, OpStays DEF RequestSteps
<1>3. Reporting /\ released[Op] = 1
  BY <1>1 DEF Reporting, SubmissionInv, ReportsAreDue
<1>4. Tokens'
  BY <1>1, <1>2, <1>3, MoveKeepsTokens DEF SubmissionInv, Tokens
<1>5. IntentIsHeld'
  BY <1>1, <1>2, MoveKeepsIntent DEF SubmissionInv, HoldsAuthority, UnderIntent, Intents
<1>6. /\ \A k \in Kinds : AuthorityOf(k)' = AuthorityOf(k)
      /\ AuthorityOf(Op) # "withheld" /\ KnownOf(Op) = None
  BY <1>0, <1>1, <1>2, <1>3 DEF AuthorityOf, KnownOf, HoldsAuthority, RequestMoves, WalletOK
<1>7. CASE IngestHash(r)
  <2> DEFINE h == request[r].hash
  <2>1. h \in broadcast[Op] /\ h \in Hashes
    BY <1>0, <1>7 DEF IngestHash, SubmissionInv, HashIsBroadcast, WalletOK
  <2>2. hash' = [hash EXCEPT ![Op] = h] /\ stage' = [stage EXCEPT ![Op] = "BROADCAST_HASH_PERSISTED"]
    BY <1>7 DEF IngestHash, RecordBroadcastHash, WalletStep
  <2>3. /\ KnownOf(Op)' = h
        /\ \A k \in Kinds : k # Op => KnownOf(k)' = KnownOf(k)
    BY <1>0, <1>2, <2>2 DEF KnownOf, TypeOK
  <2>4. Promise!Learn(Op, h)
    <3> HIDE DEF h
    <3> QED
      BY <1>0, <1>2, <1>6, <2>1, <2>3 DEF Promise!Learn, RequestMoves
  <2> QED
    BY <1>0, <1>4, <1>5, <2>1, <2>4 DEF Promise!Next, SubmissionInv, Tokens
<1>8. CASE IngestUnknown(r)
  <2>1. hash' = hash /\ stage' = [stage EXCEPT ![Op] = "BROADCAST_UNKNOWN"]
    BY <1>8 DEF IngestUnknown, RecordBroadcastUnknown, WalletStep
  <2>2. /\ KnownOf(Op)' = "AMBIGUOUS"
        /\ \A k \in Kinds : k # Op => KnownOf(k)' = KnownOf(k)
    BY <1>0, <1>2, <2>1 DEF KnownOf, TypeOK
  <2>3. Promise!Doubt(Op)
    BY <1>0, <1>2, <1>6, <2>2 DEF Promise!Doubt, RequestMoves
  <2> QED
    BY <1>0, <1>4, <1>5, <2>3 DEF Promise!Next, SubmissionInv, Tokens
<1> QED
  BY <1>7, <1>8 DEF Reports

-----------------------------------------------------------------------------
(* Steps of the browser and the wallet: the row stays as it is *)

LEMMA RowStays ==
  ASSUME UNCHANGED vars
  PROVE  /\ Op' = Op /\ phase' = phase /\ stage' = stage /\ released' = released /\ hash' = hash
         /\ HoldsAuthority(Op)' <=> HoldsAuthority(Op)
<1>1. phase' = phase /\ stage' = stage /\ released' = released /\ hash' = hash /\ prompt' = prompt
  BY DEF vars, runVars, walletVars, chainVars, logVars
<1>2. Op' = Op
  BY <1>1, OpStays
<1> QED
  BY <1>1, <1>2 DEF HoldsAuthority

\* Nobody enters an intent.
NoNewIntent ==
    \A q \in Requests : request'[q].step \in UnderIntent => request'[q].step = request[q].step

LEMMA RowKeepsIntent ==
  ASSUME IntentIsHeld, UNCHANGED vars, NoNewIntent
  PROVE  IntentIsHeld'
BY RowStays DEF IntentIsHeld, NoNewIntent, UnderIntent

\* A step that makes no envelope, no hash and no report that was not there.
CalmStep ==
    /\ UNCHANGED vars /\ UNCHANGED <<sent, broadcast>> /\ ActorTypes' /\ NoNewIntent
    /\ \A q \in Requests : request'[q].step = "envelope" => request[q].step = "envelope"
    /\ \A t \in Tabs : tab'[t].step = "holding" => tab[t].step = "holding"
    /\ Reporting' => Reporting
    /\ HashIsBroadcast'

LEMMA CalmKeeps ==
  ASSUME SubmissionInv, CalmStep
  PROVE  SubmissionInv' /\ UNCHANGED Promise!vars
<1>1. IntentIsHeld'
  BY RowKeepsIntent DEF SubmissionInv, CalmStep
<1>2. WalletOK' /\ ReportsAreDue'
  BY RowStays DEF SubmissionInv, WalletOK, ReportsAreDue, CalmStep
<1>3. Unspent => Unspent'
  BY RowStays DEF Unspent, CalmStep
<1>4. EnvelopeIsOne'
  BY <1>3 DEF SubmissionInv, EnvelopeIsOne, CalmStep
<1>5. UNCHANGED Promise!vars
  BY UnchangedIsQuiet, QuietIsStutter DEF CalmStep
<1> QED
  BY <1>1, <1>2, <1>4, <1>5 DEF SubmissionInv, CalmStep

\* A request that arrives.
LEMMA ArriveIsCalm ==
  ASSUME SubmissionInv, NEW r \in Requests, NEW route \in Routes, Arrive(r, route)
  PROVE  CalmStep
<1> DEFINE new == [NoRequest EXCEPT !.step = "begin", !.route = route, !.fresh = TRUE]
<1>1. new \in RequestStates /\ new.step = "begin"
  BY DEF NoRequest, RequestStates, RequestSteps
<1>2. request' = [request EXCEPT ![r] = new] /\ tab' = tab /\ UNCHANGED vars
      /\ UNCHANGED <<sent, broadcast>>
  BY DEF Arrive, envVars, runState
<1>3. request \in [Requests -> RequestStates] /\ tab \in [Tabs -> TabStates]
  BY DEF SubmissionInv, ActorTypes
<1> HIDE DEF new
<1>4. \A q \in Requests : request'[q] = IF q = r THEN new ELSE request[q]
  BY <1>2, <1>3
<1>5. ActorTypes'
  BY <1>1, <1>2, <1>3, RowStays DEF SubmissionInv, ActorTypes
<1> QED
  BY <1>1, <1>2, <1>4, <1>5, RowStays DEF CalmStep, NoNewIntent, UnderIntent, Reporting,
     SubmissionInv, HashIsBroadcast

\* A click sends a request for the tab.
LEMMA ClickIsCalm ==
  ASSUME SubmissionInv, NEW t \in Tabs, Click(t)
  PROVE  CalmStep
<1>1. PICK r \in Requests :
          /\ request[r].step = "idle"
          /\ request' = [request EXCEPT ![r] =
                 [NoRequest EXCEPT !.step = "begin", !.route = "execute", !.tab = t,
                                   !.fresh = TRUE]]
  BY DEF Click
<1> DEFINE new == [NoRequest EXCEPT !.step = "begin", !.route = "execute", !.tab = t, !.fresh = TRUE]
<1>2. new \in RequestStates /\ new.step = "begin"
  BY DEF NoRequest, RequestStates, RequestSteps
<1>3. /\ request \in [Requests -> RequestStates] /\ tab \in [Tabs -> TabStates]
      /\ tab' = [tab EXCEPT ![t].step = "asking"] /\ UNCHANGED vars /\ UNCHANGED <<sent, broadcast>>
  BY DEF SubmissionInv, ActorTypes, Click, BrowserStep, runState
<1>4. request' = [request EXCEPT ![r] = new]
  BY <1>1
<1> HIDE DEF new
<1>5. \A q \in Requests : request'[q] = IF q = r THEN new ELSE request[q]
  BY <1>3, <1>4
<1>6. [tab[t] EXCEPT !.step = "asking"] \in TabStates
  BY <1>3 DEF TabStates, TabSteps
<1>7. \A u \in Tabs : tab'[u] = IF u = t THEN [tab[t] EXCEPT !.step = "asking"] ELSE tab[u]
  BY <1>3
<1>8. tab'[t].step = "asking"
  BY <1>3, <1>7 DEF TabStates
<1>9. ActorTypes'
  BY <1>2, <1>3, <1>4, <1>6, RowStays DEF SubmissionInv, ActorTypes
<1> QED
  BY <1>2, <1>3, <1>5, <1>7, <1>8, <1>9, RowStays DEF CalmStep, NoNewIntent, UnderIntent, Reporting,
     SubmissionInv, HashIsBroadcast

\* What becomes of a request whose tab goes away.
LEMMA ForgottenRequest ==
  ASSUME ActorTypes, NEW t \in Tabs
  PROVE  /\ Forgotten(t) \in [Requests -> RequestStates]
         /\ \A q \in Requests : /\ Forgotten(t)[q].step = request[q].step
                                /\ Forgotten(t)[q].route = request[q].route
                                /\ Forgotten(t)[q].hash = request[q].hash
<1>1. ASSUME NEW q \in Requests
      PROVE  /\ Forgotten(t)[q] \in RequestStates
             /\ Forgotten(t)[q].step = request[q].step
             /\ Forgotten(t)[q].route = request[q].route
             /\ Forgotten(t)[q].hash = request[q].hash
  <2>1. request[q] \in RequestStates
    BY DEF ActorTypes
  <2>2. CASE request[q].tab = t
    BY <2>1, <2>2 DEF Forgotten, RequestStates
  <2>3. CASE request[q].tab # t
    BY <2>1, <2>3 DEF Forgotten
  <2> QED
    BY <2>2, <2>3
<1>2. Forgotten(t) = [q \in Requests |-> Forgotten(t)[q]]
  BY DEF Forgotten
<1> QED
  BY <1>1, <1>2

LEMMA BadAnswer ==
  ASSUME ActorTypes, NEW t \in Tabs
  PROVE  /\ AfterBadAnswer(t) \in TabStates
         /\ AfterBadAnswer(t).step \in {"idle", "unknown"}
         /\ AfterBadAnswer(t).step = "unknown" => tab[t].step = "reportingHash"
<1>1. tab[t] \in TabStates
  BY DEF ActorTypes
<1>2. CASE tab[t].step = "reportingHash"
  BY <1>1, <1>2 DEF AfterBadAnswer, TabStates, TabSteps
<1>3. CASE tab[t].step # "reportingHash"
  BY <1>3 DEF AfterBadAnswer, TabStates, TabSteps, NoTab
<1> QED
  BY <1>2, <1>3

\* A tab that stops waiting, and one that is closed.
LEMMA LeavingIsCalm ==
  ASSUME SubmissionInv, NEW t \in Tabs, GiveUp(t) \/ Close(t)
  PROVE  CalmStep
<1>0. ActorTypes /\ request \in [Requests -> RequestStates] /\ tab \in [Tabs -> TabStates]
  BY DEF SubmissionInv, ActorTypes
<1>1. PICK new \in {AfterBadAnswer(t), NoTab} : tab' = [tab EXCEPT ![t] = new]
  BY DEF GiveUp, Close
<1>2. /\ request' = Forgotten(t) /\ UNCHANGED vars /\ UNCHANGED <<sent, broadcast>>
  BY DEF GiveUp, Close, BrowserStep, runState
<1>3. /\ new \in TabStates /\ new.step \in {"idle", "unknown"}
      /\ new.step = "unknown" => tab[t].step = "reportingHash"
  <2>1. NoTab \in TabStates /\ NoTab.step = "idle"
    BY DEF NoTab, TabStates, TabSteps
  <2> QED
    BY <1>0, <1>1, <2>1, BadAnswer
<1>4. \A u \in Tabs : tab'[u] = IF u = t THEN new ELSE tab[u]
  BY <1>0, <1>1
<1>5. /\ request' \in [Requests -> RequestStates]
      /\ \A q \in Requests : /\ request'[q].step = request[q].step
                             /\ request'[q].route = request[q].route
                             /\ request'[q].hash = request[q].hash
  BY <1>0, <1>2, ForgottenRequest
<1>6. ActorTypes'
  BY <1>0, <1>1, <1>2, <1>3, <1>5, RowStays DEF ActorTypes
<1>7. Reporting' => Reporting
  BY <1>3, <1>4, <1>5 DEF Reporting
<1>8. HashIsBroadcast'
  BY <1>2, <1>3, <1>4, <1>5, RowStays DEF SubmissionInv, HashIsBroadcast
<1> QED
  BY <1>2, <1>3, <1>4, <1>5, <1>6, <1>7, <1>8 DEF CalmStep, NoNewIntent

\* The wallet's answer reaches the tab, or does not.
LEMMA AnswerIsCalm ==
  ASSUME SubmissionInv, NEW t \in Tabs, WalletAnswers(t) \/ WalletFails(t)
  PROVE  CalmStep
<1>0. /\ tab \in [Tabs -> TabStates] /\ WalletOK /\ Op \in Kinds
  BY OpIsActive DEF SubmissionInv, ActorTypes
<1>1. tab[t].step = "sending" /\ UNCHANGED vars /\ UNCHANGED <<request, sent, broadcast>>
  BY DEF WalletAnswers, WalletFails, BrowserStep, runState
<1>2. PICK new :
          /\ tab' = [tab EXCEPT ![t] = new]
          /\ new \in TabStates /\ new.step \in {"hash", "unknown"}
          /\ new.step = "hash" => new.hash \in broadcast[Op]
  <2>1. CASE WalletAnswers(t)
    <3>1. PICK h \in broadcast[Op] : tab' = [tab EXCEPT ![t].step = "hash", ![t].hash = h]
      BY <2>1 DEF WalletAnswers
    <3> DEFINE answered == [tab[t] EXCEPT !.step = "hash", !.hash = h]
    <3>2. tab' = [tab EXCEPT ![t] = answered]
      BY <1>0, <3>1
    <3>3. h \in Hashes /\ tab[t] \in TabStates
      BY <1>0 DEF WalletOK
    <3>4. answered \in TabStates /\ answered.step = "hash" /\ answered.hash = h
      BY <3>3 DEF TabStates, TabSteps
    <3> HIDE DEF answered
    <3> QED
      BY <3>2, <3>4
  <2>2. CASE WalletFails(t)
    <3> DEFINE failed == [tab[t] EXCEPT !.step = "unknown"]
    <3>1. tab' = [tab EXCEPT ![t] = failed]
      BY <1>0, <2>2 DEF WalletFails
    <3>2. tab[t] \in TabStates
      BY <1>0
    <3>3. failed \in TabStates /\ failed.step = "unknown"
      BY <3>2 DEF TabStates, TabSteps
    <3> HIDE DEF failed
    <3> QED
      BY <3>1, <3>3
  <2> QED
    BY <2>1, <2>2
<1>3. \A u \in Tabs : tab'[u] = IF u = t THEN new ELSE tab[u]
  BY <1>0, <1>2
<1>4. ActorTypes'
  BY <1>0, <1>1, <1>2, RowStays DEF SubmissionInv, ActorTypes
<1>5. Reporting
  BY <1>1 DEF Reporting
<1>6. HashIsBroadcast'
  BY <1>1, <1>2, <1>3, RowStays DEF SubmissionInv, HashIsBroadcast
<1> QED
  BY <1>1, <1>2, <1>3, <1>4, <1>5, <1>6 DEF CalmStep, NoNewIntent

\* The tab sends its report.
LEMMA PostIsCalm ==
  ASSUME SubmissionInv, NEW t \in Tabs, PostHash(t) \/ PostUnknown(t)
  PROVE  CalmStep
<1>0. request \in [Requests -> RequestStates] /\ tab \in [Tabs -> TabStates]
  BY DEF SubmissionInv, ActorTypes
<1>1. PICK from \in {"hash", "unknown"}, waiting \in {"reportingHash", "reportingUnknown"} :
          Post(t, from, waiting)
  BY DEF PostHash, PostUnknown
<1>2. PICK r \in Requests :
          /\ request[r].step = "idle"
          /\ request' = [request EXCEPT ![r] =
                 [step |-> "report", route |-> from, tab |-> t,
                  fresh |-> tab[t].fresh, hash |-> tab[t].hash]]
  BY <1>1 DEF Post
<1>3. /\ tab[t].step = from /\ tab' = [tab EXCEPT ![t].step = waiting]
      /\ UNCHANGED vars /\ UNCHANGED <<sent, broadcast>>
  BY <1>1 DEF Post, BrowserStep, runState
<1> DEFINE new == [step |-> "report", route |-> from, tab |-> t, fresh |-> tab[t].fresh,
                   hash |-> tab[t].hash]
           next == [tab[t] EXCEPT !.step = waiting]
<1>4. tab[t] \in TabStates
  BY <1>0
<1>5. /\ new \in RequestStates
      /\ new.step = "report" /\ new.route = from /\ new.hash = tab[t].hash
  BY <1>4 DEF RequestStates, RequestSteps, TabStates
<1>6. next \in TabStates /\ next.step = waiting
  BY <1>4 DEF TabStates, TabSteps
<1>7. request' = [request EXCEPT ![r] = new] /\ tab' = [tab EXCEPT ![t] = next]
  BY <1>0, <1>2, <1>3
<1> HIDE DEF new, next
<1>8. /\ \A q \in Requests : request'[q] = IF q = r THEN new ELSE request[q]
      /\ \A u \in Tabs : tab'[u] = IF u = t THEN next ELSE tab[u]
  BY <1>0, <1>7
<1>9. ActorTypes'
  BY <1>0, <1>3, <1>5, <1>6, <1>7, RowStays DEF SubmissionInv, ActorTypes
<1>10. Reporting
  BY <1>3 DEF Reporting
<1>11. HashIsBroadcast'
  BY <1>3, <1>5, <1>6, <1>8, RowStays DEF SubmissionInv, HashIsBroadcast
<1> QED
  BY <1>3, <1>5, <1>6, <1>8, <1>9, <1>10, <1>11 DEF CalmStep, NoNewIntent, UnderIntent

\* The answer of request r reaches its tab, if that still waits for it.
LEMMA DeliverKeepsInv ==
  ASSUME SubmissionInv, NEW r \in Requests, Deliver(r)
  PROVE  SubmissionInv' /\ UNCHANGED Promise!vars
<1> DEFINE t == request[r].tab
           new == AfterAnswer(t, r)
<1>0. ActorTypes /\ request \in [Requests -> RequestStates] /\ tab \in [Tabs -> TabStates]
  BY DEF SubmissionInv, ActorTypes
<1>1. /\ request[r].step \in Ended /\ request' = [request EXCEPT ![r] = NoRequest]
      /\ UNCHANGED vars /\ UNCHANGED <<sent, broadcast>>
      /\ tab' = IF t = None THEN tab ELSE [tab EXCEPT ![t] = new]
  BY DEF Deliver, BrowserStep, runState
<1>2. t \in Tabs \cup {None} /\ request[r].fresh \in BOOLEAN
  BY <1>0 DEF RequestStates
<1>3. NoRequest \in RequestStates /\ NoRequest.step = "idle"
  BY DEF NoRequest, RequestStates, RequestSteps
<1>4. \A q \in Requests : request'[q] = IF q = r THEN NoRequest ELSE request[q]
  BY <1>0, <1>1
<1>5. request' \in [Requests -> RequestStates] /\ phase' = phase
  BY <1>0, <1>1, <1>3, RowStays
<1>6. CASE t = None \/ request[r].step # "envelope"
  <2>1. t # None => /\ new \in TabStates /\ new.step \in {"idle", "unknown"}
                    /\ new.step = "unknown" => tab[t].step = "reportingHash"
    <3>1. ASSUME t # None
          PROVE  new \in {NoTab, AfterBadAnswer(t)} /\ t \in Tabs
      <4>1. request[r].step # "envelope"
        BY <1>6, <3>1
      <4> QED
        BY <1>2, <3>1, <4>1 DEF AfterAnswer
    <3>2. NoTab \in TabStates /\ NoTab.step = "idle"
      BY DEF NoTab, TabStates, TabSteps
    <3> HIDE DEF t, new
    <3> QED
      BY <1>0, <3>1, <3>2, BadAnswer
  <2>2. \A u \in Tabs : tab'[u] = tab[u] \/ (u = t /\ t # None /\ tab'[u] = new)
    <3> HIDE DEF t, new
    <3> QED
      BY <1>0, <1>1, <1>2
  <2>3. tab' \in [Tabs -> TabStates]
    <3> HIDE DEF t, new
    <3> QED
      BY <1>0, <1>1, <1>2, <2>1
  <2> HIDE DEF t, new
  <2>4. \A u \in Tabs : \/ tab'[u] = tab[u]
                        \/ tab'[u].step = "idle"
                        \/ tab'[u].step = "unknown" /\ tab[u].step = "reportingHash"
    BY <2>1, <2>2
  <2>5. Reporting' => Reporting
    BY <1>3, <1>4, <2>4 DEF Reporting
  <2>6. HashIsBroadcast'
    BY <1>1, <1>3, <1>4, <2>4, RowStays DEF SubmissionInv, HashIsBroadcast
  <2>7. CalmStep
    BY <1>0, <1>1, <1>3, <1>4, <1>5, <2>3, <2>4, <2>5, <2>6
       DEF CalmStep, ActorTypes, NoNewIntent, UnderIntent
  <2> QED
    BY <2>7, CalmKeeps
<1>7. CASE t \in Tabs /\ t # None /\ request[r].step = "envelope"
  <2>1. new = [step |-> "holding", fresh |-> request[r].fresh, hash |-> None]
    BY <1>7 DEF AfterAnswer
  <2>2. new \in TabStates /\ new.step = "holding"
    BY <1>2, <2>1 DEF TabStates, TabSteps
  <2> HIDE DEF t, new
  <2>3. \A u \in Tabs : tab'[u] = IF u = t THEN new ELSE tab[u]
    BY <1>0, <1>1, <1>7
  <2>4. ActorTypes'
    BY <1>0, <1>1, <1>5, <1>7, <2>2 DEF ActorTypes
  <2>5. Unspent /\ \A u \in Tabs : tab[u].step # "holding"
    BY <1>7 DEF SubmissionInv, EnvelopeIsOne
  <2>6. \A q \in Requests : request[q].step = "envelope" => q = r
    BY <1>7 DEF SubmissionInv, EnvelopeIsOne
  <2>7. ~Reporting'
    BY <1>3, <1>4, <2>2, <2>3, <2>5 DEF Unspent, Reporting
  <2>8. Unspent'
    BY <1>1, <2>5, <2>7, RowStays DEF Unspent
  <2>9. EnvelopeIsOne'
    BY <1>3, <1>4, <1>7, <2>3, <2>5, <2>6, <2>8 DEF EnvelopeIsOne
  <2>10. NoNewIntent
    BY <1>3, <1>4 DEF NoNewIntent, UnderIntent
  <2>11. WalletOK' /\ ReportsAreDue' /\ HashIsBroadcast'
    BY <1>1, <1>3, <1>4, <2>2, <2>3, <2>7, RowStays
       DEF SubmissionInv, WalletOK, ReportsAreDue, HashIsBroadcast
  <2>12. IntentIsHeld'
    BY <1>1, <2>10, RowKeepsIntent DEF SubmissionInv
  <2>13. UNCHANGED Promise!vars
    BY <1>1, UnchangedIsQuiet, QuietIsStutter
  <2> QED
    BY <2>4, <2>9, <2>11, <2>12, <2>13 DEF SubmissionInv
<1> QED
  BY <1>2, <1>6, <1>7

\* Whoever holds the envelope calls the wallet, or gives up and says that the outcome
\* is unknown.  Either way there is no envelope any more.
LEMMA HolderKeepsInv ==
  ASSUME RunInv, SubmissionInv, NEW t \in Tabs, Invoke(t) \/ LoseReadiness(t)
  PROVE  SubmissionInv' /\ [Promise!Next]_(Promise!vars)
<1>0. /\ TypeOK /\ ActorTypes /\ WalletOK /\ Op \in Kinds /\ WalletShape(Op)
      /\ tab \in [Tabs -> TabStates]
  BY OpIsActive DEF RunInv, IInv, SubmissionInv, ActorTypes
<1>1. /\ tab[t].step = "holding" /\ UNCHANGED vars /\ UNCHANGED <<request, broadcast>>
  BY DEF Invoke, LoseReadiness, BrowserStep, runState
<1>2. Unspent /\ \A u \in Tabs : tab[u].step = "holding" => u = t
  BY <1>1 DEF SubmissionInv, EnvelopeIsOne
<1>3. released[Op] = 1
  BY <1>0, <1>2 DEF Unspent, HoldsAuthority, WalletShape, PromptStages
<1>4. \A q \in Requests : request[q].step # "envelope"
  BY <1>1 DEF SubmissionInv, EnvelopeIsOne
<1>5. PICK s \in {"sending", "unknown"} : tab' = [tab EXCEPT ![t].step = s]
  BY DEF Invoke, LoseReadiness
<1> DEFINE new == [tab[t] EXCEPT !.step = s]
<1>6. new \in TabStates /\ new.step = s
  BY <1>0 DEF TabStates, TabSteps
<1>7. tab' = [tab EXCEPT ![t] = new]
  BY <1>0, <1>5
<1> HIDE DEF new
<1>8. \A u \in Tabs : tab'[u] = IF u = t THEN new ELSE tab[u]
  BY <1>0, <1>7
<1>9. ActorTypes' /\ ReportsAreDue' /\ HashIsBroadcast'
  BY <1>0, <1>1, <1>3, <1>6, <1>7, <1>8, RowStays
     DEF SubmissionInv, ActorTypes, ReportsAreDue, HashIsBroadcast
<1>10. EnvelopeIsOne'
  BY <1>1, <1>2, <1>4, <1>6, <1>8 DEF EnvelopeIsOne
<1>11. IntentIsHeld'
  BY <1>1, RowKeepsIntent DEF SubmissionInv, NoNewIntent
<1>12. CASE Invoke(t)
  <2>1. sent' = [sent EXCEPT ![Op] = @ + 1] /\ sent[Op] = 0
    BY <1>2, <1>12 DEF Invoke, Unspent
  <2>2. sent'[Op] = 1 /\ \A k \in Kinds : k # Op => sent'[k] = sent[k]
    BY <1>0, <2>1 DEF WalletOK
  <2>3. WalletOK'
    BY <1>0, <1>1, <1>3, <2>1, <2>2, RowStays DEF WalletOK
  <2>4. /\ AuthorityOf(Op) = "granted" /\ AuthorityOf(Op)' = "spent" /\ KnownOf(Op) = None
        /\ \A k \in Kinds : k # Op => AuthorityOf(k)' = AuthorityOf(k)
        /\ \A k \in Kinds : KnownOf(k)' = KnownOf(k)
    BY <1>0, <1>1, <1>2, <1>3, <2>1, <2>2, RowStays DEF AuthorityOf, KnownOf, Unspent, HoldsAuthority
  <2>5. Promise!Spend(Op)
    BY <1>0, <1>1, <2>4, RowStays DEF Promise!Spend
  <2> QED
    BY <1>0, <1>9, <1>10, <1>11, <2>3, <2>5 DEF SubmissionInv, Promise!Next
<1>13. CASE LoseReadiness(t)
  <2>1. sent' = sent
    BY <1>13 DEF LoseReadiness
  <2>2. WalletOK' /\ UNCHANGED Promise!vars
    BY <1>0, <1>1, <2>1, RowStays, UnchangedIsQuiet, QuietIsStutter DEF WalletOK
  <2> QED
    BY <1>9, <1>10, <1>11, <2>2 DEF SubmissionInv
<1> QED
  BY <1>12, <1>13

\* The user confirms what the wallet was asked for.
LEMMA ConfirmKeepsInv ==
  ASSUME RunInv, SubmissionInv, NEW h \in Hashes, Confirm(h)
  PROVE  SubmissionInv' /\ [Promise!Next]_(Promise!vars)
<1>0. ActorTypes /\ WalletOK /\ Op \in Kinds /\ WalletShape(Op)
  BY OpIsActive DEF RunInv, IInv, SubmissionInv, ActorTypes
<1>1. /\ Cardinality(broadcast[Op]) < sent[Op]
      /\ broadcast' = [broadcast EXCEPT ![Op] = @ \cup {h}]
      /\ UNCHANGED vars /\ UNCHANGED <<request, tab, sent>>
  BY DEF Confirm, BrowserStep, runState
<1>2. sent[Op] \in Nat /\ sent[Op] <= released[Op] /\ released[Op] \in Nat
  BY <1>0 DEF WalletOK, RunInv, IInv, TypeOK
<1>3. released[Op] <= 1
  BY <1>0 DEF WalletShape, RunInv, IInv, TypeOK, Stages
<1>4. broadcast[Op] = {} /\ sent[Op] = 1
  <2>1. broadcast[Op] = {} \/ \E g \in Hashes : broadcast[Op] = {g}
    BY <1>0 DEF WalletOK
  <2>2. CASE broadcast[Op] = {}
    BY <1>1, <1>2, <1>3, <2>2, FS_EmptySet
  <2>3. CASE \E g \in Hashes : broadcast[Op] = {g}
    <3>1. Cardinality(broadcast[Op]) = 1
      BY <2>3, FS_Singleton
    <3> QED
      BY <1>1, <1>2, <1>3, <3>1
  <2> QED
    BY <2>1, <2>2, <2>3
<1>5. /\ broadcast' = [broadcast EXCEPT ![Op] = {h}]
      /\ broadcast'[Op] = {h} /\ \A k \in Kinds : k # Op => broadcast'[k] = broadcast[k]
  BY <1>0, <1>1, <1>4 DEF WalletOK
<1>6. WalletOK'
  BY <1>0, <1>1, <1>5, RowStays DEF WalletOK
<1>7. /\ ActorTypes' /\ ReportsAreDue' /\ EnvelopeIsOne' /\ HashIsBroadcast'
  <2>1. Unspent' <=> Unspent
    BY <1>1, RowStays DEF Unspent, Reporting
  <2> QED
    BY <1>1, <1>4, <2>1, RowStays DEF SubmissionInv, ActorTypes, ReportsAreDue, Reporting,
       EnvelopeIsOne, HashIsBroadcast
<1>8. IntentIsHeld'
  BY <1>1, RowKeepsIntent DEF SubmissionInv, NoNewIntent
<1>9. /\ \A k \in Kinds : AuthorityOf(k)' = AuthorityOf(k) /\ KnownOf(k)' = KnownOf(k)
      /\ AuthorityOf(Op) = "spent"
  BY <1>0, <1>1, <1>4, RowStays DEF AuthorityOf, KnownOf
<1>10. Promise!Broadcast(Op, h)
  BY <1>0, <1>4, <1>5, <1>9 DEF Promise!Broadcast
<1> QED
  BY <1>0, <1>6, <1>7, <1>8, <1>10 DEF SubmissionInv, Promise!Next

-----------------------------------------------------------------------------
(* The theorems *)

LEMMA RequestStep ==
  ASSUME RunInv, SubmissionInv, NEW r \in Requests, Handle(r) \/ Fail(r)
  PROVE  SubmissionInv' /\ [Promise!Next]_(Promise!vars)
<1>1. CASE \E s \in RequestSteps : QuietMove(r, s)
  BY <1>1, QuietMoveKeeps
<1>2. CASE Prepares(r)
  BY <1>1, <1>2, FirstPreparationIsQuiet, LaterPreparationIsQuiet, ProceedIsQuiet DEF Prepares
<1>3. CASE Releases(r)
  BY <1>1, <1>3, PromptIsQuiet, ReleaseKeepsInv, ProceedIsQuiet DEF Releases
<1>4. CASE Reports(r)
  BY <1>4, ReportKeepsInv
<1>5. CASE CancelRun(r) \/ Conflict(r) \/ Refuse(r) \/ Fail(r)
  BY <1>1, <1>5, CancelIsQuiet, ProceedIsQuiet
<1> QED
  BY <1>2, <1>3, <1>4, <1>5 DEF Handle

LEMMA TabStep ==
  ASSUME RunInv, SubmissionInv, NEW t \in Tabs,
         Click(t) \/ GiveUp(t) \/ Browse(t) \/ PostHash(t) \/ PostUnknown(t) \/ Close(t)
  PROVE  SubmissionInv' /\ [Promise!Next]_(Promise!vars)
<1>1. CASE CalmStep
  BY <1>1, CalmKeeps
<1>2. CASE Click(t) \/ GiveUp(t) \/ PostHash(t) \/ PostUnknown(t) \/ Close(t)
  BY <1>1, <1>2, ClickIsCalm, LeavingIsCalm, PostIsCalm
<1>3. CASE Browse(t)
  BY <1>1, <1>3, AnswerIsCalm, HolderKeepsInv DEF Browse
<1> QED
  BY <1>2, <1>3

LEMMA SubmissionStep ==
  ASSUME RunInv, SubmissionInv, [SubmissionNext]_allVars
  PROVE  /\ RunInv' /\ SubmissionInv'
         /\ [Next]_vars /\ [Promise!Next]_(Promise!vars)
<1>1. [Next]_vars
  BY SubmissionIsRun DEF SubmissionInv
<1>2. RunInv'
  BY <1>1, RunInvKept
<1>3. ASSUME NEW r \in Requests, NEW route \in Routes, Arrive(r, route)
      PROVE  SubmissionInv' /\ [Promise!Next]_(Promise!vars)
  BY <1>3, ArriveIsCalm, CalmKeeps
<1>4. ASSUME NEW r \in Requests, Handle(r) \/ Deliver(r) \/ Fail(r)
      PROVE  SubmissionInv' /\ [Promise!Next]_(Promise!vars)
  BY <1>4, RequestStep, DeliverKeepsInv
<1>5. CASE Expire \/ UNCHANGED allVars
  <2>1. UNCHANGED vars /\ UNCHANGED <<request, tab, sent, broadcast>>
    BY <1>5 DEF Expire, allVars, envVars, runState
  <2>2. CalmStep
    BY <2>1, RowStays DEF CalmStep, SubmissionInv, ActorTypes, NoNewIntent, Reporting, HashIsBroadcast
  <2> QED
    BY <1>1, <1>2, <2>2, CalmKeeps
<1>6. SubmissionInv' /\ [Promise!Next]_(Promise!vars)
  BY <1>3, <1>4, <1>5, TabStep, ConfirmKeepsInv DEF SubmissionNext
<1> QED
  BY <1>1, <1>2, <1>6

\* However many requests and tabs there are and whatever is lost: the run takes only
\* the steps ExecutionRun describes, and what circulates outside of the row agrees
\* with it.
THEOREM SubmissionRuns == SubmissionSpec => [](RunInv /\ SubmissionInv) /\ [][Next]_vars
<1>1. SubmissionInit => RunInv /\ SubmissionInv
  BY SubmissionStarts
<1>2. (RunInv /\ SubmissionInv) /\ [SubmissionNext]_allVars
          => (RunInv /\ SubmissionInv)' /\ [Next]_vars
  BY SubmissionStep
<1> QED
  BY <1>1, <1>2, PTL DEF SubmissionSpec

\* While a request asks Brickken under a durable intent, no other request asks for the
\* same preparation.
THEOREM IntentExclusive == SubmissionSpec => []IntentIsExclusive
<1>1. ASSUME SubmissionInv
      PROVE  IntentIsExclusive
  <2> DEFINE asking == {r \in Requests : request[r].step \in {"askFirst", "askAgain"}}
  <2>1. asking = {} \/ \E r \in Requests : asking = {r}
    BY <1>1 DEF SubmissionInv, IntentIsHeld
  <2>2. Cardinality(asking) = 0 \/ Cardinality(asking) = 1
    <3> HIDE DEF asking
    <3> QED
      BY <2>1, FS_EmptySet, FS_Singleton
  <2> QED
    BY <2>2 DEF IntentIsExclusive
<1> QED
  BY <1>1, SubmissionRuns, PTL

\* Each operation is sent at most once, only under durable authority, and the run
\* records only a hash that the wallet broadcast, or that it cannot know: Submission
\* implements OneSend, whatever interleaves and whatever is lost.
THEOREM OneSendKept == SubmissionSpec => OneSendPromise
<1>1. SubmissionInit => Promise!Init
  BY SubmissionStarts
<1>2. (RunInv /\ SubmissionInv) /\ [SubmissionNext]_allVars => [Promise!Next]_(Promise!vars)
  BY SubmissionStep
<1> QED
  BY <1>1, <1>2, SubmissionRuns, PTL DEF SubmissionSpec, OneSendPromise, Promise!Spec

=============================================================================
