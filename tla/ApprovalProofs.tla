--------------------------- MODULE ApprovalProofs ----------------------------
(***************************************************************************)
(* Proofs about ApprovalPage, for any set of providers and either surface: *)
(* what the user is told of an approval is true, however answers, events   *)
(* and requests are delayed, lost or overtaken.                            *)
(*                                                                         *)
(* The protocol's part of the invariant is shown action by action.  What   *)
(* the page adds to it depends only on a few effects of these actions, and *)
(* the page's own actions leave the run and its proof alone.               *)
(***************************************************************************)
EXTENDS ApprovalInv, TLAPS

\* The part of the invariant that is about the protocol alone.
ProtocolInv == ProtocolTypes /\ Durable /\ OneAwaited /\ HeardIsTrue /\ OwnAttempt

LEMMA NoneIsNoProof == None \notin Proofs
BY NoneAssumption

\* A run only moves on.
RunGoesOn ==
    \/ run' = run
    \/ run = "ABSENT" /\ run' = "AWAITING_APPROVAL"
    \/ run = "AWAITING_APPROVAL" /\ run' \in {"PREPARING", "CANCELLED"}
    \/ run = "PREPARING" /\ run' = "LATER"

LEMMA PastIsKept ==
  ASSUME RunGoesOn
  PROVE  /\ \A r \in States : Past(r) => Past(r)'
         /\ (Moved => Moved') /\ (Approved(run) => Approved(run)')
BY DEF RunGoesOn, Past, Moved, Approved, States

LEMMA HeardIsKept ==
  ASSUME RunGoesOn
  PROVE  \A a : (AnswerOK(a) => AnswerOK(a)') /\ (ResultOK(a) => ResultOK(a)')
<1>1. \A r : Past(r) => r \in States
  BY DEF Past
<1> QED
  BY <1>1, PastIsKept DEF AnswerOK, ResultOK

\* What a set of sent approvals becomes when nobody waits for them any more.
LEMMA NobodyWaits ==
  ASSUME ProtocolTypes, posts' = {[p EXCEPT !.awaited = FALSE] : p \in posts}
  PROVE  /\ posts' \subseteq Posts
         /\ \A p \in posts' : ~p.awaited
<1>1. ASSUME NEW p \in posts
      PROVE  [p EXCEPT !.awaited = FALSE] \in Posts /\ ~[p EXCEPT !.awaited = FALSE].awaited
  BY DEF ProtocolTypes, Posts
<1> QED
  BY <1>1

LEMMA ApprovalsExpire ==
  ASSUME ProtocolTypes, OneAwaited, posts' = {[p EXCEPT !.fresh = FALSE] : p \in posts}
  PROVE  /\ posts' \subseteq Posts
         /\ \A p \in posts' : p.awaited => attempt.step = "submit" /\ attempt.answer = None
         /\ \A p, q \in posts' : p.awaited /\ q.awaited => p = q
<1>1. ASSUME NEW p \in posts
      PROVE  /\ [p EXCEPT !.fresh = FALSE] \in Posts
             /\ [p EXCEPT !.fresh = FALSE].awaited = p.awaited
  BY DEF ProtocolTypes, Posts
<1> QED
  BY <1>1 DEF OneAwaited

\* Values of an attempt.
LEMMA NewAttempt ==
  /\ NoAttempt \in Attempts(None) /\ NoAttempt.step = "idle" /\ NoAttempt.answer = None
  /\ \A s \in Steps, r \in NotRecorded \cup {None} :
         LET a == [NoAttempt EXCEPT !.step = s, !.reason = r] IN
         a \in Attempts(None) /\ a.step = s /\ a.answer = None /\ a.reason = r
  /\ \A s \in Steps :
         LET a == [NoAttempt EXCEPT !.step = s] IN
         a \in Attempts(None) /\ a.step = s /\ a.answer = None /\ a.reason = None
  /\ \A x :
         LET a == [NoAttempt EXCEPT !.step = "done", !.answer = x] IN
         a \in Attempts(x) /\ a.step = "done" /\ a.answer = x
<1>1. NoAttempt \in Attempts(None) /\ NoAttempt.step = "idle" /\ NoAttempt.answer = None
      /\ NoAttempt.reason = None
  BY DEF NoAttempt, Attempts, Steps
<1>2. "done" \in Steps
  BY DEF Steps
<1> HIDE DEF NoAttempt
<1> QED
  BY <1>1, <1>2 DEF Attempts

-----------------------------------------------------------------------------
(* The protocol, action by action *)

\* What the page needs to know of a step of the protocol.
ProtocolMoves ==
    /\ RunGoesOn
    /\ proof' = proof \/ ~OwnProof' \/ attempt.step = "submit"
    /\ attempt'.step = "idle" <=> attempt.step = "idle"
    /\ attempt'.step \in Approving => attempt.step \in Approving
    /\ UNCHANGED wallet \/ unheard'
    /\ unheard => unheard'

\* Steps that leave the attempt alone.
LEMMA RunMoves ==
  ASSUME ProtocolInv, CreateRun \/ LoseAccess \/ Cancel \/ Elsewhere
  PROVE  ProtocolInv' /\ ProtocolMoves
<1>1. RunGoesOn /\ UNCHANGED <<posts, wallet, unheard, attempt>>
  BY DEF CreateRun, LoseAccess, Cancel, Elsewhere, RunGoesOn, Approved, ProtocolInv, Durable
<1>2. run' \in States /\ access' \in BOOLEAN /\ (access' => run' # "ABSENT")
  BY DEF CreateRun, LoseAccess, Cancel, Elsewhere, ProtocolInv, ProtocolTypes, Durable, States, Approved
<1>3. \/ proof' = proof /\ (Approved(run)' <=> Approved(run))
      \/ proof' = [signer |-> "SIGNER", fresh |-> TRUE, by |-> "elsewhere"] /\ Approved(run)'
  BY DEF CreateRun, LoseAccess, Cancel, Elsewhere, Approved
<1>4. ASSUME proof' = [signer |-> "SIGNER", fresh |-> TRUE, by |-> "elsewhere"]
      PROVE  /\ proof' \in Proofs /\ proof' # None /\ proof'.signer = "SIGNER" /\ proof'.fresh
             /\ proof'.by # "page"
  <2>1. proof' \in Proofs /\ proof'.signer = "SIGNER" /\ proof'.fresh /\ proof'.by # "page"
    BY <1>4 DEF Proofs
  <2> QED
    BY <2>1, NoneIsNoProof
<1>5. ProtocolTypes' /\ Durable' /\ (OwnProof' => OwnProof)
  BY <1>1, <1>2, <1>3, <1>4 DEF ProtocolInv, ProtocolTypes, Durable, OwnProof
<1>6. OneAwaited' /\ OwnAttempt'
  BY <1>1, <1>5 DEF ProtocolInv, OneAwaited, OwnAttempt
<1>7. HeardIsTrue'
  BY <1>1, PastIsKept, HeardIsKept DEF ProtocolInv, HeardIsTrue
<1>8. ProtocolMoves
  BY <1>1, <1>3, <1>4 DEF ProtocolMoves, OwnProof
<1> QED
  BY <1>5, <1>6, <1>7, <1>8 DEF ProtocolInv

\* What is known of the run as long as only the attempt and the posts change.
Elsewise == UNCHANGED <<run, access, proof, wallet, unheard>>

LEMMA ElsewiseKeeps ==
  ASSUME Elsewise
  PROVE  /\ \A r : Past(r)' <=> Past(r)
         /\ \A a : AnswerOK(a)' <=> AnswerOK(a)
         /\ \A a : ResultOK(a)' <=> ResultOK(a)
         /\ (Moved' <=> Moved) /\ (OwnProof' <=> OwnProof) /\ (Durable' <=> Durable)
BY DEF Elsewise, Past, AnswerOK, ResultOK, Moved, OwnProof, Durable

\* An answer arrives.
LEMMA AnswerArrives ==
  ASSUME ProtocolInv, attempt.step \in Waits, NEW a, a # None, AnswerOK(a),
         attempt.step = "reconcile" => a \notin {"RECORDED", "CHALLENGE"},
         attempt.step = "reconcile" /\ OwnProof => a \notin {"AWAITING_APPROVAL", "CANCELLED"},
         attempt' = [attempt EXCEPT !.answer = a], Elsewise,
         posts' \subseteq Posts, \A p \in posts' : ~p.awaited
  PROVE  ProtocolInv' /\ ProtocolMoves
<1>1. /\ attempt' \in Attempts(attempt'.answer) /\ attempt'.answer = a
      /\ attempt'.step = attempt.step /\ attempt'.reason = attempt.reason
  BY DEF ProtocolInv, ProtocolTypes, Attempts
<1>2. ProtocolTypes' /\ OneAwaited' /\ Durable'
  BY <1>1, ElsewiseKeeps DEF ProtocolInv, ProtocolTypes, OneAwaited, Elsewise
<1>3. HeardIsTrue'
  BY <1>1, ElsewiseKeeps DEF ProtocolInv, HeardIsTrue, Waits
<1>4. OwnAttempt'
  BY <1>1, ElsewiseKeeps DEF ProtocolInv, OwnAttempt, Waits
<1> QED
  BY <1>1, <1>2, <1>3, <1>4 DEF ProtocolInv, ProtocolMoves, Elsewise, RunGoesOn

\* Nobody waits for a submission.
LEMMA NoneAwaited ==
  ASSUME ProtocolInv, attempt.step # "submit" \/ attempt.answer # None
  PROVE  \A p \in posts : ~p.awaited
BY DEF ProtocolInv, OneAwaited

LEMMA NoneIsNothing == None \notin States \cup GatewayErrors \cup {"RECORDED", "CHALLENGE"}
<1>1. \A i \in 1..5 : RunStates[i] # None
  BY NoneAssumption
<1>2. /\ RunStates[1] = "ABSENT" /\ RunStates[2] = "AWAITING_APPROVAL" /\ RunStates[3] = "PREPARING"
      /\ RunStates[4] = "CANCELLED" /\ RunStates[5] = "LATER"
  BY DEF RunStates
<1>3. None \notin States
  <2> HIDE DEF RunStates
  <2> QED
    BY <1>1, <1>2 DEF States
<1> QED
  BY <1>3, NoneAssumption

LEMMA AnswersKeep ==
  ASSUME ProtocolInv, ServeRun \/ ServeChallenge \/ LoseAnswer \/ Timeout
  PROVE  ProtocolInv' /\ ProtocolMoves
<1>1. attempt.step \in Waits /\ Elsewise
  BY DEF ServeRun, ServeChallenge, LoseAnswer, Timeout, Answer, Waits, Elsewise
<1>2. AnswerOK("FAILURE") /\ "FAILURE" # None
  BY NoneIsNothing DEF AnswerOK, GatewayErrors, States
<1>3. CASE ServeRun
  <2> DEFINE a == IF access THEN run ELSE "ACCESS_UNAVAILABLE"
  <2>1. attempt' = [attempt EXCEPT !.answer = a] /\ posts' = posts
        /\ attempt.step \in {"preflight", "reconcile"}
    BY <1>3 DEF ServeRun, Answer
  <2>2. AnswerOK(a)
    BY DEF AnswerOK, Past, Durable, ProtocolInv, ProtocolTypes, GatewayErrors, States
  <2>3. /\ OwnProof => a \notin {"AWAITING_APPROVAL", "CANCELLED"}
        /\ a \notin {"RECORDED", "CHALLENGE"}
    BY DEF OwnProof, ProtocolInv, ProtocolTypes, Durable, Approved, States
  <2>4. a # None
    BY NoneIsNothing DEF GatewayErrors, ProtocolInv, ProtocolTypes
  <2> HIDE DEF a
  <2> QED
    BY <1>1, <2>1, <2>2, <2>3, <2>4, NoneAwaited, AnswerArrives DEF ProtocolInv, ProtocolTypes
<1>4. CASE ServeChallenge
  <2> DEFINE a == CASE ~access -> "ACCESS_UNAVAILABLE"
                    [] access /\ run # "AWAITING_APPROVAL" -> "STALE_OR_STATE_CONFLICT"
                    [] OTHER -> "CHALLENGE"
  <2>1. attempt' = [attempt EXCEPT !.answer = a] /\ posts' = posts /\ attempt.step = "challenge"
    BY <1>4 DEF ServeChallenge, Answer
  <2>2. \/ a \in {"ACCESS_UNAVAILABLE", "CHALLENGE"}
        \/ a = "STALE_OR_STATE_CONFLICT" /\ Moved
    BY DEF Moved, ProtocolInv, Durable
  <2>3. AnswerOK(a) /\ a # None
    <3> HIDE DEF a
    <3> QED
      BY <2>2, NoneIsNothing DEF AnswerOK, GatewayErrors, States
  <2> HIDE DEF a
  <2> QED
    BY <1>1, <2>1, <2>3, NoneAwaited, AnswerArrives DEF ProtocolInv, ProtocolTypes
<1>5. CASE LoseAnswer
  <2>1. attempt' = [attempt EXCEPT !.answer = "FAILURE"] /\ posts' = posts /\ attempt.answer # None
    BY <1>5 DEF LoseAnswer, Answer
  <2> QED
    BY <1>1, <1>2, <2>1, NoneAwaited, AnswerArrives DEF ProtocolInv, ProtocolTypes
<1>6. CASE Timeout
  <2>1. /\ attempt' = [attempt EXCEPT !.answer = "FAILURE"]
        /\ posts' = {[p EXCEPT !.awaited = FALSE] : p \in posts}
    BY <1>6 DEF Timeout, Answer
  <2>2. posts' \subseteq Posts /\ \A p \in posts' : ~p.awaited
    BY <2>1, NobodyWaits DEF ProtocolInv
  <2> QED
    BY <1>1, <1>2, <2>1, <2>2, AnswerArrives
<1> QED
  BY <1>3, <1>4, <1>5, <1>6

LEMMA PostGone ==
  ASSUME ProtocolInv, NEW p \in posts, posts' = posts \ {p}, Elsewise,
         NEW a, a # None, AnswerOK(a), Reply(p, a)
  PROVE  ProtocolInv' /\ ProtocolMoves
<1>1. posts' \subseteq Posts
  BY DEF ProtocolInv, ProtocolTypes
<1>2. CASE p.awaited
  <2>1. attempt.step = "submit" /\ \A q \in posts' : ~q.awaited
    BY <1>2 DEF ProtocolInv, OneAwaited
  <2>2. attempt' = [attempt EXCEPT !.answer = a]
    BY <1>2, <2>1 DEF Reply
  <2> QED
    BY <1>1, <2>1, <2>2, AnswerArrives DEF Waits
<1>3. CASE ~p.awaited
  <2>1. attempt' = attempt
    BY <1>3 DEF Reply
  <2>2. ProtocolTypes' /\ OneAwaited'
    BY <1>1, <2>1 DEF ProtocolInv, ProtocolTypes, OneAwaited, Elsewise
  <2>3. Durable' /\ HeardIsTrue' /\ OwnAttempt'
    BY <2>1, ElsewiseKeeps DEF ProtocolInv, HeardIsTrue, OwnAttempt
  <2> QED
    BY <2>1, <2>2, <2>3 DEF ProtocolInv, ProtocolMoves, Elsewise, RunGoesOn
<1> QED
  BY <1>2, <1>3

\* The one step that records an approval this page may have sent.
LEMMA Records ==
  ASSUME ProtocolInv, NEW p \in posts, ServeApproval(p),
         access, run = "AWAITING_APPROVAL", Verify(p)
  PROVE  ProtocolInv' /\ ProtocolMoves
<1> DEFINE new == [signer |-> p.signer, fresh |-> p.fresh,
                   by |-> IF p.awaited THEN "page" ELSE "late"]
<1>1. /\ run' = "PREPARING" /\ proof' = new /\ Reply(p, "RECORDED")
      /\ posts' = posts \ {p} /\ UNCHANGED <<access, wallet, unheard>>
  BY DEF ServeApproval
<1>2. /\ new \in Proofs /\ new.signer = "SIGNER" /\ new.fresh
      /\ (new.by = "page" => p.awaited)
  BY DEF Proofs, Verify, ProtocolInv, ProtocolTypes, Posts
<1> HIDE DEF new
<1>3. proof' # None /\ RunGoesOn /\ Durable' /\ (OwnProof' => p.awaited)
  BY <1>1, <1>2, NoneIsNoProof DEF RunGoesOn, Durable, Approved, OwnProof
<1>4. p.awaited => attempt.step = "submit" /\ \A q \in posts' : ~q.awaited
  BY <1>1 DEF ProtocolInv, OneAwaited
<1>5. /\ attempt' \in Attempts(attempt'.answer) /\ attempt'.step = attempt.step
      /\ attempt'.reason = attempt.reason
      /\ attempt'.answer = IF p.awaited THEN "RECORDED" ELSE attempt.answer
  BY <1>1, <1>4 DEF Reply, ProtocolInv, ProtocolTypes, Attempts
<1>6. ProtocolTypes'
  BY <1>1, <1>2, <1>5 DEF ProtocolInv, ProtocolTypes, States
<1>7. OneAwaited'
  BY <1>1, <1>4, <1>5 DEF ProtocolInv, OneAwaited
<1>8. HeardIsTrue'
  <2>1. AnswerOK("RECORDED")'
    BY DEF AnswerOK, States, GatewayErrors
  <2> QED
    BY <1>3, <1>4, <1>5, <2>1, PastIsKept, HeardIsKept DEF ProtocolInv, HeardIsTrue, Waits
<1>9. OwnAttempt'
  BY <1>3, <1>4, <1>5 DEF OwnAttempt
<1>10. ProtocolMoves
  BY <1>1, <1>3, <1>4, <1>5 DEF ProtocolMoves
<1> QED
  BY <1>3, <1>6, <1>7, <1>8, <1>9, <1>10 DEF ProtocolInv

LEMMA PostsKeep ==
  ASSUME ProtocolInv, NEW p \in posts, ServeApproval(p) \/ LoseApproval(p)
  PROVE  ProtocolInv' /\ ProtocolMoves
<1>1. CASE LoseApproval(p)
  <2>1. AnswerOK("FAILURE") /\ "FAILURE" # None
    BY NoneIsNothing DEF AnswerOK, GatewayErrors, States
  <2> QED
    BY <1>1, <2>1, PostGone DEF LoseApproval, Elsewise
<1>2. CASE ServeApproval(p) /\ access /\ run = "AWAITING_APPROVAL" /\ Verify(p)
  BY <1>2, Records
<1>3. CASE ServeApproval(p) /\ ~(access /\ run = "AWAITING_APPROVAL" /\ Verify(p))
  <2>1. \/ RefusedAs(p) = "ACCESS_UNAVAILABLE"
        \/ RefusedAs(p) = "STALE_OR_STATE_CONFLICT" /\ Moved
    BY DEF RefusedAs, Moved, ProtocolInv, Durable
  <2>2. AnswerOK(RefusedAs(p)) /\ RefusedAs(p) # None
    BY <2>1, NoneIsNothing DEF AnswerOK, GatewayErrors, States
  <2>3. posts' = posts \ {p} /\ Elsewise /\ Reply(p, RefusedAs(p))
    BY <1>3 DEF ServeApproval, Elsewise
  <2> QED
    BY <2>2, <2>3, PostGone
<1> QED
  BY <1>1, <1>2, <1>3

LEMMA ExpiryKeeps ==
  ASSUME ProtocolInv, ExpireChallenge
  PROVE  ProtocolInv' /\ ProtocolMoves
<1>1. Elsewise /\ posts' = {[p EXCEPT !.fresh = FALSE] : p \in posts}
  BY DEF ExpireChallenge, Elsewise
<1>2. /\ attempt' \in Attempts(attempt'.answer) /\ attempt'.answer = attempt.answer
      /\ attempt'.step = attempt.step /\ attempt'.reason = attempt.reason
  BY DEF ExpireChallenge, ProtocolInv, ProtocolTypes, Attempts
<1>3. ProtocolTypes' /\ OneAwaited'
  BY <1>1, <1>2, ApprovalsExpire DEF ProtocolInv, ProtocolTypes, OneAwaited, Elsewise
<1>4. Durable' /\ HeardIsTrue' /\ OwnAttempt'
  BY <1>1, <1>2, ElsewiseKeeps DEF ProtocolInv, HeardIsTrue, OwnAttempt
<1> QED
  BY <1>1, <1>2, <1>3, <1>4 DEF ProtocolInv, ProtocolMoves, Elsewise, RunGoesOn

LEMMA WalletChanges ==
  ASSUME ProtocolInv, ChangeWallet
  PROVE  ProtocolInv' /\ ProtocolMoves
<1>1. UNCHANGED <<run, access, proof, posts, attempt>> /\ unheard'
  BY DEF ChangeWallet
<1>2. wallet'.account \in Accounts
  BY DEF ChangeWallet, WalletState, Accounts
<1>3. ProtocolTypes' /\ OneAwaited' /\ Durable' /\ OwnAttempt'
  BY <1>1, <1>2 DEF ProtocolInv, ProtocolTypes, OneAwaited, Durable, OwnAttempt, OwnProof
<1>4. HeardIsTrue'
  BY <1>1 DEF ProtocolInv, HeardIsTrue, AnswerOK, ResultOK, Past, Moved
<1> QED
  BY <1>1, <1>3, <1>4 DEF ProtocolInv, ProtocolMoves, RunGoesOn

\* A step of the browser: only the attempt changes, and nobody waits for a submission.
LEMMA AttemptGoes ==
  ASSUME ProtocolInv, \A p \in posts : ~p.awaited, Elsewise, posts' = posts,
         attempt' \in Attempts(attempt'.answer), HeardIsTrue', OwnAttempt',
         attempt.step # "idle", attempt'.step # "idle",
         attempt'.step \in Approving => attempt.step \in Approving
  PROVE  ProtocolInv' /\ ProtocolMoves
<1>1. ProtocolTypes' /\ OneAwaited' /\ Durable'
  BY ElsewiseKeeps DEF ProtocolInv, ProtocolTypes, OneAwaited, Elsewise
<1> QED
  BY <1>1 DEF ProtocolInv, ProtocolMoves, Elsewise, RunGoesOn

\* A result, or an error, ends the attempt.
LEMMA Ends ==
  ASSUME ProtocolInv, \A p \in posts : ~p.awaited, attempt.step # "idle",
         NEW x, ResultOK(x), EndsWith(x),
         OwnProof => x.outcome \in
             {"APPROVAL_RECORDED", "APPROVAL_UNCONFIRMED", "ACCESS_UNAVAILABLE"}
  PROVE  ProtocolInv' /\ ProtocolMoves
<1>1. Elsewise /\ posts' = posts /\ attempt' = [NoAttempt EXCEPT !.step = "done", !.answer = x]
  BY DEF EndsWith, Elsewise
<1>2. attempt' \in Attempts(attempt'.answer) /\ attempt'.step = "done" /\ attempt'.answer = x
  BY <1>1, NewAttempt
<1>3. HeardIsTrue' /\ OwnAttempt'
  BY <1>1, <1>2, ElsewiseKeeps DEF HeardIsTrue, OwnAttempt, Waits
<1> QED
  BY <1>1, <1>2, <1>3, AttemptGoes DEF Approving

LEMMA ErrorsAreResults ==
  ASSUME NEW code \in Codes
  PROVE  ResultOK(Thrown(code)) /\ Thrown(code).outcome = "THROWN"
<1>1. /\ Thrown(code) \in [outcome : {"THROWN"}, code : Codes]
      /\ Thrown(code).outcome = "THROWN"
  BY DEF Thrown
<1> HIDE DEF Thrown
<1> QED
  BY <1>1 DEF ResultOK, Results, NotRecorded

LEMMA OutcomesAreResults ==
  ASSUME NEW o \in Outcomes, NEW r \in States \cup {None},
         o \in NotRecorded \cup {"APPROVAL_RECORDED"} => Past(r) /\ r # "ABSENT",
         o = "APPROVAL_RECORDED" => Approved(r),
         o = "STALE_OR_CHANGED" => Moved
  PROVE  ResultOK(Outcome(o, r)) /\ Outcome(o, r).outcome = o
<1>1. /\ Outcome(o, r) \in [outcome : Outcomes, run : States \cup {None}]
      /\ Outcome(o, r).outcome = o /\ Outcome(o, r).run = r
  BY DEF Outcome
<1> HIDE DEF Outcome
<1> QED
  BY <1>1 DEF ResultOK, Results

LEMMA PreflightKeeps ==
  ASSUME ProtocolInv, TakePreflight
  PROVE  ProtocolInv' /\ ProtocolMoves
<1> DEFINE a == attempt.answer
<1>1. /\ attempt.step = "preflight" /\ a # None /\ AnswerOK(a) /\ ~OwnProof
      /\ \A p \in posts : ~p.awaited
  BY DEF TakePreflight, ProtocolInv, HeardIsTrue, OwnAttempt, OneAwaited, Waits
<1>2. CASE \E code \in Codes : EndsWith(Thrown(code))
  BY <1>1, <1>2, ErrorsAreResults, Ends
<1>3. CASE a = "PREPARING" /\ EndsWith(Outcome("APPROVAL_RECORDED", a))
  <2>1. Past(a) /\ a \in States /\ Approved(a) /\ a # "ABSENT"
    BY <1>1, <1>3 DEF AnswerOK, States, Approved
  <2>2. ResultOK(Outcome("APPROVAL_RECORDED", a))
    BY <2>1, OutcomesAreResults DEF Outcomes
  <2> QED
    BY <1>1, <1>3, <2>2, Ends
<1>4. CASE EndsWith(Outcome("APPROVAL_UNCONFIRMED", None))
  BY <1>1, <1>4, OutcomesAreResults, Ends DEF Outcomes, NotRecorded
<1>5. CASE a = "CANCELLED" /\ EndsWith(Outcome("STALE_OR_CHANGED", a))
  <2>1. Past(a) /\ a \in States /\ a # "ABSENT" /\ Moved
    BY <1>1, <1>5 DEF AnswerOK, States, Past, Moved
  <2>2. ResultOK(Outcome("STALE_OR_CHANGED", a))
    BY <2>1, OutcomesAreResults DEF Outcomes, NotRecorded
  <2> QED
    BY <1>1, <1>5, <2>2, Ends
<1>6. CASE GoesOn("challenge")
  <2>1. /\ Elsewise /\ posts' = posts
        /\ attempt' \in Attempts(None) /\ attempt'.step = "challenge" /\ attempt'.answer = None
    BY <1>6 DEF GoesOn, Elsewise, ProtocolInv, ProtocolTypes, Attempts, Steps, Waits
  <2>2. HeardIsTrue' /\ OwnAttempt'
    BY <1>1, <2>1, ElsewiseKeeps DEF HeardIsTrue, OwnAttempt, AnswerOK
  <2> QED
    BY <1>1, <2>1, <2>2, AttemptGoes DEF Approving
<1>7. \/ a \in GatewayErrors /\ EndsWith(Thrown(a))
      \/ a = "PREPARING" /\ EndsWith(Outcome("APPROVAL_RECORDED", a))
      \/ EndsWith(Outcome("APPROVAL_UNCONFIRMED", None))
      \/ a = "CANCELLED" /\ EndsWith(Outcome("STALE_OR_CHANGED", a))
      \/ GoesOn("challenge")
  <2>1. CASE a \in GatewayErrors
    BY <2>1 DEF TakePreflight, RecordedApproval, GatewayErrors, Approved
  <2>2. CASE a = "PREPARING"
    BY <2>2 DEF TakePreflight, RecordedApproval, GatewayErrors
  <2>3. CASE a = "LATER"
    BY <2>3 DEF TakePreflight, RecordedApproval, GatewayErrors, Approved
  <2>4. CASE a = "CANCELLED"
    BY <2>4 DEF TakePreflight, RecordedApproval, GatewayErrors, Approved
  <2>5. CASE a \notin GatewayErrors \cup {"PREPARING", "LATER", "CANCELLED"}
    BY <2>5 DEF TakePreflight, RecordedApproval, Approved
  <2> QED
    BY <2>1, <2>2, <2>3, <2>4, <2>5
<1> QED
  BY <1>2, <1>3, <1>4, <1>5, <1>6, <1>7 DEF Codes

LEMMA Reconciles ==
  ASSUME ProtocolInv, \A p \in posts : ~p.awaited, attempt.step \in {"challenge", "submit"},
         AnswerOK(attempt.answer), attempt.answer # None, Reconcile(ReasonFor(attempt.answer))
  PROVE  ProtocolInv' /\ ProtocolMoves
<1> DEFINE reason == ReasonFor(attempt.answer)
<1>1. reason \in NotRecorded /\ (reason = "STALE_OR_CHANGED" => Moved)
  BY DEF ReasonFor, NotRecorded, AnswerOK
<1>2. /\ Elsewise /\ posts' = posts
      /\ attempt' = [NoAttempt EXCEPT !.step = "reconcile", !.reason = reason]
  BY DEF Reconcile, Elsewise
<1> HIDE DEF reason
<1>3. /\ attempt' \in Attempts(None) /\ attempt'.step = "reconcile" /\ attempt'.answer = None
      /\ attempt'.reason = reason
  <2>1. "reconcile" \in Steps
    BY DEF Steps, Waits
  <2>2. LET x == [NoAttempt EXCEPT !.step = "reconcile", !.reason = reason] IN
        x \in Attempts(None) /\ x.step = "reconcile" /\ x.answer = None /\ x.reason = reason
    BY <1>1, <2>1, NewAttempt
  <2> QED
    BY <1>2, <2>2
<1>4. HeardIsTrue' /\ OwnAttempt'
  BY <1>1, <1>2, <1>3, ElsewiseKeeps, NoneIsNothing DEF HeardIsTrue, OwnAttempt, AnswerOK
<1> QED
  BY <1>2, <1>3, <1>4, AttemptGoes DEF Approving

LEMMA ChallengeKeeps ==
  ASSUME ProtocolInv, TakeChallenge \/ RejectChallenge
  PROVE  ProtocolInv' /\ ProtocolMoves
<1>1. /\ attempt.step = "challenge" /\ AnswerOK(attempt.answer) /\ ~OwnProof
      /\ \A p \in posts : ~p.awaited
  BY DEF TakeChallenge, RejectChallenge, ProtocolInv, HeardIsTrue, OwnAttempt, OneAwaited, Waits
<1>2. CASE EndsWith(Thrown("FAILURE")) \/ EndsWith(Thrown("CHALLENGE_REFUSED"))
  BY <1>1, <1>2, ErrorsAreResults, Ends DEF Codes, GatewayErrors
<1>3. CASE attempt.answer # None /\ Reconcile(ReasonFor(attempt.answer))
  BY <1>1, <1>3, Reconciles
<1>4. CASE /\ attempt' = [NoAttempt EXCEPT !.step = "accounts"]
           /\ UNCHANGED <<run, access, proof, posts, wallet, unheard>>
  <2>1. /\ Elsewise /\ posts' = posts
        /\ attempt' \in Attempts(None) /\ attempt'.step = "accounts" /\ attempt'.answer = None
    BY <1>4, NewAttempt DEF Elsewise, Steps
  <2>2. HeardIsTrue' /\ OwnAttempt'
    BY <1>1, <2>1, ElsewiseKeeps DEF HeardIsTrue, OwnAttempt, Waits
  <2> QED
    BY <1>1, <2>1, <2>2, AttemptGoes DEF Approving
<1> QED
  BY <1>2, <1>3, <1>4 DEF TakeChallenge, RejectChallenge

LEMMA SubmissionKeeps ==
  ASSUME ProtocolInv, TakeSubmission
  PROVE  ProtocolInv' /\ ProtocolMoves
<1>1. /\ attempt.step = "submit" /\ AnswerOK(attempt.answer) /\ attempt.answer # None
      /\ \A p \in posts : ~p.awaited
  BY DEF TakeSubmission, ProtocolInv, HeardIsTrue, OneAwaited, Waits
<1> QED
  BY <1>1, Reconciles DEF TakeSubmission

LEMMA ReconciliationKeeps ==
  ASSUME ProtocolInv, TakeReconciliation
  PROVE  ProtocolInv' /\ ProtocolMoves
<1> DEFINE a == attempt.answer
<1>1. /\ attempt.step = "reconcile" /\ a # None /\ AnswerOK(a) /\ a \notin {"RECORDED", "CHALLENGE"}
      /\ attempt.reason \in NotRecorded /\ (attempt.reason = "STALE_OR_CHANGED" => Moved)
      /\ OwnProof => a \notin {"AWAITING_APPROVAL", "CANCELLED"}
      /\ \A p \in posts : ~p.awaited
  BY DEF TakeReconciliation, ProtocolInv, HeardIsTrue, OwnAttempt, OneAwaited, Waits
<1>2. CASE EndsWith(Outcome("ACCESS_UNAVAILABLE", None))
  BY <1>1, <1>2, OutcomesAreResults, Ends DEF Outcomes, NotRecorded
<1>3. CASE EndsWith(Outcome("APPROVAL_UNCONFIRMED", None))
  BY <1>1, <1>3, OutcomesAreResults, Ends DEF Outcomes, NotRecorded
<1>4. CASE a = "PREPARING" /\ EndsWith(Outcome("APPROVAL_RECORDED", a))
  <2>1. Past(a) /\ a \in States /\ Approved(a) /\ a # "ABSENT"
    BY <1>1, <1>4 DEF AnswerOK, States, Approved
  <2>2. ResultOK(Outcome("APPROVAL_RECORDED", a))
        /\ Outcome("APPROVAL_RECORDED", a).outcome = "APPROVAL_RECORDED"
    BY <2>1, OutcomesAreResults DEF Outcomes
  <2> QED
    BY <1>1, <1>4, <2>2, Ends
<1>5. CASE a \in {"AWAITING_APPROVAL", "CANCELLED"} /\ EndsWith(Outcome(attempt.reason, a))
  <2>1. Past(a) /\ a \in States /\ a # "ABSENT" /\ ~OwnProof
    BY <1>1, <1>5 DEF AnswerOK, States
  <2>2. ResultOK(Outcome(attempt.reason, a))
    BY <1>1, <2>1, OutcomesAreResults DEF Outcomes, NotRecorded
  <2> QED
    BY <1>1, <1>5, <2>1, <2>2, Ends
<1>6. a \in GatewayErrors \cup {"AWAITING_APPROVAL", "PREPARING", "CANCELLED", "LATER"}
  BY <1>1 DEF AnswerOK, States
<1>7. \/ EndsWith(Outcome("ACCESS_UNAVAILABLE", None))
      \/ EndsWith(Outcome("APPROVAL_UNCONFIRMED", None))
      \/ a = "PREPARING" /\ EndsWith(Outcome("APPROVAL_RECORDED", a))
      \/ a \in {"AWAITING_APPROVAL", "CANCELLED"} /\ EndsWith(Outcome(attempt.reason, a))
  BY <1>6 DEF TakeReconciliation, RecordedApproval, GatewayErrors, Approved
<1> QED
  BY <1>2, <1>3, <1>4, <1>5, <1>7

LEMMA SigningKeeps ==
  ASSUME ProtocolInv, Signing
  PROVE  ProtocolInv' /\ ProtocolMoves
<1>1. /\ attempt.step \in {"accounts", "chain", "sign"} /\ ~OwnProof
      /\ \A p \in posts : ~p.awaited
  BY DEF Signing, ReadAccounts, ReadChain, Sign, NotSigned, InspectionFails, ProtocolInv,
         OwnAttempt, OneAwaited
<1>2. CASE \E code \in Codes : EndsWith(Thrown(code))
  BY <1>1, <1>2, ErrorsAreResults, Ends
<1>3. ASSUME UNCHANGED <<run, access, proof, posts, wallet, unheard>>,
             attempt' \in Attempts(attempt'.answer), attempt'.step \in {"chain", "sign"}
      PROVE  ProtocolInv' /\ ProtocolMoves
  <2>1. Elsewise /\ posts' = posts
    BY <1>3 DEF Elsewise
  <2>2. HeardIsTrue' /\ OwnAttempt'
    BY <1>1, <1>3, <2>1, ElsewiseKeeps DEF HeardIsTrue, OwnAttempt, Waits
  <2> QED
    BY <1>1, <1>3, <2>1, <2>2, AttemptGoes DEF Approving
<1>4. CASE ReadAccounts
  <2>1. attempt' \in Attempts(attempt'.answer) /\ attempt'.step = "chain"
    BY <1>4 DEF ReadAccounts, ProtocolInv, ProtocolTypes, Attempts, Steps, Waits
  <2> QED
    BY <1>3, <1>4, <2>1 DEF ReadAccounts
<1>5. CASE ReadChain
  <2>1. CASE attempt' = [attempt EXCEPT !.step = "sign", !.accounts = None]
             /\ UNCHANGED <<run, access, proof, posts, wallet, unheard>>
    <3>1. attempt' \in Attempts(attempt'.answer) /\ attempt'.step = "sign"
      BY <2>1 DEF ProtocolInv, ProtocolTypes, Attempts, Steps, Waits
    <3> QED
      BY <1>3, <2>1, <3>1
  <2> QED
    BY <1>2, <1>5, <2>1 DEF ReadChain, Codes
<1>6. CASE Sign
  <2> DEFINE post == [signer |-> wallet.account, fresh |-> attempt.fresh, awaited |-> TRUE]
  <2>1. /\ Elsewise /\ posts' = posts \cup {post}
        /\ attempt' \in Attempts(None) /\ attempt'.step = "submit" /\ attempt'.answer = None
    BY <1>6, NewAttempt DEF Sign, Elsewise, Steps, Waits
  <2>2. post \in Posts
    BY DEF ProtocolInv, ProtocolTypes, Attempts, Posts, Accounts
  <2> HIDE DEF post
  <2>3. ProtocolTypes' /\ OneAwaited' /\ Durable'
    BY <1>1, <2>1, <2>2, ElsewiseKeeps DEF ProtocolInv, ProtocolTypes, OneAwaited, Elsewise
  <2>4. HeardIsTrue' /\ OwnAttempt'
    BY <1>1, <2>1, ElsewiseKeeps DEF HeardIsTrue, OwnAttempt, AnswerOK
  <2> QED
    BY <1>1, <2>1, <2>3, <2>4 DEF ProtocolInv, ProtocolMoves, Elsewise, RunGoesOn, Approving
<1>7. CASE NotSigned \/ InspectionFails
  BY <1>2, <1>7 DEF NotSigned, InspectionFails, Codes
<1> QED
  BY <1>4, <1>5, <1>6, <1>7 DEF Signing

LEMMA ProtocolKeeps ==
  ASSUME ProtocolInv, Outside \/ Served \/ Browser \/ Signing
  PROVE  ProtocolInv' /\ ProtocolMoves
BY RunMoves, AnswersKeep, PostsKeep, ExpiryKeeps, WalletChanges, PreflightKeeps, ChallengeKeeps,
   SubmissionKeeps, ReconciliationKeeps, SigningKeeps DEF Outside, Served, Browser

-----------------------------------------------------------------------------
(* The protocol's part under the steps of the page, which leave the run alone *)

ServerRests == UNCHANGED serverVars /\ wallet'.account = wallet.account

LEMMA ServerKeeps ==
  ASSUME ServerRests
  PROVE  /\ \A r : Past(r)' <=> Past(r)
         /\ \A a : AnswerOK(a)' <=> AnswerOK(a)
         /\ \A a : ResultOK(a)' <=> ResultOK(a)
         /\ (Moved' <=> Moved) /\ (OwnProof' <=> OwnProof) /\ (Durable' <=> Durable)
BY DEF ServerRests, serverVars, Past, AnswerOK, ResultOK, Moved, OwnProof, Durable

LEMMA AttemptRests ==
  ASSUME ProtocolInv, ServerRests, UNCHANGED <<posts, attempt>>
  PROVE  ProtocolInv'
<1>1. ProtocolTypes' /\ OneAwaited'
  BY DEF ProtocolInv, ProtocolTypes, OneAwaited, ServerRests, serverVars
<1>2. HeardIsTrue' /\ OwnAttempt' /\ Durable'
  BY ServerKeeps DEF ProtocolInv, HeardIsTrue, OwnAttempt
<1> QED
  BY <1>1, <1>2 DEF ProtocolInv

\* The attempt is given up, or its result was taken.
LEMMA AttemptEnds ==
  ASSUME ProtocolInv, ServerRests, attempt' = NoAttempt,
         \/ posts' = {[p EXCEPT !.awaited = FALSE] : p \in posts}
         \/ posts' = posts /\ attempt.step # "submit"
  PROVE  ProtocolInv' /\ attempt'.step = "idle"
<1>1. posts' \subseteq Posts /\ \A p \in posts' : ~p.awaited
  BY NobodyWaits, NoneAwaited DEF ProtocolInv, ProtocolTypes
<1>2. attempt' \in Attempts(None) /\ attempt'.step = "idle" /\ attempt'.answer = None
  BY NewAttempt
<1>3. ProtocolTypes' /\ OneAwaited' /\ Durable'
  BY <1>1, <1>2, ServerKeeps DEF ProtocolInv, ProtocolTypes, OneAwaited, ServerRests, serverVars
<1>4. HeardIsTrue' /\ OwnAttempt'
  BY <1>2 DEF HeardIsTrue, OwnAttempt, Waits
<1> QED
  BY <1>2, <1>3, <1>4 DEF ProtocolInv

\* An approval or a refresh begins; an approval only if none of the page's was recorded.
LEMMA AttemptBegins ==
  ASSUME ProtocolInv, ServerRests, posts' = posts, attempt.step = "idle",
         \/ BeginAt("preflight", None) /\ ~OwnProof
         \/ BeginAt("reconcile", "REFUSED_OR_UNRECORDED")
  PROVE  ProtocolInv' /\ attempt'.step \in {"preflight", "reconcile"}
         /\ (attempt'.step \in Approving => BeginAt("preflight", None))
<1>1. \A p \in posts : ~p.awaited
  BY NoneAwaited
<1>2. /\ attempt' \in Attempts(None) /\ attempt'.answer = None
      /\ \/ attempt'.step = "preflight" /\ BeginAt("preflight", None) /\ ~OwnProof
         \/ attempt'.step = "reconcile" /\ attempt'.reason = "REFUSED_OR_UNRECORDED"
  <2>1. "preflight" \in Steps /\ "reconcile" \in Steps
        /\ "REFUSED_OR_UNRECORDED" \in NotRecorded
    BY DEF Steps, Waits, NotRecorded
  <2>2. ASSUME NEW s \in Steps, NEW r \in NotRecorded \cup {None}, BeginAt(s, r)
        PROVE  attempt' \in Attempts(None) /\ attempt'.step = s
               /\ attempt'.answer = None /\ attempt'.reason = r
    <3>1. NoAttempt \in Attempts(None) /\ NoAttempt.answer = None
      BY NewAttempt
    <3>2. attempt' = [NoAttempt EXCEPT !.step = s, !.reason = r]
      BY <2>2 DEF BeginAt
    <3> QED
      BY <3>1, <3>2 DEF Attempts
  <2> QED
    BY <2>1, <2>2
<1>3. ProtocolTypes' /\ OneAwaited' /\ Durable'
  BY <1>1, <1>2, ServerKeeps DEF ProtocolInv, ProtocolTypes, OneAwaited, ServerRests, serverVars
<1>4. HeardIsTrue' /\ OwnAttempt'
  BY <1>2, ServerKeeps, NoneIsNothing DEF HeardIsTrue, OwnAttempt, AnswerOK, NotRecorded
<1> QED
  BY <1>2, <1>3, <1>4 DEF ProtocolInv, Approving

LEMMA EventKeeps ==
  ASSUME ProtocolInv, WalletEvent
  PROVE  ProtocolInv' /\ attempt'.step = attempt.step
<1>1. ServerRests /\ posts' = posts
  BY DEF WalletEvent, ServerRests, serverVars
<1>2. /\ attempt' \in Attempts(attempt'.answer) /\ attempt'.answer = attempt.answer
      /\ attempt'.step = attempt.step /\ attempt'.reason = attempt.reason
  BY DEF WalletEvent, ProtocolInv, ProtocolTypes, Attempts
<1>3. ProtocolTypes' /\ OneAwaited' /\ Durable'
  BY <1>1, <1>2, ServerKeeps DEF ProtocolInv, ProtocolTypes, OneAwaited, ServerRests, serverVars
<1>4. HeardIsTrue' /\ OwnAttempt'
  BY <1>1, <1>2, ServerKeeps DEF ProtocolInv, HeardIsTrue, OwnAttempt
<1> QED
  BY <1>2, <1>3, <1>4 DEF ProtocolInv

-----------------------------------------------------------------------------
(* What the page adds *)

ShownInv == OwnStatus /\ Displayed /\ StatusIsTrue /\ SessionOK

LEMMA Parts == ApprovalInv <=> ProtocolInv /\ ShownInv
BY DEF ApprovalInv, ProtocolInv, ShownInv

LEMMA ProtocolShown ==
  ASSUME ApprovalInv, Protocol
  PROVE  ApprovalInv'
<1>1. ProtocolInv /\ ShownInv /\ UNCHANGED pageVars
  BY Parts DEF Protocol
<1>2. ProtocolInv' /\ ProtocolMoves
  BY <1>1, ProtocolKeeps DEF Protocol
<1>3. OwnStatus'
  <2>1. OwnProof' => OwnProof \/ attempt.step = "submit"
    BY <1>2 DEF ProtocolMoves, OwnProof
  <2> QED
    BY <1>1, <2>1 DEF ShownInv, OwnStatus, StatusIsTrue, Locked, Approving, pageVars
<1>4. Displayed'
  <2>1. \A r \in States : Past(r) => Past(r)'
    BY <1>2, PastIsKept DEF ProtocolMoves
  <2>2. Past(view)' /\ Past(target)'
    BY <1>1, <2>1 DEF ShownInv, Displayed, Past, pageVars
  <2> QED
    BY <1>1, <1>2, <2>2 DEF ShownInv, Displayed, ProtocolMoves, pageVars
<1>5. StatusIsTrue'
  <2>1. (Moved => Moved') /\ (Approved(run) => Approved(run)')
    BY <1>2, PastIsKept DEF ProtocolMoves
  <2>2. /\ attempt'.step \in Approving => attempt.step \in Approving
        /\ attempt'.step = "idle" => attempt.step = "idle"
        /\ UNCHANGED <<approvalStatus, surface, session>> /\ StatusIsTrue
    BY <1>1, <1>2 DEF ProtocolMoves, pageVars, ShownInv
  <2> QED
    BY <2>1, <2>2 DEF StatusIsTrue
<1>6. SessionOK'
  BY <1>1, <1>2 DEF ShownInv, SessionOK, ProtocolMoves, pageVars, Controlled, NoOp
<1> QED
  BY <1>2, <1>3, <1>4, <1>5, <1>6, Parts DEF ShownInv, ApprovalInv, ProtocolInv

\* The order of a run's states.
LEMMA Ranks ==
  /\ Rank("ABSENT") = 1 /\ Rank("AWAITING_APPROVAL") = 2 /\ Rank("PREPARING") = 3
  /\ Rank("CANCELLED") = 4 /\ Rank("LATER") = 5
<1>1. DOMAIN RunStates = 1..5
  BY DEF RunStates
<1>2. /\ RunStates[1] = "ABSENT" /\ RunStates[2] = "AWAITING_APPROVAL"
      /\ RunStates[3] = "PREPARING" /\ RunStates[4] = "CANCELLED" /\ RunStates[5] = "LATER"
  BY DEF RunStates
<1> HIDE DEF RunStates
<1> QED
  BY <1>1, <1>2 DEF Rank

\* What accepting a run that was read does to the display.
LEMMA Accepts ==
  ASSUME Displayed, ServerRests, NEW r, Past(r), r # "ABSENT", Accept(r), target' = target,
         view # "ABSENT"
  PROVE  Displayed'
<1>1. r \in States /\ view \in States
  BY DEF Past, Displayed
<1>2. view' \in {r, view} /\ (view' = "AWAITING_APPROVAL" => view = "AWAITING_APPROVAL")
  BY <1>1, Ranks DEF Accept, Accepted, States
<1>3. Past(view') /\ Past(target')
  BY <1>2 DEF Displayed
<1> QED
  BY <1>2, <1>3, ServerKeeps DEF Displayed, Past, ServerRests, serverVars

LEMMA NoneIsNoOp == NoOp.step = "none" /\ NoOp.accounts = None /\ NoOp.intact = TRUE
BY DEF NoOp

LEMMA OpenKeeps ==
  ASSUME ApprovalInv, Open
  PROVE  ApprovalInv'
<1>1. ProtocolInv /\ ShownInv
  BY Parts
<1>2. ProtocolInv'
  BY <1>1, AttemptRests DEF Open, ServerRests, protocolVars, serverVars
<1>3. /\ UNCHANGED protocolVars /\ view = "ABSENT" /\ view' = run /\ run # "ABSENT"
      /\ target' \in {run, target} /\ target = "ABSENT" /\ attempt.step = "idle"
      /\ UNCHANGED <<surface, session, op>> /\ session = None
      /\ approvalStatus' = (IF Approved(run) THEN "RECORDED" ELSE "IDLE")
      /\ readiness' = "NO_WALLET"
  BY <1>1 DEF Open, ShownInv, Displayed, SessionOK, Controlled, ProtocolInv, Durable
<1>4. OwnStatus'
  BY <1>1, <1>3 DEF OwnStatus, OwnProof, protocolVars, ProtocolInv, Durable, Locked
<1>5. Displayed'
  BY <1>1, <1>3 DEF Displayed, ProtocolInv, ProtocolTypes, Past, protocolVars, States, Approved
<1>6. StatusIsTrue'
  BY <1>1, <1>3 DEF StatusIsTrue, protocolVars, Approving, PlanApprovalStatus
<1>7. SessionOK'
  BY <1>1, <1>3 DEF ShownInv, SessionOK, protocolVars
<1> QED
  BY <1>2, <1>4, <1>5, <1>6, <1>7, Parts DEF ShownInv, ApprovalInv, ProtocolInv

LEMMA CloseKeeps ==
  ASSUME ApprovalInv, Close
  PROVE  ApprovalInv'
<1>1. ProtocolInv /\ ShownInv /\ ServerRests
  BY Parts DEF Close, ServerRests
<1>2. ProtocolInv' /\ attempt'.step = "idle"
  BY <1>1, AttemptEnds DEF Close, Drop
<1>3. /\ view' = "ABSENT" /\ target' = "ABSENT" /\ approvalStatus' = "IDLE"
      /\ readiness' = "NO_WALLET" /\ session' = None /\ op' = NoOp /\ UNCHANGED surface
  BY DEF Close, Drop
<1>4. OwnStatus' /\ Displayed' /\ StatusIsTrue'
  BY <1>2, <1>3 DEF OwnStatus, Displayed, StatusIsTrue, Past, States, Approved, Approving,
                    PlanApprovalStatus
<1>5. SessionOK'
  BY <1>1, <1>3 DEF ShownInv, SessionOK, NoOp
<1> QED
  BY <1>2, <1>4, <1>5, Parts DEF ShownInv, ApprovalInv, ProtocolInv

LEMMA RefreshedKeeps ==
  ASSUME ApprovalInv, Refreshed
  PROVE  ApprovalInv'
<1>1. ProtocolInv /\ ShownInv
  BY Parts
<1>2. ProtocolInv'
  BY <1>1, AttemptRests DEF Refreshed, ServerRests, protocolVars, serverVars
<1>3. /\ UNCHANGED protocolVars /\ view # "ABSENT" /\ view' = run /\ run # "ABSENT"
      /\ UNCHANGED <<surface, target, approvalStatus, readiness, session, op>>
  BY <1>1 DEF Refreshed, ProtocolInv, Durable
<1>4. OwnStatus' /\ StatusIsTrue'
  BY <1>1, <1>3 DEF ShownInv, OwnStatus, StatusIsTrue, OwnProof, Moved, Locked, protocolVars
<1>5. Displayed'
  BY <1>1, <1>3 DEF ShownInv, Displayed, ProtocolInv, ProtocolTypes, Past, protocolVars, States,
                    Approved
<1>6. SessionOK'
  BY <1>1, <1>3 DEF ShownInv, SessionOK, protocolVars, Controlled
<1> QED
  BY <1>2, <1>4, <1>5, <1>6, Parts DEF ShownInv, ApprovalInv, ProtocolInv

\* The page's own approval is not asked for again once it was recorded.
LEMMA UnlockedIsOpen ==
  ASSUME ApprovalInv, ~Locked, view # "ABSENT"
  PROVE  ~OwnProof
BY DEF ApprovalInv, OwnStatus

LEMMA BeginsKeeps ==
  ASSUME ApprovalInv,
         SectionApproves \/ SectionRefreshes \/ ControllerApproves \/ ControllerRefreshes
  PROVE  ApprovalInv'
<1>1. ProtocolInv /\ ShownInv
  BY Parts
<1>2. /\ UNCHANGED <<serverVars, posts, wallet, unheard, view, target, surface, readiness,
                     session, op>>
      /\ attempt.step = "idle" /\ op = NoOp
  BY DEF SectionApproves, SectionRefreshes, ControllerApproves, ControllerRefreshes, Busy,
         controllerFrame, sectionFrame
<1>3. ServerRests
  BY <1>2 DEF ServerRests
<1>4. view # "ABSENT"
  BY <1>1 DEF SectionApproves, SectionRefreshes, ControllerApproves, ControllerRefreshes,
              OnSection, Eligible, Controlled, ShownInv, Displayed
<1>5. \/ BeginAt("preflight", None) /\ approvalStatus' = "IN_PROGRESS" /\ ~Locked
      \/ /\ BeginAt("reconcile", "REFUSED_OR_UNRECORDED") /\ approvalStatus' = approvalStatus
         /\ approvalStatus # "IN_PROGRESS"
      \/ attempt' = attempt /\ approvalStatus' = "REQUEST_FAILED" /\ ~Locked
  BY DEF SectionApproves, SectionRefreshes, ControllerApproves, ControllerRefreshes, MayAskAgain,
         MayRefresh, Locked
<1>6. /\ ProtocolInv'
      /\ \/ attempt'.step = "idle" /\ approvalStatus' = "REQUEST_FAILED"
         \/ attempt'.step = "preflight" /\ approvalStatus' = "IN_PROGRESS"
         \/ attempt'.step = "reconcile" /\ approvalStatus' = approvalStatus
      /\ OwnProof => approvalStatus' = approvalStatus
  <2>1. CASE BeginAt("preflight", None) /\ approvalStatus' = "IN_PROGRESS" /\ ~Locked
    <3>1. ~OwnProof
      BY <1>4, <2>1, UnlockedIsOpen
    <3>2. attempt'.step = "preflight"
      BY <2>1 DEF BeginAt, NoAttempt
    <3> QED
      BY <1>1, <1>2, <1>3, <2>1, <3>1, <3>2, AttemptBegins
  <2>2. CASE BeginAt("reconcile", "REFUSED_OR_UNRECORDED") /\ approvalStatus' = approvalStatus
    <3>1. attempt'.step = "reconcile"
      BY <2>2 DEF BeginAt, NoAttempt
    <3> QED
      BY <1>1, <1>2, <1>3, <2>2, <3>1, AttemptBegins
  <2>3. CASE attempt' = attempt /\ approvalStatus' = "REQUEST_FAILED" /\ ~Locked
    BY <1>1, <1>2, <1>3, <1>4, <2>3, UnlockedIsOpen, AttemptRests
  <2> QED
    BY <1>5, <2>1, <2>2, <2>3
<1>7. OwnStatus' /\ Displayed'
  BY <1>1, <1>2, <1>3, <1>4, <1>6, ServerKeeps DEF ShownInv, OwnStatus, Displayed, Past, Locked, serverVars
<1>8. StatusIsTrue'
  BY <1>1, <1>2, <1>6 DEF ShownInv, StatusIsTrue, Moved, Approving, PlanApprovalStatus, serverVars
<1>9. SessionOK'
  BY <1>1, <1>2, <1>6 DEF ShownInv, SessionOK, Controlled, NoOp
<1> QED
  BY <1>6, <1>7, <1>8, <1>9, Parts DEF ShownInv, ApprovalInv, ProtocolInv

\* A step that changes neither the run, nor the attempt, nor the status.
LEMMA OnlySession ==
  ASSUME ApprovalInv, SessionOK',
         UNCHANGED <<serverVars, attempt, posts, wallet, unheard, surface, view, target>>,
         \/ approvalStatus' = approvalStatus
         \/ approvalStatus' = "IDLE" /\ ~Locked /\ view # "ABSENT",
         approvalStatus' = "IN_PROGRESS" /\ attempt.step = "idle" => session' = None
  PROVE  ApprovalInv'
<1>1. ProtocolInv /\ ShownInv /\ ServerRests
  BY Parts DEF ServerRests
<1>2. ProtocolInv'
  BY <1>1, AttemptRests
<1>3. OwnStatus'
  BY <1>1, ServerKeeps, UnlockedIsOpen DEF ShownInv, OwnStatus, Locked
<1>4. Displayed'
  BY <1>1, ServerKeeps DEF ShownInv, Displayed, Past, serverVars
<1>5. StatusIsTrue'
  BY <1>1 DEF ShownInv, StatusIsTrue, Moved, Approving, PlanApprovalStatus, serverVars, Locked
<1> QED
  BY <1>2, <1>3, <1>4, <1>5, Parts DEF ShownInv, ApprovalInv, ProtocolInv

LEMMA ReadinessNotReady ==
  ASSUME NEW r
  PROVE  StatusOfReadiness(r) = "READY" => r = "READY"
BY DEF StatusOfReadiness

LEMMA SessionStepsKeep ==
  ASSUME ApprovalInv,
         \/ \E p \in Providers : ChooseProvider(p)
         \/ \E p \in Providers \cup {"LEGACY"} : Select(p)
         \/ StartOperation \/ OpContinues \/ OpCompletes \/ OpFails
  PROVE  ApprovalInv'
<1>1. ProtocolInv /\ ShownInv /\ SessionOK /\ (target # "ABSENT" => view # "ABSENT")
  BY Parts DEF ShownInv, Displayed
<1>2. CASE \E p \in Providers : ChooseProvider(p)
  <2>1. /\ UNCHANGED <<controllerFrame, attempt, posts, op>> /\ Free /\ approvalStatus' = "IDLE"
        /\ \/ UNCHANGED <<session, readiness>>
           \/ session' = None /\ readiness' = "NO_WALLET"
    BY <1>2 DEF ChooseProvider
  <2>2. SessionOK'
    BY <1>1, <2>1 DEF SessionOK, Controlled, controllerFrame, Free, Busy
  <2> QED
    BY <1>1, <2>1, <2>2, OnlySession DEF Free, Eligible, Controlled, controllerFrame
<1>3. CASE \E p \in Providers \cup {"LEGACY"} : Select(p)
  <2>1. PICK p \in Providers \cup {"LEGACY"} : Select(p)
    BY <1>3
  <2>2. /\ UNCHANGED <<controllerFrame, attempt, posts>> /\ Free /\ p # None
        /\ \/ /\ session' = p /\ op' = [NoOp EXCEPT !.step = "accounts"]
              /\ readiness' = "NOT_READY" /\ approvalStatus' = "IDLE"
           \/ /\ session' = None /\ readiness' = "NO_WALLET" /\ op' = op
              /\ approvalStatus' = approvalStatus
    BY <2>1, SurfaceAssumption DEF Select, BeginOp
  <2>3. SessionOK'
    BY <1>1, <2>2, NoneIsNoOp DEF SessionOK, Controlled, controllerFrame, Free, Eligible, Busy, NoOp
  <2> QED
    BY <1>1, <2>2, <2>3, OnlySession DEF Free, Eligible, Controlled, controllerFrame, Locked
<1>4. CASE StartOperation
  <2>1. /\ UNCHANGED <<controllerFrame, attempt, posts, approvalStatus, session>>
        /\ Free /\ session # None /\ readiness' = "NOT_READY"
        /\ \E s \in {"accounts", "requestAccounts", "switch"} : op' = [NoOp EXCEPT !.step = s]
    BY <1>4 DEF StartOperation, BeginOp
  <2>2. SessionOK'
    BY <1>1, <2>1 DEF SessionOK, Controlled, controllerFrame, Free, Eligible, Busy, NoOp
  <2> QED
    BY <1>1, <2>1, <2>2, OnlySession DEF Free, Eligible, Controlled, controllerFrame, Locked
<1>5. CASE OpContinues \/ OpCompletes \/ OpFails
  <2>1. /\ op # NoOp /\ session # None /\ attempt.step = "idle" /\ Controlled
        /\ UNCHANGED <<serverVars, attempt, posts, wallet, unheard, surface, view, target,
                       approvalStatus, session>>
    BY <1>1, <1>5, NoneIsNoOp DEF OpContinues, OpCompletes, OpFails, SessionOK, opFrame,
                                  controllerFrame
  <2>2. SessionOK'
    <3>1. CASE OpContinues
      <4>1. /\ \/ op' = [op EXCEPT !.step = "chain", !.accounts = wallet.account]
               \/ op' = [op EXCEPT !.step = "accounts"]
            /\ readiness' = readiness
        BY <3>1 DEF OpContinues
      <4>2. /\ op' \in [step : {"none", "accounts", "requestAccounts", "switch", "chain"},
                        accounts : Accounts \cup {None}, intact : BOOLEAN]
            /\ op'.step = "chain" => op'.accounts = wallet.account
        BY <1>1, <4>1 DEF SessionOK, ProtocolInv, ProtocolTypes
      <4> QED
        BY <1>1, <2>1, <4>1, <4>2 DEF SessionOK, Controlled
    <3>2. CASE OpCompletes
      BY <1>1, <2>1, <3>2, ReadinessNotReady DEF OpCompletes, SessionOK, Controlled, NoOp
    <3>3. CASE OpFails
      <4>1. readiness' # "READY" /\ op' = NoOp
        BY <3>3 DEF OpFails
      <4> QED
        BY <1>1, <2>1, <4>1 DEF SessionOK, Controlled, NoOp
    <3> QED
      BY <1>5, <3>1, <3>2, <3>3
  <2>3. approvalStatus # "IN_PROGRESS"
    BY <1>1, <2>1 DEF ShownInv, StatusIsTrue
  <2> QED
    BY <2>1, <2>2, <2>3, OnlySession
<1> QED
  BY <1>2, <1>3, <1>4, <1>5

\* The page gives its attempt up, together with the session.
LEMMA DropKeeps ==
  ASSUME ApprovalInv, Drop, UNCHANGED <<serverVars, wallet, unheard, surface, view>>,
         readiness' # "READY", surface = "CONTROLLER",
         approvalStatus' = approvalStatus /\ target' = target /\ Controlled
  PROVE  ApprovalInv'
<1>1. ProtocolInv /\ ShownInv /\ ServerRests
  BY Parts DEF ServerRests
<1>2. ProtocolInv' /\ attempt'.step = "idle"
  BY <1>1, AttemptEnds DEF Drop
<1>3. OwnStatus' /\ Displayed'
  BY <1>1, <1>2, ServerKeeps DEF ShownInv, OwnStatus, Displayed, Past, Locked, serverVars
<1>4. StatusIsTrue'
  BY <1>1, <1>2 DEF ShownInv, StatusIsTrue, Moved, Approving, serverVars, Drop
<1>5. SessionOK'
  BY <1>1 DEF ShownInv, SessionOK, Drop, NoOp
<1> QED
  BY <1>2, <1>3, <1>4, <1>5, Parts DEF ShownInv, ApprovalInv, ProtocolInv

LEMMA DiscoveryKeeps ==
  ASSUME ApprovalInv, \E p \in Providers : Announce(p)
  PROVE  ApprovalInv'
<1>1. ProtocolInv /\ ShownInv /\ SessionOK
  BY Parts DEF ShownInv
<1>2. Controlled /\ UNCHANGED <<controllerFrame, approvalStatus>>
      /\ \/ Drop /\ readiness' = "NO_WALLET"
         \/ UNCHANGED <<attempt, posts, op, session, readiness>>
  BY DEF Announce, OnDiscovery, Eligible
<1>3. CASE Drop /\ readiness' = "NO_WALLET"
  BY <1>2, <1>3, DropKeeps DEF controllerFrame, Controlled
<1>4. CASE UNCHANGED <<attempt, posts, op, session, readiness>>
  <2>1. SessionOK'
    BY <1>1, <1>2, <1>4 DEF SessionOK, controllerFrame, Controlled
  <2>2. approvalStatus' = "IN_PROGRESS" /\ attempt.step = "idle" => session' = None
    BY <1>1, <1>2, <1>4 DEF ShownInv, StatusIsTrue
  <2> QED
    BY <1>2, <1>4, <2>1, <2>2, OnlySession DEF controllerFrame
<1> QED
  BY <1>2, <1>3, <1>4

LEMMA LostProviderKeeps ==
  ASSUME ApprovalInv, OpLosesProvider
  PROVE  ApprovalInv'
<1>1. Controlled
  BY DEF ApprovalInv, SessionOK, OpLosesProvider
<1> QED
  BY <1>1, DropKeeps DEF OpLosesProvider, controllerFrame, Controlled

LEMMA UpdateKeeps ==
  ASSUME ApprovalInv, UpdateTarget
  PROVE  ApprovalInv'
<1>1. ProtocolInv /\ ShownInv /\ ServerRests
  BY Parts DEF ServerRests, UpdateTarget
<1>2. ProtocolInv' /\ attempt'.step = "idle"
  BY <1>1, AttemptEnds DEF UpdateTarget, Drop
<1>3. /\ UNCHANGED <<serverVars, wallet, unheard, surface, view>> /\ target' = view
      /\ approvalStatus' = (IF Approved(view) THEN "RECORDED" ELSE "IDLE")
      /\ readiness' = "NO_WALLET" /\ session' = None /\ op' = NoOp
      /\ view # "ABSENT" /\ view # "AWAITING_APPROVAL"
  BY <1>1 DEF UpdateTarget, Drop, Controlled, ShownInv, Displayed
<1>4. OwnProof => Approved(view)
  BY <1>1, <1>3 DEF ShownInv, Displayed, Past, OwnProof, ProtocolInv, Durable, Approved, States
<1>5. OwnStatus' /\ Displayed'
  BY <1>1, <1>2, <1>3, <1>4, ServerKeeps DEF ShownInv, OwnStatus, Displayed, Past, Locked, serverVars
<1>6. StatusIsTrue'
  BY <1>1, <1>2, <1>3 DEF ShownInv, StatusIsTrue, Displayed, Past, Approving, PlanApprovalStatus,
                          serverVars
<1>7. SessionOK'
  BY <1>1, <1>3 DEF ShownInv, SessionOK, NoOp
<1> QED
  BY <1>2, <1>5, <1>6, <1>7, Parts DEF ShownInv, ApprovalInv, ProtocolInv

LEMMA EventShown ==
  ASSUME ApprovalInv, Event
  PROVE  ApprovalInv'
<1>1. ProtocolInv /\ ShownInv /\ ServerRests
  BY Parts DEF ServerRests, Event, WalletEvent, serverVars
<1>2. ProtocolInv' /\ attempt'.step = attempt.step
  BY <1>1, EventKeeps DEF Event
<1>3. /\ UNCHANGED <<serverVars, surface, view, target, approvalStatus, session, wallet>>
      /\ \/ op = NoOp /\ op' = op
         \/ op # NoOp /\ op' = [op EXCEPT !.intact = FALSE]
      /\ readiness' = (IF Controlled /\ session # None THEN "NOT_READY" ELSE readiness)
  BY DEF Event, WalletEvent, serverVars
<1>4. OwnStatus' /\ Displayed'
  BY <1>1, <1>2, <1>3, ServerKeeps DEF ShownInv, OwnStatus, Displayed, Past, Locked, serverVars
<1>5. StatusIsTrue'
  BY <1>1, <1>2, <1>3 DEF ShownInv, StatusIsTrue, Moved, serverVars
<1>6. SessionOK'
  BY <1>1, <1>2, <1>3, NoneIsNoOp DEF ShownInv, SessionOK, Controlled
<1> QED
  BY <1>2, <1>4, <1>5, <1>6, Parts DEF ShownInv, ApprovalInv, ProtocolInv

\* What is known of the result of an attempt when the page takes it.
LEMMA ResultTaken ==
  ASSUME ApprovalInv, attempt.step = "done"
  PROVE  /\ ResultOK(attempt.answer) /\ view # "ABSENT" /\ op = NoOp
         /\ attempt.answer.outcome \in Outcomes \cup {"THROWN"}
         /\ OwnProof => attempt.answer.outcome \in
                {"APPROVAL_RECORDED", "APPROVAL_UNCONFIRMED", "ACCESS_UNAVAILABLE"}
<1>1. ResultOK(attempt.answer) /\ view # "ABSENT" /\ op = NoOp
  BY DEF ApprovalInv, HeardIsTrue, Displayed, SessionOK
<1>2. attempt.answer.outcome \in Outcomes \cup {"THROWN"}
  BY <1>1 DEF ResultOK, Results
<1> QED
  BY <1>1, <1>2 DEF ApprovalInv, OwnAttempt

\* A result is taken: what the new status and the session must satisfy.
LEMMA Settled ==
  ASSUME ApprovalInv, attempt.step = "done", attempt' = NoAttempt,
         UNCHANGED <<serverVars, posts, wallet, unheard, surface, target, op>>,
         \/ view' = view
         \/ /\ attempt.answer.outcome \in NotRecorded \cup {"APPROVAL_RECORDED"}
            /\ Accept(attempt.answer.run),
         approvalStatus' \in PlanApprovalStatus \ {"IDLE", "IN_PROGRESS"},
         OwnProof => Locked',
         approvalStatus' = "RECORDED" => attempt.answer.outcome = "APPROVAL_RECORDED",
         surface = "SECTION" /\ approvalStatus' = "STALE_OR_CHANGED" =>
             attempt.answer.outcome = "STALE_OR_CHANGED",
         \/ UNCHANGED session /\ readiness' \in {readiness, "NOT_READY", "ASK_SWITCH"}
         \/ session' = None /\ readiness' \in {"NO_WALLET", "NOT_READY"}
  PROVE  ApprovalInv'
<1>1. ProtocolInv /\ ShownInv /\ ServerRests
  BY Parts DEF ServerRests
<1>2. ProtocolInv' /\ attempt'.step = "idle"
  BY <1>1, AttemptEnds
<1>3. ResultOK(attempt.answer) /\ view # "ABSENT" /\ op = NoOp
  BY ResultTaken
<1>4. Displayed'
  <2>1. CASE view' = view
    BY <1>1, <1>2, <1>3, <2>1, ServerKeeps DEF ShownInv, Displayed, Past, serverVars
  <2>2. CASE /\ attempt.answer.outcome \in NotRecorded \cup {"APPROVAL_RECORDED"}
             /\ Accept(attempt.answer.run)
    <3>1. Past(attempt.answer.run) /\ attempt.answer.run # "ABSENT"
      BY <1>3, <2>2 DEF ResultOK
    <3> QED
      BY <1>1, <1>3, <2>2, <3>1, Accepts DEF ShownInv
  <2> QED
    BY <2>1, <2>2
<1>5. OwnStatus'
  BY <1>1, ServerKeeps DEF OwnStatus
<1>6. StatusIsTrue'
  <2>1. approvalStatus' = "RECORDED" => Approved(run)
    BY <1>3 DEF ResultOK, Past
  <2>2. surface = "SECTION" /\ approvalStatus' = "STALE_OR_CHANGED" => Moved
    BY <1>3 DEF ResultOK
  <2> QED
    BY <1>2, <2>1, <2>2, ServerKeeps, <1>1 DEF StatusIsTrue, Approving, serverVars
<1>7. SessionOK'
  BY <1>1, <1>2, <1>3 DEF ShownInv, SessionOK, Controlled
<1> QED
  BY <1>2, <1>4, <1>5, <1>6, <1>7, Parts DEF ShownInv, ApprovalInv, ProtocolInv

LEMMA StatusesOfErrors ==
  ASSUME NEW code
  PROVE  StatusOfError(code) \in PlanApprovalStatus \ {"IDLE", "IN_PROGRESS", "RECORDED", "STALE_OR_CHANGED"}
BY DEF StatusOfError, PlanApprovalStatus

LEMMA SectionSettlesKeeps ==
  ASSUME ApprovalInv, SectionSettles
  PROVE  ApprovalInv'
<1> DEFINE result == attempt.answer
<1>1. /\ attempt.step = "done" /\ attempt' = NoAttempt
      /\ UNCHANGED <<serverVars, posts, wallet, unheard, surface, target, op, session, readiness>>
  BY DEF SectionSettles, sectionFrame
<1>2. /\ result.outcome \in Outcomes \cup {"THROWN"}
      /\ OwnProof => result.outcome \in
             {"APPROVAL_RECORDED", "APPROVAL_UNCONFIRMED", "ACCESS_UNAVAILABLE"}
  BY <1>1, ResultTaken
<1>3. \/ view' = view
      \/ result.outcome \in NotRecorded \cup {"APPROVAL_RECORDED"} /\ Accept(result.run)
  BY DEF SectionSettles
<1>4. \/ result.outcome = "THROWN" /\ approvalStatus' = StatusOfError(result.code)
      \/ result.outcome = "APPROVAL_RECORDED" /\ approvalStatus' = "RECORDED"
      \/ result.outcome = "STALE_OR_CHANGED" /\ approvalStatus' = "STALE_OR_CHANGED"
      \/ result.outcome = "REFUSED_OR_UNRECORDED" /\ approvalStatus' = "NOT_RECORDED"
      \/ result.outcome = "ACCESS_UNAVAILABLE" /\ approvalStatus' = "ACCESS_UNAVAILABLE"
      \/ result.outcome = "APPROVAL_UNCONFIRMED" /\ approvalStatus' = "UNCONFIRMED"
  BY <1>2 DEF SectionSettles, Outcomes, NotRecorded
<1>5. /\ approvalStatus' \in PlanApprovalStatus \ {"IDLE", "IN_PROGRESS"}
      /\ approvalStatus' = "RECORDED" => result.outcome = "APPROVAL_RECORDED"
      /\ approvalStatus' = "STALE_OR_CHANGED" => result.outcome = "STALE_OR_CHANGED"
  BY <1>4, StatusesOfErrors DEF PlanApprovalStatus
<1>6. OwnProof => Locked'
  BY <1>2, <1>4 DEF Locked
<1> QED
  BY <1>1, <1>3, <1>5, <1>6, Settled

LEMMA ControllerSettlesKeeps ==
  ASSUME ApprovalInv, ControllerSettlesResult \/ ControllerSettlesError
  PROVE  ApprovalInv'
<1> DEFINE result == attempt.answer
<1>1. /\ attempt.step = "done" /\ attempt' = NoAttempt /\ surface = "CONTROLLER"
      /\ UNCHANGED <<serverVars, posts, wallet, unheard, surface, target, op>>
  BY DEF ControllerSettlesResult, ControllerSettlesError, settleFrame
<1>2. /\ result.outcome \in Outcomes \cup {"THROWN"}
      /\ OwnProof => result.outcome \in
             {"APPROVAL_RECORDED", "APPROVAL_UNCONFIRMED", "ACCESS_UNAVAILABLE"}
  BY <1>1, ResultTaken
<1>3. CASE ControllerSettlesResult
  <2>1. \/ view' = view
        \/ result.outcome \in NotRecorded \cup {"APPROVAL_RECORDED"} /\ Accept(result.run)
    BY <1>3 DEF ControllerSettlesResult
  <2>2. \/ Becomes("UNCONFIRMED", "NOT_READY", None)
        \/ result.outcome = "APPROVAL_RECORDED" /\ Becomes("RECORDED", "NO_WALLET", None)
        \/ result.outcome \in NotRecorded /\ Becomes("STALE_OR_CHANGED", "NOT_READY", None)
        \/ result.outcome \in NotRecorded /\ Becomes("NOT_RECORDED", readiness, session)
        \/ Becomes("ACCESS_UNAVAILABLE", readiness, session)
        \/ Becomes("UNCONFIRMED", readiness, session)
    <3>1. CASE result.outcome \in NotRecorded \cup {"APPROVAL_RECORDED"}
      <4>1. CASE ~Accepted(result.run)
        BY <1>3, <3>1, <4>1 DEF ControllerSettlesResult
      <4>2. CASE Accepted(result.run) /\ result.outcome = "APPROVAL_RECORDED"
        BY <1>3, <3>1, <4>2 DEF ControllerSettlesResult, NotRecorded
      <4>3. CASE Accepted(result.run) /\ result.outcome \in NotRecorded
        BY <1>3, <3>1, <4>3 DEF ControllerSettlesResult, NotRecorded
      <4> QED
        BY <3>1, <4>1, <4>2, <4>3
    <3>2. CASE result.outcome \notin NotRecorded \cup {"APPROVAL_RECORDED"}
      BY <1>3, <3>2 DEF ControllerSettlesResult
    <3> QED
      BY <3>1, <3>2
  <2>3. /\ approvalStatus' \in PlanApprovalStatus \ {"IDLE", "IN_PROGRESS"}
        /\ approvalStatus' = "RECORDED" => result.outcome = "APPROVAL_RECORDED"
        /\ OwnProof => Locked'
        /\ \/ UNCHANGED session /\ readiness' = readiness
           \/ session' = None /\ readiness' \in {"NO_WALLET", "NOT_READY"}
    BY <1>2, <2>2 DEF Becomes, PlanApprovalStatus, Locked, NotRecorded
  <2> QED
    BY <1>1, <2>1, <2>3, Settled
<1>4. CASE ControllerSettlesError
  <2>1. /\ result.outcome = "THROWN" /\ approvalStatus' = StatusOfError(result.code)
        /\ session' = session /\ view' = view
        /\ readiness' \in {readiness, "NOT_READY", "ASK_SWITCH"}
    BY <1>4 DEF ControllerSettlesError, Becomes
  <2> QED
    BY <1>1, <1>2, <2>1, StatusesOfErrors, Settled
<1> QED
  BY <1>3, <1>4

-----------------------------------------------------------------------------
(* The theorems *)

LEMMA ApprovalInitially == ApprovalInit => ApprovalInv
<1> SUFFICES ASSUME ApprovalInit PROVE ApprovalInv
  OBVIOUS
<1>1. /\ run = "ABSENT" /\ access = FALSE /\ proof = None /\ posts = {} /\ unheard = FALSE
      /\ wallet.account = "SIGNER" /\ attempt = NoAttempt /\ surface \in {"SECTION", "CONTROLLER"}
      /\ view = "ABSENT" /\ target = "ABSENT" /\ approvalStatus = "IDLE"
      /\ readiness = "NO_WALLET" /\ session = None /\ op = NoOp
  BY SurfaceAssumption DEF ApprovalInit, ProtocolInit
<1>2. attempt \in Attempts(attempt.answer) /\ attempt.step = "idle"
  BY <1>1, NewAttempt
<1>3. ProtocolTypes /\ Durable /\ OneAwaited
  BY <1>1, <1>2 DEF ProtocolTypes, Durable, OneAwaited, States, Accounts, Approved
<1>4. HeardIsTrue /\ OwnAttempt /\ OwnStatus
  BY <1>1, <1>2 DEF HeardIsTrue, OwnAttempt, OwnStatus, Waits
<1>5. Displayed /\ StatusIsTrue
  BY <1>1, <1>2 DEF Displayed, Past, StatusIsTrue, States, Approved, Approving, PlanApprovalStatus
<1>6. SessionOK
  BY <1>1, <1>2 DEF SessionOK, NoOp
<1> QED
  BY <1>3, <1>4, <1>5, <1>6 DEF ApprovalInv

LEMMA ApprovalSteps == ApprovalInv /\ [ApprovalNext]_allVars => ApprovalInv'
<1> SUFFICES ASSUME ApprovalInv, [ApprovalNext]_allVars PROVE ApprovalInv'
  OBVIOUS
<1>1. CASE Protocol
  BY <1>1, ProtocolShown
<1>2. CASE Event
  BY <1>2, EventShown
<1>3. CASE Settles
  BY <1>3, SectionSettlesKeeps, ControllerSettlesKeeps DEF Settles
<1>4. CASE OpStep
  BY <1>4, SessionStepsKeep, LostProviderKeeps DEF OpStep
<1>5. CASE UserStep
  <2>1. CASE Open \/ Close \/ Refreshed
    BY <2>1, OpenKeeps, CloseKeeps, RefreshedKeeps
  <2>2. CASE SectionApproves \/ SectionRefreshes \/ ControllerApproves \/ ControllerRefreshes
    BY <2>2, BeginsKeeps
  <2>3. CASE UpdateTarget
    BY <2>3, UpdateKeeps
  <2>4. CASE \E p \in Providers : Announce(p)
    BY <2>4, DiscoveryKeeps
  <2>5. CASE \/ \E p \in Providers : ChooseProvider(p)
             \/ \E p \in Providers \cup {"LEGACY"} : Select(p)
             \/ StartOperation
    BY <2>5, SessionStepsKeep
  <2> QED
    BY <1>5, <2>1, <2>2, <2>3, <2>4, <2>5 DEF UserStep
<1>6. CASE UNCHANGED allVars
  <2>1. /\ UNCHANGED <<serverVars, posts, wallet, unheard, attempt>>
        /\ UNCHANGED <<surface, view, target, approvalStatus, readiness, session, op>>
    BY <1>6 DEF allVars, protocolVars, pageVars, serverVars
  <2>2. SessionOK'
    BY <2>1 DEF ApprovalInv, SessionOK, Controlled
  <2>3. approvalStatus' = "IN_PROGRESS" /\ attempt.step = "idle" => session' = None
    BY <2>1 DEF ApprovalInv, StatusIsTrue
  <2> QED
    BY <2>1, <2>2, <2>3, OnlySession
<1> QED
  BY <1>1, <1>2, <1>3, <1>4, <1>5, <1>6 DEF ApprovalNext

\* Every behaviour keeps the invariant: what was read of the run is still its past,
\* one submission at most is waited for, and the status remembers a recorded one.
THEOREM ApprovalInvariant == ApprovalSpec => []ApprovalInv
BY ApprovalInitially, ApprovalSteps, PTL DEF ApprovalSpec

\* A plan is approved only by a fresh signature of the designated signer
\* (WalletApprovalService.verify), whatever the wallet did after its inspection.
THEOREM ApprovalSigned == ApprovalSpec => []ApprovalIsSigned
<1>1. ApprovalInv => ApprovalIsSigned
  BY DEF ApprovalInv, Durable, ApprovalIsSigned
<1> QED
  BY <1>1, ApprovalInvariant, PTL

\* "Plan approval recorded." is shown only for a run with a stored approval.
THEOREM RecordedShown == ApprovalSpec => []RecordedIsTrue
<1>1. ApprovalInv => RecordedIsTrue
  <2> SUFFICES ASSUME ApprovalInv, Shown = "RECORDED" PROVE proof # None
    BY DEF RecordedIsTrue
  <2>1. Approved(view) => Approved(run)
    BY DEF ApprovalInv, Displayed, Past
  <2>2. approvalStatus = "RECORDED" => Approved(run)
    BY DEF ApprovalInv, StatusIsTrue
  <2>3. Approved(run)
    BY <2>1, <2>2 DEF Shown
  <2> QED
    BY <2>3 DEF ApprovalInv, Durable
<1> QED
  BY <1>1, ApprovalInvariant, PTL

\* "Plan approval was not recorded" is never shown while a submission this page waited
\* for to the end has been recorded (approveRunFromUserAction, its reconciliation).
THEOREM NotRecordedShown == ApprovalSpec => []NotRecordedIsTrue
<1>1. ApprovalInv => NotRecordedIsTrue
  <2> SUFFICES ASSUME ApprovalInv,
                      Shown \in {"SIGNATURE_REJECTED", "NOT_RECORDED", "REQUEST_FAILED"}
               PROVE  ~OwnProof
    BY DEF NotRecordedIsTrue, OwnProof
  <2>1. approvalStatus \in {"SIGNATURE_REJECTED", "NOT_RECORDED", "REQUEST_FAILED"}
    BY DEF Shown
  <2> QED
    BY <2>1 DEF ApprovalInv, OwnStatus, Displayed, Locked
<1> QED
  BY <1>1, ApprovalInvariant, PTL

\* The controller calls a wallet ready only if the signer is active on Sepolia, as far
\* as the wallet's events have told (perform, applyReadiness).
THEOREM ReadyCurrent == ApprovalSpec => []ReadyIsCurrent
<1>1. ApprovalInv => ReadyIsCurrent
  BY DEF ApprovalInv, SessionOK, ReadyIsCurrent
<1> QED
  BY <1>1, ApprovalInvariant, PTL

\* "Approval request in progress" is left over by a collision of providers only.
THEOREM InProgressShown == ApprovalSpec => []InProgressIsTrue
<1>1. ApprovalInv => InProgressIsTrue
  <2> SUFFICES ASSUME ApprovalInv, Shown = "IN_PROGRESS", attempt.step = "idle"
               PROVE  surface = "CONTROLLER" /\ session = None
    BY DEF InProgressIsTrue
  <2>1. approvalStatus = "IN_PROGRESS"
    BY DEF Shown
  <2> QED
    BY <2>1 DEF ApprovalInv, StatusIsTrue
<1> QED
  BY <1>1, ApprovalInvariant, PTL

\* A section without buttons shows a run that moved on, or a wallet that cannot sign.
THEOREM NoDeadEnd == ApprovalSpec => []DeadEndOnlyIfChanged
<1>1. ApprovalInv => DeadEndOnlyIfChanged
  <2> SUFFICES ASSUME ApprovalInv, OnSection, attempt.step = "idle", run = "AWAITING_APPROVAL"
               PROVE  MayAskAgain \/ MayRefresh \/ approvalStatus = "SIGNING_UNSUPPORTED"
    BY DEF DeadEndOnlyIfChanged
  <2>1. ~Moved /\ ~Approved(run) /\ surface = "SECTION"
    BY DEF Moved, Approved, OnSection
  <2>2. approvalStatus \in PlanApprovalStatus \ {"RECORDED", "STALE_OR_CHANGED", "IN_PROGRESS"}
    BY <2>1 DEF ApprovalInv, StatusIsTrue
  <2> QED
    BY <2>2 DEF PlanApprovalStatus, MayAskAgain, MayRefresh
<1> QED
  BY <1>1, ApprovalInvariant, PTL

=============================================================================
