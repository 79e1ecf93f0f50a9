----------------------------- MODULE ApprovalInv -----------------------------
(***************************************************************************)
(* The inductive invariant of ApprovalPage.  A run only moves on, and an   *)
(* approved one is never cancelled back: so whatever was read of it, and   *)
(* however late it arrives, still says something true.  A proof that the   *)
(* page's own submission left behind is remembered in the status until the *)
(* page is closed.                                                         *)
(***************************************************************************)
EXTENDS ApprovalPage

States == {"ABSENT", "AWAITING_APPROVAL", "PREPARING", "CANCELLED", "LATER"}

Steps == Waits \cup {"idle", "accounts", "chain", "sign", "done"}

\* Steps of an attempt to approve, before its outcome is read.
Approving == {"preflight", "challenge", "accounts", "chain", "sign", "submit"}

Posts == [signer : {"NONE", "OTHER", "SIGNER"}, fresh : BOOLEAN, awaited : BOOLEAN]

Outcomes == NotRecorded \cup {"APPROVAL_RECORDED", "APPROVAL_UNCONFIRMED", "ACCESS_UNAVAILABLE"}

Codes == GatewayErrors \cup {"CHALLENGE_REFUSED", "WRONG_CHAIN", "REQUIRED_ACCOUNT_UNAVAILABLE",
                             "SIGNATURE_REJECTED", "SIGNING_UNSUPPORTED", "ATTEMPT_INVALIDATED"}

Results == [outcome : Outcomes, run : States \cup {None}]
           \cup [outcome : {"THROWN"}, code : Codes]

Accounts == {"NONE", "OTHER", "SIGNER"}

\* Attempts whose answer is a; what that may be depends on the step.
Attempts(a) ==
    [step : Steps, answer : {a}, accounts : Accounts \cup {None}, intact : BOOLEAN, fresh : BOOLEAN,
     reason : NotRecorded \cup {None}]

ProtocolTypes ==
    /\ run \in States /\ access \in BOOLEAN /\ proof \in Proofs \cup {None}
    /\ posts \subseteq Posts
    /\ wallet.account \in Accounts
    /\ attempt \in Attempts(attempt.answer)

\* The cookie and the proof follow the run.
Durable ==
    /\ access => run # "ABSENT"
    /\ proof # None <=> Approved(run)
    /\ proof # None => proof.signer = "SIGNER" /\ proof.fresh

\* What was the run once.
Past(r) ==
    /\ r \in States
    /\ r # "ABSENT" => run # "ABSENT"
    /\ Approved(r) => Approved(run)
    /\ r = "CANCELLED" => run = "CANCELLED"

\* The plan is no longer to be approved, and never will be.
Moved == run \notin {"ABSENT", "AWAITING_APPROVAL"}

\* The page waits for one submission, until something answers it.
OneAwaited ==
    /\ \A p \in posts : p.awaited => attempt.step = "submit" /\ attempt.answer = None
    /\ \A p, q \in posts : p.awaited /\ q.awaited => p = q

\* The answer the page has, not yet taken.
AnswerOK(a) ==
    a # None =>
        /\ a \in {"RECORDED", "CHALLENGE"} \cup GatewayErrors \cup (States \ {"ABSENT"})
        /\ a \in States => Past(a)
        /\ a = "STALE_OR_STATE_CONFLICT" => Moved

\* How an attempt ended.
ResultOK(a) ==
    /\ a \in Results
    /\ a.outcome \in NotRecorded \cup {"APPROVAL_RECORDED"} =>
           Past(a.run) /\ a.run # "ABSENT"
    /\ a.outcome = "APPROVAL_RECORDED" => Approved(a.run)
    /\ a.outcome = "STALE_OR_CHANGED" => Moved

HeardIsTrue ==
    /\ attempt.step \in Waits => AnswerOK(attempt.answer)
    /\ attempt.step = "reconcile" =>
           /\ attempt.answer \notin {"RECORDED", "CHALLENGE"}
           /\ attempt.reason \in NotRecorded /\ (attempt.reason = "STALE_OR_CHANGED" => Moved)
    /\ attempt.step = "done" => ResultOK(attempt.answer)

\* The page's own submission was recorded: the attempt that follows it reads the run
\* as approved, or nothing.
OwnProof == proof # None /\ proof.by = "page"

OwnAttempt ==
    OwnProof =>
        /\ attempt.step \in {"idle", "submit", "reconcile", "done"}
        /\ attempt.step = "reconcile" /\ attempt.answer # None =>
               attempt.answer \notin {"AWAITING_APPROVAL", "CANCELLED"}
        /\ attempt.step = "done" => attempt.answer.outcome \in
               {"APPROVAL_RECORDED", "APPROVAL_UNCONFIRMED", "ACCESS_UNAVAILABLE"}

OwnStatus == OwnProof => Locked \/ view = "ABSENT"

\* What is on display, and what the status claims.
Displayed ==
    /\ Past(view) /\ Past(target)
    /\ view = "ABSENT" =>
           target = "ABSENT" /\ approvalStatus = "IDLE" /\ attempt.step = "idle"
    /\ view = "AWAITING_APPROVAL" => target \in {"ABSENT", "AWAITING_APPROVAL"}

PlanApprovalStatus ==
    {"IDLE", "IN_PROGRESS", "SIGNATURE_REJECTED", "SIGNING_UNSUPPORTED", "NOT_RECORDED",
     "STALE_OR_CHANGED", "ACCESS_UNAVAILABLE", "UNCONFIRMED", "RECORDED", "REQUEST_FAILED"}

StatusIsTrue ==
    /\ attempt.step \in Approving => approvalStatus = "IN_PROGRESS"
    /\ approvalStatus = "RECORDED" => Approved(run)
    /\ surface = "SECTION" /\ approvalStatus = "STALE_OR_CHANGED" => Moved
    /\ approvalStatus = "IN_PROGRESS" /\ attempt.step = "idle" =>
           surface = "CONTROLLER" /\ session = None
    /\ approvalStatus \in PlanApprovalStatus

\* A wallet is looked at, or called ready, in the controller's session; an account
\* that was read and not disturbed is still the account.
SessionOK ==
    /\ surface \in {"SECTION", "CONTROLLER"}
    /\ op \in [step : {"none", "accounts", "requestAccounts", "switch", "chain"},
               accounts : Accounts \cup {None}, intact : BOOLEAN]
    /\ session # None => Controlled
    /\ op # NoOp => session # None /\ attempt.step = "idle"
    /\ op.step = "chain" /\ op.intact /\ ~unheard => op.accounts = wallet.account
    /\ readiness = "READY" =>
           session # None /\ (~unheard => Readiness(wallet.account, wallet.chain) = "READY")

ApprovalInv ==
    /\ ProtocolTypes
    /\ Durable
    /\ OneAwaited
    /\ HeardIsTrue
    /\ OwnAttempt
    /\ OwnStatus
    /\ Displayed
    /\ StatusIsTrue
    /\ SessionOK

=============================================================================
