---------------------------- MODULE ApprovalPage -----------------------------
(***************************************************************************)
(* What the user sees of an approval.  Two implementations of it exist     *)
(* beside each other: ActiveReadiness, the section the pages mount, and    *)
(* createApprovalReadinessController, which finds and inspects a wallet by *)
(* itself.  Both drive the same protocol and publish the same approval     *)
(* status; a behaviour has one of them, the `surface`.                     *)
(*                                                                         *)
(* The controller tells late results by serial numbers.  Here an operation *)
(* whose serial is stale is dropped on the spot: its result is ignored,    *)
(* its session is disposed, so it can no longer sign, and a submission it  *)
(* has under way goes on without anybody waiting for it.                   *)
(***************************************************************************)
EXTENDS Approval, FiniteSets

CONSTANTS
    Surfaces,   \* subset of {"SECTION", "CONTROLLER"}
    Providers,  \* wallets that may announce themselves
    MaxPosts    \* for each surface, approval requests under way at the same time

ASSUME SurfaceAssumption ==
    /\ Surfaces \subseteq {"SECTION", "CONTROLLER"}
    /\ None \notin Providers \cup {"LEGACY"}

VARIABLES
    surface,        \* the implementation this page runs
    view,           \* the run the page displays
    target,         \* the run the controller works on
    approvalStatus, \* PlanApprovalStatus
    readiness,      \* what ApprovalReadinessStatus allows the user to do
    providers,      \* status of each provider's announcement
    session,        \* the provider, or "LEGACY", of the current wallet session
    op              \* the readiness operation under way

pageVars == <<surface, view, target, approvalStatus, readiness, providers,
              session, op>>
allVars == <<protocolVars, pageVars>>
serverVars == <<run, access, proof>>

NoOp == [step |-> "none", accounts |-> None, intact |-> TRUE]

Busy == attempt.step # "idle" \/ op # NoOp

\* approvalIsLocked
Locked == approvalStatus \in {"IN_PROGRESS", "ACCESS_UNAVAILABLE", "UNCONFIRMED", "RECORDED"}

\* canApprove, and the guard of the controller's approvePlan
MayAskAgain ==
    approvalStatus \in {"IDLE", "SIGNATURE_REJECTED", "NOT_RECORDED", "REQUEST_FAILED"}

MayRefresh == approvalStatus \in {"ACCESS_UNAVAILABLE", "UNCONFIRMED"}

\* The section judges by what the last event told it.
SectionReady == unheard \/ Readiness(wallet.account, wallet.chain) = "READY"

\* mergeDurableRun refuses a run that is older than the one on display.
Accepted(r) == Rank(r) >= Rank(view)
Accept(r) == view' = IF Accepted(r) THEN r ELSE view

-----------------------------------------------------------------------------
(* The page *)

Open ==
    /\ view = "ABSENT" /\ access
    /\ view' = run /\ target' = IF surface = "CONTROLLER" THEN run ELSE target
    /\ approvalStatus' = IF Approved(run) THEN "RECORDED" ELSE "IDLE"
    /\ readiness' = "NO_WALLET"
    /\ UNCHANGED <<protocolVars, surface, session, op, providers>>

\* Nothing of the page survives: whatever it was doing is no longer awaited.
Drop ==
    /\ attempt' = NoAttempt
    /\ posts' = {[p EXCEPT !.awaited = FALSE] : p \in posts}
    /\ op' = NoOp /\ session' = None

\* dispose, and the page is closed or reloaded.
Close ==
    /\ view # "ABSENT"
    /\ Drop
    /\ view' = "ABSENT" /\ target' = "ABSENT" /\ approvalStatus' = "IDLE"
    /\ readiness' = "NO_WALLET"
    /\ providers' = [p \in Providers |-> "ABSENT"]
    /\ UNCHANGED <<serverVars, wallet, unheard, surface>>

\* The rest of the page refreshes the run on display; the section then shows what
\* it always shows for such a run.
Refreshed ==
    /\ view # "ABSENT" /\ access /\ view # run
    /\ view' = run
    /\ UNCHANGED <<protocolVars, surface, target, approvalStatus, readiness,
                   providers, session, op>>

-----------------------------------------------------------------------------
(* ActiveReadiness *)

OnSection == surface = "SECTION" /\ view = "AWAITING_APPROVAL"

sectionFrame == <<surface, target, readiness, providers, session, op>>

BeginAt(step, reason) == attempt' = [NoAttempt EXCEPT !.step = step, !.reason = reason]

\* approve: either the wallet connection yields a session or the attempt is over.
SectionApproves ==
    /\ OnSection /\ ~Busy /\ SectionReady /\ MayAskAgain
    /\ \/ approvalStatus' = "IN_PROGRESS" /\ BeginAt("preflight", None)
       \/ approvalStatus' = "REQUEST_FAILED" /\ UNCHANGED attempt
    /\ UNCHANGED <<serverVars, posts, wallet, unheard, view, sectionFrame>>

\* refreshApprovalStatus
SectionRefreshes ==
    /\ OnSection /\ ~Busy /\ MayRefresh
    /\ BeginAt("reconcile", "REFUSED_OR_UNRECORDED")
    /\ UNCHANGED <<serverVars, posts, wallet, unheard, view, approvalStatus, sectionFrame>>

\* The status an error leaves behind.
StatusOfError(code) ==
    CASE code = "SIGNATURE_REJECTED" -> "SIGNATURE_REJECTED"
      [] code = "SIGNING_UNSUPPORTED" -> "SIGNING_UNSUPPORTED"
      [] code = "ACCESS_UNAVAILABLE" -> "ACCESS_UNAVAILABLE"
      [] OTHER -> "REQUEST_FAILED"

NotRecorded == {"STALE_OR_CHANGED", "REFUSED_OR_UNRECORDED"}

SectionSettlesFaultForgetsError ==
    /\ surface = "SECTION" /\ attempt.step = "done"
    /\ LET result == attempt.answer IN
       /\ approvalStatus' =
              CASE result.outcome = "THROWN" -> approvalStatus
                [] result.outcome = "APPROVAL_RECORDED" -> "RECORDED"
                [] result.outcome = "STALE_OR_CHANGED" -> "STALE_OR_CHANGED"
                [] result.outcome = "REFUSED_OR_UNRECORDED" -> "NOT_RECORDED"
                [] result.outcome = "ACCESS_UNAVAILABLE" -> "ACCESS_UNAVAILABLE"
                [] OTHER -> "UNCONFIRMED"
       /\ IF result.outcome \in NotRecorded \cup {"APPROVAL_RECORDED"}
          THEN Accept(result.run) ELSE UNCHANGED view
    /\ attempt' = NoAttempt
    /\ UNCHANGED <<serverVars, posts, wallet, unheard, sectionFrame>>

\* The section announces a recorded approval whether or not the page accepts the
\* run that proves it.
SectionSettles ==
    /\ surface = "SECTION" /\ attempt.step = "done"
    /\ LET result == attempt.answer IN
       /\ approvalStatus' =
              CASE result.outcome = "THROWN" -> StatusOfError(result.code)
                [] result.outcome = "APPROVAL_RECORDED" -> "RECORDED"
                [] result.outcome = "STALE_OR_CHANGED" -> "STALE_OR_CHANGED"
                [] result.outcome = "REFUSED_OR_UNRECORDED" -> "NOT_RECORDED"
                [] result.outcome = "ACCESS_UNAVAILABLE" -> "ACCESS_UNAVAILABLE"
                [] OTHER -> "UNCONFIRMED"
       /\ IF result.outcome \in NotRecorded \cup {"APPROVAL_RECORDED"}
          THEN Accept(result.run) ELSE UNCHANGED view
    /\ attempt' = NoAttempt
    /\ UNCHANGED <<serverVars, posts, wallet, unheard, sectionFrame>>

-----------------------------------------------------------------------------
(* The controller: discovery *)

Controlled == surface = "CONTROLLER" /\ target # "ABSENT"
Eligible == Controlled /\ target = "AWAITING_APPROVAL"

controllerFrame == <<serverVars, wallet, unheard, surface, view, target>>

\* onDiscovery: a selected provider that collides takes its session with it.  The
\* approval status stays what it was.
OnDiscovery(announced) ==
    /\ providers' = announced
    /\ UNCHANGED <<controllerFrame, approvalStatus>>
    /\ IF session \in Providers /\ announced[session] # "AVAILABLE"
       THEN Drop /\ readiness' = "NO_WALLET"
       ELSE UNCHANGED <<attempt, posts, op, session, readiness>>

\* #announce: a second provider under a known identity makes both unusable for good.
Announce(p) ==
    /\ Eligible
    /\ \/ providers[p] = "ABSENT"
          /\ OnDiscovery([providers EXCEPT ![p] = "AVAILABLE"])
       \/ providers[p] = "AVAILABLE"
          /\ OnDiscovery([providers EXCEPT ![p] = "COLLISION"])

-----------------------------------------------------------------------------
(* The controller: wallet readiness *)

Free == Eligible /\ ~Busy /\ ~Locked

\* chooseProvider: another choice ends the session and forgets how the last approval
\* ended.
ChooseProvider(p) ==
    /\ Free /\ providers[p] = "AVAILABLE"
    /\ approvalStatus' = "IDLE"
    /\ session' = IF session = p THEN session ELSE None
    /\ readiness' = IF session = p THEN readiness ELSE "NO_WALLET"
    /\ UNCHANGED <<controllerFrame, attempt, posts, op, providers>>

BeginOp(step) == op' = [NoOp EXCEPT !.step = step]

\* select, of the provider chosen or of the legacy one: the new session is inspected
\* at once.
Select(p) ==
    /\ Free
    /\ p \in {"LEGACY"} \cup {q \in Providers : providers[q] = "AVAILABLE"}
    /\ \/ /\ session' = p /\ BeginOp("accounts")
          /\ readiness' = "NOT_READY" /\ approvalStatus' = "IDLE"
       \/ /\ session' = None /\ readiness' = "NO_WALLET"
          /\ UNCHANGED <<op, approvalStatus>>
    /\ UNCHANGED <<controllerFrame, attempt, posts, providers>>

\* checkWallet, allowAccountAccess and switchToSepolia
StartOperation ==
    /\ Free /\ session # None
    /\ \/ BeginOp("accounts") /\ readiness' = "NOT_READY"
       \/ readiness = "ASK_ACCOUNTS" /\ BeginOp("requestAccounts") /\ readiness' = "NOT_READY"
       \/ readiness = "ASK_SWITCH" /\ BeginOp("switch") /\ readiness' = "NOT_READY"
    /\ UNCHANGED <<controllerFrame, attempt, posts, approvalStatus, session,
                   providers>>

opFrame == <<controllerFrame, attempt, posts, approvalStatus, session, providers>>

\* The wallet answers eth_accounts or eth_requestAccounts, or has switched.
OpContinues ==
    /\ op.intact
    /\ \/ /\ op.step = "accounts" \/ (op.step = "requestAccounts" /\ wallet.account # "NONE")
          /\ op' = [op EXCEPT !.step = "chain", !.accounts = wallet.account]
       \/ /\ op.step = "switch" /\ wallet.chain = "SEPOLIA"
          /\ op' = [op EXCEPT !.step = "accounts"]
    /\ UNCHANGED <<opFrame, readiness>>

\* readinessStatus
StatusOfReadiness(r) ==
    CASE r = "UNAUTHORIZED" -> "ASK_ACCOUNTS"
      [] r = "WRONG_CHAIN" -> "ASK_SWITCH"
      [] r = "READY" -> "READY"
      [] OTHER -> "NOT_READY"

OpCompletesFaultIgnoresEvents ==
    /\ op.step = "chain"
    /\ op' = NoOp
    /\ readiness' = StatusOfReadiness(Readiness(op.accounts, wallet.chain))
    /\ UNCHANGED opFrame

\* perform and applyReadiness: a result counts only if no event came in between.
OpCompletes ==
    /\ op.step = "chain" /\ op.intact
    /\ op' = NoOp
    /\ readiness' = StatusOfReadiness(Readiness(op.accounts, wallet.chain))
    /\ UNCHANGED opFrame

\* errorStatus: an event, a deadline, or the user's refusal, which may be repeated.
OpFails ==
    /\ op # NoOp
    /\ op' = NoOp
    /\ readiness' \in {"NOT_READY", "ASK_ACCOUNTS"}
                      \cup (IF op.step = "switch" THEN {"ASK_SWITCH"} ELSE {})
    /\ UNCHANGED opFrame

\* The provider changed under the session.
OpLosesProvider ==
    /\ op # NoOp
    /\ Drop
    /\ readiness' = "NOT_READY"
    /\ UNCHANGED <<controllerFrame, approvalStatus, providers>>

\* A wallet event reaches the protocol and, through onSessionInvalidated, the page.
Event ==
    /\ WalletEvent
    /\ op' = IF op = NoOp THEN op ELSE [op EXCEPT !.intact = FALSE]
    /\ readiness' = IF Controlled /\ session # None THEN "NOT_READY" ELSE readiness
    /\ UNCHANGED <<surface, view, target, approvalStatus, providers, session>>

-----------------------------------------------------------------------------
(* The controller: approval *)

\* approvePlan
ControllerApproves ==
    /\ Eligible /\ ~Busy /\ session # None /\ readiness = "READY"
    /\ ~Locked /\ approvalStatus # "SIGNING_UNSUPPORTED"
    /\ approvalStatus' = "IN_PROGRESS" /\ BeginAt("preflight", None)
    /\ UNCHANGED <<controllerFrame, posts, readiness, op, session, providers>>

\* refreshApprovalStatus needs no session.
ControllerRefreshes ==
    /\ Controlled /\ ~Busy /\ MayRefresh
    /\ BeginAt("reconcile", "REFUSED_OR_UNRECORDED")
    /\ UNCHANGED <<controllerFrame, posts, approvalStatus, readiness, op, session,
                   providers>>

settleFrame == <<serverVars, posts, wallet, unheard, surface, target, op, providers>>

Becomes(status, ready, s) == approvalStatus' = status /\ readiness' = ready /\ session' = s

\* settleApprovalResult
ControllerSettlesResult ==
    /\ surface = "CONTROLLER" /\ attempt.step = "done" /\ attempt.answer.outcome # "THROWN"
    /\ LET result == attempt.answer
           changed == result.outcome = "STALE_OR_CHANGED" \/ result.run # target
       IN IF result.outcome \in NotRecorded \cup {"APPROVAL_RECORDED"}
          THEN /\ Accept(result.run)
               /\ CASE ~Accepted(result.run) ->
                           Becomes("UNCONFIRMED", "NOT_READY", None)
                    [] Accepted(result.run) /\ result.outcome = "APPROVAL_RECORDED" ->
                           Becomes("RECORDED", "NO_WALLET", None)
                    [] Accepted(result.run) /\ result.outcome \in NotRecorded /\ changed ->
                           Becomes("STALE_OR_CHANGED", "NOT_READY", None)
                    [] OTHER -> Becomes("NOT_RECORDED", readiness, session)
          ELSE /\ Becomes(IF result.outcome = "ACCESS_UNAVAILABLE" THEN "ACCESS_UNAVAILABLE"
                          ELSE "UNCONFIRMED", readiness, session)
               /\ UNCHANGED view
    /\ attempt' = NoAttempt
    /\ UNCHANGED settleFrame

\* The error branches of approvePlan; errors of the wallet other than a refusal to
\* sign invalidate the readiness too.
ControllerSettlesError ==
    /\ surface = "CONTROLLER" /\ attempt.step = "done" /\ attempt.answer.outcome = "THROWN"
    /\ LET code == attempt.answer.code IN
       Becomes(StatusOfError(code),
               CASE code = "WRONG_CHAIN" -> "ASK_SWITCH"
                 [] code \in {"REQUIRED_ACCOUNT_UNAVAILABLE", "ATTEMPT_INVALIDATED",
                             "CHALLENGE_REFUSED"} -> "NOT_READY"
                 [] OTHER -> readiness,
               session)
    /\ attempt' = NoAttempt
    /\ UNCHANGED <<settleFrame, view>>

\* updateTarget, after the page accepted another state of the run.
UpdateTarget ==
    /\ Controlled /\ view # "ABSENT" /\ target # view
    /\ Drop
    /\ target' = view
    /\ approvalStatus' = IF Approved(view) THEN "RECORDED" ELSE "IDLE"
    /\ readiness' = "NO_WALLET"
    /\ UNCHANGED <<serverVars, wallet, unheard, surface, view, providers>>

-----------------------------------------------------------------------------
ApprovalInit ==
    /\ ProtocolInit
    /\ surface \in Surfaces
    /\ view = "ABSENT" /\ target = "ABSENT" /\ approvalStatus = "IDLE"
    /\ readiness = "NO_WALLET"
    /\ providers = [p \in Providers |-> "ABSENT"]
    /\ session = None /\ op = NoOp

Protocol ==
    /\ Outside \/ Served \/ Browser \/ Signing
    /\ Cardinality(posts') <= MaxPosts[surface]
    /\ UNCHANGED pageVars

Settles == SectionSettles \/ ControllerSettlesResult \/ ControllerSettlesError

OpStep == OpContinues \/ OpCompletes \/ OpFails \/ OpLosesProvider

UserStep ==
    \/ Open \/ Close \/ Refreshed
    \/ SectionApproves \/ SectionRefreshes
    \/ StartOperation \/ ControllerApproves \/ ControllerRefreshes
    \/ UpdateTarget
    \/ \E p \in Providers : Announce(p) \/ ChooseProvider(p)
    \/ \E p \in Providers \cup {"LEGACY"} : Select(p)

ApprovalNext == Protocol \/ Event \/ Settles \/ OpStep \/ UserStep

\* Timers run: every request ends within fifteen seconds and every prompt within two
\* minutes, and the page takes what it waits for.  Nothing is assumed of the server,
\* the user or the order of events.
ApprovalSpec ==
    /\ ApprovalInit /\ [][ApprovalNext]_allVars
    /\ WF_allVars(Browser /\ UNCHANGED pageVars)
    /\ WF_allVars((InspectionFails \/ NotSigned) /\ UNCHANGED pageVars)
    /\ WF_allVars(Settles)

-----------------------------------------------------------------------------
(* Properties *)

\* What the page tells the user about the approval.
Shown ==
    IF surface = "SECTION" /\ view # "AWAITING_APPROVAL"
    THEN IF Approved(view) THEN "RECORDED" ELSE "INELIGIBLE"
    ELSE approvalStatus

\* "Plan approval recorded." is shown only for a run with a stored approval, however
\* the answers of reads and submissions were delayed, lost or overtaken; a
\* cancellation too moves an unapproved run on by one revision.
RecordedIsTrue == Shown = "RECORDED" => proof # None

\* "Plan approval was not recorded" is never shown while a submission this page waited
\* for to the end has been recorded.  A submission it gave up on may still arrive.
NotRecordedIsTrue ==
    Shown \in {"SIGNATURE_REJECTED", "NOT_RECORDED", "REQUEST_FAILED"}
        => proof = None \/ proof.by # "page"

\* The controller calls a wallet ready only if the required signer is active on
\* Sepolia, as far as the wallet's events have told: no pair of reads taken across an
\* event can make it so.
ReadyIsCurrent ==
    Controlled /\ readiness = "READY" /\ ~unheard
        => Readiness(wallet.account, wallet.chain) = "READY"

\* "Approval request in progress" is shown while a request is in progress.  The one
\* exception is the controller's: a provider that collides during an approval takes
\* the session along but leaves the status, and nothing but a change of the run or a
\* reload ends it.
InProgressIsTrue ==
    Shown = "IN_PROGRESS" /\ attempt.step = "idle"
        => surface = "CONTROLLER" /\ session = None

\* A section that offers neither approval nor refresh shows a run that is still to be
\* approved only if the wallet could not sign; a page told that the run changed
\* (409) does not lose its buttons for a run that did not.
DeadEndOnlyIfChanged ==
    OnSection /\ attempt.step = "idle" /\ run = "AWAITING_APPROVAL"
        => MayAskAgain \/ MayRefresh \/ approvalStatus = "SIGNING_UNSUPPORTED"

\* Every approval comes to an end the user is told of, whatever the network and the
\* wallet do or fail to do.
ApprovalSettles == attempt.step # "idle" ~> attempt.step = "idle"
=============================================================================
