------------------------------ MODULE Approval -------------------------------
(***************************************************************************)
(* Approving the plan of a run: the five handlers a browser meets before   *)
(* execution, the access cookie, the stateless challenge, the wallet that  *)
(* signs it, and approveRunFromUserAction, which drives them in order.     *)
(*                                                                         *)
(* The challenge names the run, its revision and the required signer, and  *)
(* the token carries a MAC over them: a page holds either a challenge for  *)
(* the plan it shows or none.  What is left of a challenge is whether its  *)
(* 300 seconds are over.  A request is answered from the row as it is when *)
(* the server reads it; the answer may be overtaken by other writes, or    *)
(* lost, and the browser stops waiting after 15 seconds.                   *)
(***************************************************************************)
EXTENDS Naturals

CONSTANT None

VARIABLES
    run,        \* the durable run the page is about
    access,     \* the browser's cookie grants access to it
    proof,      \* the approval proof stored with the run
    posts,      \* approval requests on their way to the server
    wallet,     \* the wallet's account and chain
    unheard,    \* it changed and the event has not reached the page
    attempt     \* the approval or the refresh the page is busy with

protocolVars == <<run, access, proof, posts, wallet, unheard, attempt>>

\* Approved at the next revision, prepared or cancelled later still ("LATER"), or
\* cancelled before the approval; in the order of their revisions.
RunStates == <<"ABSENT", "AWAITING_APPROVAL", "PREPARING", "CANCELLED", "LATER">>

Rank(r) == CHOOSE i \in DOMAIN RunStates : RunStates[i] = r

Approved(r) == r \in {"PREPARING", "LATER"}

\* What the run stores of an approval, and who sent it: the page while it waited,
\* the page when it no longer did, or another tab.
Proofs == [signer : {"NONE", "OTHER", "SIGNER"}, fresh : BOOLEAN,
           by : {"page", "late", "elsewhere"}]

\* The chain of a wallet without the signer's account makes no difference.
WalletState ==
    [account : {"NONE", "OTHER", "SIGNER"}, chain : {"SEPOLIA"}]
    \cup [account : {"SIGNER"}, chain : {"OTHER"}]

\* #readiness
Readiness(accounts, chain) ==
    CASE accounts = "NONE" -> "UNAUTHORIZED"
      [] accounts = "OTHER" -> "REQUIRED_ACCOUNT_UNAVAILABLE"
      [] accounts = "SIGNER" /\ chain # "SEPOLIA" -> "WRONG_CHAIN"
      [] OTHER -> "READY"

\* step: what the page waits for; intact: no wallet event since the generation was
\* captured; fresh: the challenge has not expired.
NoAttempt == [step |-> "idle", answer |-> None, accounts |-> None, intact |-> TRUE,
              fresh |-> TRUE, reason |-> None]

Waits == {"preflight", "challenge", "submit", "reconcile"}

\* A network step ends with a run, with one of these, or with another error.
GatewayErrors == {"ACCESS_UNAVAILABLE", "STALE_OR_STATE_CONFLICT", "FAILURE"}

ASSUME NoneAssumption ==
    /\ None \notin Proofs
    /\ None \notin {RunStates[i] : i \in 1..5} \cup GatewayErrors \cup {"RECORDED", "CHALLENGE"}

-----------------------------------------------------------------------------
(* The server *)

\* createRunHandler: the run starts at revision 1 and the cookie it sets is the
\* only one the browser keeps.
CreateRun ==
    /\ run = "ABSENT"
    /\ run' = "AWAITING_APPROVAL" /\ access' = TRUE
    /\ UNCHANGED <<proof, posts, wallet, unheard, attempt>>

\* Creating another run in the same browser replaces the cookie; it also ends
\* after a day.  In either case this run can no longer be reached.
LoseAccess ==
    /\ access /\ run # "ABSENT"
    /\ access' = FALSE
    /\ UNCHANGED <<run, proof, posts, wallet, unheard, attempt>>

\* cancelRunHandler, from this page or another one.
Cancel ==
    /\ run \in {"AWAITING_APPROVAL", "PREPARING"}
    /\ run' = IF Approved(run) THEN "LATER" ELSE "CANCELLED"
    /\ UNCHANGED <<access, proof, posts, wallet, unheard, attempt>>

\* The same run in another tab: approved there, or already prepared.
Elsewhere ==
    /\ \/ /\ run = "AWAITING_APPROVAL"
          /\ run' = "PREPARING"
          /\ proof' = [signer |-> "SIGNER", fresh |-> TRUE, by |-> "elsewhere"]
       \/ /\ run = "PREPARING"
          /\ run' = "LATER" /\ UNCHANGED proof
    /\ UNCHANGED <<access, posts, wallet, unheard, attempt>>

Answer(a) ==
    /\ attempt' = [attempt EXCEPT !.answer = a]
    /\ UNCHANGED <<run, access, proof, wallet, unheard>>

\* getRunHandler
ServeRun ==
    /\ attempt.step \in {"preflight", "reconcile"} /\ attempt.answer = None
    /\ Answer(IF access THEN run ELSE "ACCESS_UNAVAILABLE")
    /\ UNCHANGED posts

\* approvalChallengeHandler: a refused token and a missing run differ for the
\* browser only in the error they produce.
ServeChallenge ==
    /\ attempt.step = "challenge" /\ attempt.answer = None
    /\ Answer(CASE ~access -> "ACCESS_UNAVAILABLE"
                [] access /\ run # "AWAITING_APPROVAL" -> "STALE_OR_STATE_CONFLICT"
                [] OTHER -> "CHALLENGE")
    /\ UNCHANGED posts

VerifyFaultAnySigner(p) == p.fresh

\* WalletApprovalService.verify, for a challenge of this run at this revision.
Verify(p) == p.fresh /\ p.signer = "SIGNER"

RefusedAsFaultConflict(p) ==
    CASE ~access -> "ACCESS_UNAVAILABLE"
      [] OTHER -> "STALE_OR_STATE_CONFLICT"

\* What approveRunHandler answers to an approval it does not record: a challenge
\* it cannot verify is refused like a missing cookie.
RefusedAs(p) ==
    CASE ~access -> "ACCESS_UNAVAILABLE"
      [] access /\ run # "AWAITING_APPROVAL" -> "STALE_OR_STATE_CONFLICT"
      [] OTHER -> "ACCESS_UNAVAILABLE"

\* The browser that still waits for this request gets the answer.
Reply(p, a) ==
    attempt' = IF p.awaited /\ attempt.step = "submit"
               THEN [attempt EXCEPT !.answer = a] ELSE attempt

\* approveRunHandler: the write insists on the revision that was read, so reading,
\* verifying and writing are one step.
ServeApproval(p) ==
    /\ posts' = posts \ {p}
    /\ IF access /\ run = "AWAITING_APPROVAL" /\ Verify(p)
       THEN /\ run' = "PREPARING"
            /\ proof' = [signer |-> p.signer, fresh |-> p.fresh,
                         by |-> IF p.awaited THEN "page" ELSE "late"]
            /\ Reply(p, "RECORDED")
       ELSE Reply(p, RefusedAs(p)) /\ UNCHANGED <<run, proof>>
    /\ UNCHANGED <<access, wallet, unheard>>

\* The request never reaches the server.
LoseApproval(p) ==
    /\ posts' = posts \ {p}
    /\ Reply(p, "FAILURE")
    /\ UNCHANGED <<run, access, proof, wallet, unheard>>

\* The five minutes of every open challenge are over.
ExpireChallenge ==
    /\ attempt.step \in {"accounts", "chain", "sign"} \/ posts # {}
    /\ attempt' = IF attempt.step \in {"accounts", "chain", "sign"}
                  THEN [attempt EXCEPT !.fresh = FALSE] ELSE attempt
    /\ posts' = {[p EXCEPT !.fresh = FALSE] : p \in posts}
    /\ UNCHANGED <<run, access, proof, wallet, unheard>>

-----------------------------------------------------------------------------
(* The wallet *)

\* The user changes account or chain, connects or disconnects; the page hears of it
\* before the next change.
ChangeWallet ==
    /\ ~unheard /\ unheard' = TRUE
    /\ wallet' \in WalletState \ {wallet}
    /\ UNCHANGED <<run, access, proof, posts, attempt>>

\* The session's listener for connect, disconnect, accountsChanged and chainChanged.
WalletEvent ==
    /\ unheard /\ unheard' = FALSE
    /\ attempt' = IF attempt.step \in {"accounts", "chain", "sign"}
                  THEN [attempt EXCEPT !.intact = FALSE] ELSE attempt
    /\ UNCHANGED <<run, access, proof, posts, wallet>>

-----------------------------------------------------------------------------
(* approveRunFromUserAction *)

GoesOn(step) ==
    /\ attempt' = [attempt EXCEPT !.step = step, !.answer = None]
    /\ UNCHANGED <<run, access, proof, posts, wallet, unheard>>

\* The attempt ends with a result (a pair of outcome and run) or with an error.
EndsWith(outcome) ==
    /\ attempt' = [NoAttempt EXCEPT !.step = "done", !.answer = outcome]
    /\ UNCHANGED <<run, access, proof, posts, wallet, unheard>>

Outcome(o, r) == [outcome |-> o, run |-> r]
Thrown(code) == [outcome |-> "THROWN", code |-> code]

RecordedApprovalFaultByRevision(r) == r \in {"PREPARING", "CANCELLED"}

\* recordedApproval: approved, exactly one revision on, and nothing prepared yet.
RecordedApproval(r) == r = "PREPARING"

\* The page is mounted on a run it has read; the first read decides whether the
\* plan it shows is still the plan.
TakePreflight ==
    /\ attempt.step = "preflight" /\ attempt.answer # None
    /\ CASE attempt.answer \in GatewayErrors -> EndsWith(Thrown(attempt.answer))
         [] RecordedApproval(attempt.answer) ->
                EndsWith(Outcome("APPROVAL_RECORDED", attempt.answer))
         [] Approved(attempt.answer) /\ ~RecordedApproval(attempt.answer) ->
                EndsWith(Outcome("APPROVAL_UNCONFIRMED", None))
         [] attempt.answer = "CANCELLED" ->
                EndsWith(Outcome("STALE_OR_CHANGED", attempt.answer))
         [] OTHER -> GoesOn("challenge")

Reconcile(reason) ==
    /\ attempt' = [NoAttempt EXCEPT !.step = "reconcile", !.reason = reason]
    /\ UNCHANGED <<run, access, proof, posts, wallet, unheard>>

ReasonFor(error) ==
    IF error = "STALE_OR_STATE_CONFLICT" THEN "STALE_OR_CHANGED" ELSE "REFUSED_OR_UNRECORDED"

TakeChallenge ==
    /\ attempt.step = "challenge" /\ attempt.answer # None
    /\ \/ attempt.answer \in {"ACCESS_UNAVAILABLE", "STALE_OR_STATE_CONFLICT"}
          /\ Reconcile(ReasonFor(attempt.answer))
       \/ attempt.answer = "FAILURE" /\ EndsWith(Thrown("FAILURE"))
       \/ /\ attempt.answer = "CHALLENGE"
          /\ attempt' = [NoAttempt EXCEPT !.step = "accounts"]
          /\ UNCHANGED <<run, access, proof, posts, wallet, unheard>>

\* validateApprovalChallenge, when the browser's clock is minutes off.
RejectChallenge ==
    /\ attempt.step = "challenge" /\ attempt.answer = "CHALLENGE"
    /\ EndsWith(Thrown("CHALLENGE_REFUSED"))

\* SelectedWalletSession.inspect: two reads, with no event in between.
ReadAccounts ==
    /\ attempt.step = "accounts" /\ attempt.intact
    /\ attempt' = [attempt EXCEPT !.step = "chain", !.accounts = wallet.account]
    /\ UNCHANGED <<run, access, proof, posts, wallet, unheard>>

\* The generation the signature is bound to is captured after the inspection.
ReadChain ==
    /\ attempt.step = "chain" /\ attempt.intact
    /\ LET readiness == Readiness(attempt.accounts, wallet.chain) IN
       IF readiness = "READY"
       THEN /\ attempt' = [attempt EXCEPT !.step = "sign", !.accounts = None]
            /\ UNCHANGED <<run, access, proof, posts, wallet, unheard>>
       ELSE EndsWith(Thrown(IF readiness = "WRONG_CHAIN" THEN readiness
                            ELSE "REQUIRED_ACCOUNT_UNAVAILABLE"))

\* eth_signTypedData_v4: the user confirms, with the account the wallet has now.
Sign ==
    /\ attempt.step = "sign" /\ attempt.intact /\ wallet.account # "NONE"
    /\ attempt' = [NoAttempt EXCEPT !.step = "submit"]
    /\ posts' = posts \cup {[signer |-> wallet.account, fresh |-> attempt.fresh,
                             awaited |-> TRUE]}
    /\ UNCHANGED <<run, access, proof, wallet, unheard>>

\* The wallet refuses, cannot sign typed data, answers nothing within its deadline
\* or answers after an event.
NotSigned ==
    /\ attempt.step = "sign"
    /\ \E code \in {"SIGNATURE_REJECTED", "SIGNING_UNSUPPORTED", "ATTEMPT_INVALIDATED"} :
          EndsWith(Thrown(code))

\* assertGeneration, or a deadline, ends an inspection.
InspectionFails ==
    /\ attempt.step \in {"accounts", "chain"}
    /\ EndsWith(Thrown("ATTEMPT_INVALIDATED"))

TakeSubmissionFaultTrustsError ==
    /\ attempt.step = "submit" /\ attempt.answer # None
    /\ IF attempt.answer = "FAILURE" THEN EndsWith(Thrown("FAILURE"))
       ELSE Reconcile(ReasonFor(attempt.answer))

\* Whatever the submission answered, one read of the run decides.
TakeSubmission ==
    /\ attempt.step = "submit" /\ attempt.answer # None
    /\ Reconcile(ReasonFor(attempt.answer))

\* readApprovalStatusFromUserAction
TakeReconciliation ==
    /\ attempt.step = "reconcile" /\ attempt.answer # None
    /\ EndsWith(
         CASE attempt.answer = "ACCESS_UNAVAILABLE" -> Outcome("ACCESS_UNAVAILABLE", None)
           [] attempt.answer \in GatewayErrors \ {"ACCESS_UNAVAILABLE"} ->
                  Outcome("APPROVAL_UNCONFIRMED", None)
           [] RecordedApproval(attempt.answer) -> Outcome("APPROVAL_RECORDED", attempt.answer)
           [] Approved(attempt.answer) /\ ~RecordedApproval(attempt.answer) ->
                  Outcome("APPROVAL_UNCONFIRMED", None)
           [] OTHER -> Outcome(attempt.reason, attempt.answer))

TimeoutFaultNever ==
    /\ attempt.step \in Waits \ {"submit"} /\ attempt.answer = None
    /\ Answer("FAILURE") /\ UNCHANGED posts

TimeoutFaultStillWaits ==
    /\ attempt.step \in Waits /\ attempt.answer = None
    /\ Answer("FAILURE") /\ UNCHANGED posts

\* send: no answer within fifteen seconds, or one the browser cannot use.  The
\* server may still handle the request.
Timeout ==
    /\ attempt.step \in Waits /\ attempt.answer = None
    /\ Answer("FAILURE")
    /\ posts' = {[p EXCEPT !.awaited = FALSE] : p \in posts}

\* The answer was computed, but it does not arrive.
LoseAnswer ==
    /\ attempt.step \in Waits
    /\ attempt.answer \notin {None, "FAILURE"}
    /\ Answer("FAILURE") /\ UNCHANGED posts

-----------------------------------------------------------------------------
ProtocolInit ==
    /\ run = "ABSENT" /\ access = FALSE /\ proof = None /\ posts = {}
    /\ wallet = [account |-> "SIGNER", chain |-> "SEPOLIA"]
    /\ unheard = FALSE
    /\ attempt = NoAttempt

Outside ==
    \/ CreateRun \/ LoseAccess \/ Cancel \/ Elsewhere \/ ExpireChallenge \/ ChangeWallet
    \/ LoseAnswer
    \/ \E p \in posts : LoseApproval(p)

Served ==
    \/ ServeRun \/ ServeChallenge
    \/ \E p \in posts : ServeApproval(p)

Browser ==
    \/ TakePreflight \/ TakeChallenge \/ RejectChallenge \/ TakeSubmission
    \/ TakeReconciliation \/ Timeout

Signing == ReadAccounts \/ ReadChain \/ Sign \/ NotSigned \/ InspectionFails

-----------------------------------------------------------------------------
(* Properties *)

\* "Explicit human plan approval": whatever the wallet, the page and the network
\* did in the meantime, a plan is approved only by a signature of the designated
\* signer over a challenge that had not expired.  An account switched between the
\* inspection and the signature is caught here and nowhere else.
ApprovalIsSigned ==
    Approved(run) => proof # None /\ proof.signer = "SIGNER" /\ proof.fresh
=============================================================================
