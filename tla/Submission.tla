----------------------------- MODULE Submission ------------------------------
(***************************************************************************)
(* From "prepare" to a recorded hash: browser tabs, the HTTP requests they *)
(* and other clients send, Brickken's answers, the wallet, and everything  *)
(* that can be lost in between.                                            *)
(*                                                                         *)
(* The row of the run is ExecutionRun's; every write below is one of its   *)
(* actions.  A request reads the row once, and each of its later reads     *)
(* insists on the revision it expects, so all it needs to remember is      *)
(* whether the row is still the one it read: `fresh`.  A write makes every *)
(* other request and every envelope stale.  A request whose expected       *)
(* revision is already stale when it arrives changes nothing and is left   *)
(* out.                                                                    *)
(***************************************************************************)
EXTENDS ExecutionRun

CONSTANTS
    Requests,   \* requests the server handles at the same time
    Tabs,       \* browser tabs open on the run
    MaxFaults   \* crashes, database failures and lost answers

VARIABLES
    request,    \* what the server is doing for each request
    tab,        \* what each tab is doing
    stale,      \* the prepared nonce moved or the price report expired
    sent,       \* eth_sendTransaction invocations of each operation
    broadcast,  \* hashes the wallet broadcast for each operation
    faults,     \* faults so far
    closed      \* some tab was closed while it was busy

\* An operation that was verified before had a hash in some block.
ASSUME PredecessorAssumption == Scope = "LEGACY_FULL" => Hashes # {} /\ Blocks # {}

runState == vars
envVars == <<stale, sent, broadcast, faults, closed>>
allVars == <<runState, request, tab, envVars>>

\* What other clients ask for.  "execute" comes from a tab only: one that gave up
\* waiting or was closed stands for every other client.
Routes == {"prepare", "promote", "readiness", "authorize", "cancel"}

Asking == {"askFirst", "askLifecycle", "askAgain"}

NoRequest == [step |-> "idle", route |-> "none", tab |-> None, fresh |-> FALSE, hash |-> None]

NoTab == [step |-> "idle", fresh |-> FALSE, hash |-> None]

\* deriveActiveOperation: the operation the run is working on.
Op == CHOOSE k \in Kinds : Active(k)

\* The run just after approval, or just after TOKENIZE was verified: the two
\* points from which an operation is prepared, through two different services.
StartOf(k, h) ==
    LET done == {j \in Kinds : k = "WHITELIST" /\ j = "TOKENIZE"} IN
    /\ schema = IF k = "TOKENIZE" THEN "2.0" ELSE "4.0"
    /\ phase = PhaseOf[k] /\ status = "PREPARING" /\ outcome = None
    /\ eligible = FALSE /\ tokenIdentity = IF k = "TOKENIZE" THEN None ELSE h
    /\ stage = [j \in Kinds |-> IF j \in done THEN "READ_BACK_VERIFIED" ELSE "NOT_STARTED"]
    /\ attempts = [j \in Kinds |-> IF j \in done THEN <<"PREPARED">> ELSE << >>]
    /\ prompt = [j \in Kinds |-> IF j \in done
                     THEN [invocation |-> "INVOKED_OR_UNKNOWN", attempt |-> 1] ELSE None]
    /\ hash = [j \in Kinds |-> IF j \in done THEN h ELSE None]
    /\ rpc = [j \in Kinds |-> IF j \in done THEN "WITHIN_ENVELOPE" ELSE "NONE"]
    /\ receipt = [j \in Kinds |-> IF j \in done
                      THEN [execution |-> "SUCCESS", identity |-> "MATCH",
                            finality |-> "FINALIZED", block |-> CHOOSE b \in Blocks : TRUE]
                      ELSE None]
    /\ correlation = [j \in Kinds |-> IF j \in done
                          THEN [attempt |-> 1, hash |-> h, lifecycle |-> "CORRELATED",
                                count |-> 1, last |-> "AUTHORIZED"]
                          ELSE None]
    /\ statusText = [j \in Kinds |-> None]
    /\ released = [j \in Kinds |-> IF j \in done THEN 1 ELSE 0]
    /\ reserved = 0 /\ refused = FALSE /\ pollStep = 0
    /\ sent = released
    /\ broadcast = [j \in Kinds |-> IF j \in done THEN {h} ELSE {}]

SubmissionInit ==
    /\ \/ StartOf("TOKENIZE", None)
       \/ Scope = "LEGACY_FULL" /\ StartOf("WHITELIST", CHOOSE h \in Hashes : TRUE)
    /\ request = [r \in Requests |-> NoRequest]
    /\ tab = [t \in Tabs |-> NoTab]
    /\ stale = FALSE /\ faults = 0 /\ closed = FALSE

-----------------------------------------------------------------------------
(* Requests on the server *)

\* The compare-and-swap of request r succeeds: r goes on at `step`, and whoever
\* expects the old revision is now stale.
Write(r, step) ==
    /\ request[r].fresh
    /\ request' = [q \in Requests |->
           IF q = r THEN [request[r] EXCEPT !.step = step]
                    ELSE [request[q] EXCEPT !.fresh = FALSE]]
    /\ tab' = [t \in Tabs |-> [tab[t] EXCEPT !.fresh = FALSE]]
    /\ UNCHANGED <<sent, broadcast, faults, closed>>

\* r goes on at `step` without writing.
Proceed(r, step) ==
    /\ request' = [request EXCEPT ![r].step = step]
    /\ UNCHANGED <<runState, tab, sent, broadcast, closed>>

\* A request that begins its work on one of `routes`.
Begins(r, routes) ==
    /\ request[r].step = "begin"
    /\ request[r].route \in routes
    /\ request[r].fresh

\* Where a request of route "execute" continues, and where any other ends.
Then(r, step) == IF request[r].route = "execute" THEN step ELSE "ok"

Arrive(r, route) ==
    /\ request[r].step = "idle"
    /\ request' = [request EXCEPT ![r] =
           [NoRequest EXCEPT !.step = "begin", !.route = route, !.fresh = TRUE]]
    /\ UNCHANGED <<runState, tab, envVars>>

\* prepareNextOperation (schema 2.0): the intent is durable before Brickken is
\* asked.
AskFirst(r) ==
    /\ Begins(r, {"execute", "prepare"})
    /\ BeginPrepare(Op) /\ Write(r, "askFirst") /\ UNCHANGED stale

FirstPrepared(r) ==
    /\ request[r].step = "askFirst"
    /\ RecordPrepared(Op) /\ Write(r, Then(r, "begin")) /\ stale' = FALSE

FirstNotPrepared(r) ==
    /\ request[r].step = "askFirst"
    /\ RecordPrepareUnknown(Op) \/ RecordPrepareFailure(Op) \/ RecordPrepareInterrupted(Op)
    /\ Write(r, "error") /\ UNCHANGED stale

PromoteRun(r) ==
    /\ Begins(r, {"execute", "promote"})
    /\ status = "AWAITING_WALLET"
    /\ Promote(Op) /\ Write(r, Then(r, "begin")) /\ UNCHANGED stale

\* prepareOperation (schema 4.0): Brickken is asked first; nothing is durable.
AskLifecycle(r) ==
    /\ Begins(r, {"execute", "prepare"})
    /\ schema = "4.0" /\ status = "PREPARING"
    /\ stage[Op] = "NOT_STARTED" /\ hash[Op] = None
    /\ Proceed(r, "askLifecycle") /\ UNCHANGED <<stale, faults>>

LifecyclePrepared(r) ==
    /\ request[r].step = "askLifecycle"
    /\ RecordInitialPreparation(Op) /\ Write(r, Then(r, "begin")) /\ stale' = FALSE

AskAgainFaultForgetsIntent(r) ==
    /\ Begins(r, {"execute", "prepare"})
    /\ status = "AWAITING_WALLET" /\ stage[Op] = "PREPARED_STALE" /\ MayPrepareAgain(Op)
    /\ Proceed(r, "askAgain") /\ UNCHANGED <<stale, faults>>

\* reprepareOperation: the intent is durable before Brickken is asked.
AskAgain(r) ==
    /\ Begins(r, {"execute", "prepare"})
    /\ status = "AWAITING_WALLET"
    /\ BeginReprepare(Op) /\ Write(r, "askAgain") /\ UNCHANGED stale

PreparedAgain(r) ==
    /\ request[r].step = "askAgain"
    /\ RecordReprepared(Op) /\ Write(r, Then(r, "release")) /\ stale' = FALSE

NotPreparedAgain(r) ==
    /\ request[r].step = "askAgain"
    /\ RecordReprepareUnknown(Op) \/ RecordReprepareRefused(Op)
    /\ Write(r, "error") /\ UNCHANGED stale

\* evaluateAndApplyPreparedFreshness.  What it reads of the chain is taken
\* together with its write: the write counts only if the row did not change.
FreshEnough(r) ==
    /\ Begins(r, {"execute", "readiness"})
    /\ schema = "4.0" /\ status = "AWAITING_WALLET" /\ stage[Op] = "PREPARED" /\ ~stale
    /\ Proceed(r, Then(r, "release")) /\ UNCHANGED <<stale, faults>>

TooOld(r) ==
    /\ Begins(r, {"execute", "readiness"})
    /\ status = "AWAITING_WALLET" /\ stale
    /\ MarkPreparedStale(Op) /\ Write(r, "stale") /\ UNCHANGED stale

-----------------------------------------------------------------------------
(* releaseSendAuthority *)

InRelease(r) ==
    /\ request[r].fresh
    /\ \/ request[r].step = "release"
       \/ Begins(r, {"authorize"})
       \/ Begins(r, {"execute"}) /\ stage[Op] = "WALLET_PROMPT_RECORDED"

RecordPrompt(r) ==
    /\ InRelease(r) /\ ~stale
    /\ RecordWalletPrompt(Op) /\ Write(r, "release") /\ UNCHANGED stale

FindStale(r) ==
    /\ InRelease(r) /\ stale /\ status = "AWAITING_WALLET"
    /\ MarkPreparedStale(Op) /\ Write(r, "stale") /\ UNCHANGED stale

ReleaseFaultBeforeWrite(r) ==
    /\ InRelease(r) /\ ~stale /\ PromptUnspent(Op)
    /\ Proceed(r, "envelope") /\ UNCHANGED <<stale, faults>>

Release(r) ==
    /\ InRelease(r) /\ ~stale
    /\ ReleaseSendAuthority(Op) /\ Write(r, "envelope") /\ UNCHANGED stale

FoundStalePrompt(r) == InRelease(r) /\ stale /\ status = "AWAITING_WALLET" /\ PromptUnspent(Op)

\* The mark needs the clock to read the very instant at which the nonce was
\* observed.
MarkStalePrompt(r) ==
    /\ FoundStalePrompt(r)
    /\ DropPromptAndMarkStale(Op) /\ Write(r, "stale") /\ UNCHANGED stale

\* At any other instant markPreparedStaleV4 throws and nothing is written.
ThrowOnStalePrompt(r) ==
    /\ FoundStalePrompt(r)
    /\ Proceed(r, "threw") /\ UNCHANGED <<stale, faults>>

-----------------------------------------------------------------------------
(* Cancellation, reports and the ways a request ends *)

CancelRun(r) ==
    /\ Begins(r, {"cancel"})
    /\ Cancel /\ Write(r, "ok") /\ UNCHANGED stale

IngestHash(r) ==
    /\ request[r].step = "report" /\ request[r].route = "hash"
    /\ RecordBroadcastHash(Op, request[r].hash) /\ Write(r, "ok") /\ UNCHANGED stale

IngestUnknown(r) ==
    /\ request[r].step = "report" /\ request[r].route = "unknown"
    /\ RecordBroadcastUnknown(Op) /\ Write(r, "ok") /\ UNCHANGED stale

Ended == {"ok", "error", "stale", "threw", "envelope"}

\* The row changed under the request: REVISION_CONFLICT.
Conflict(r) ==
    /\ request[r].step \notin Ended \cup {"idle"}
    /\ ~request[r].fresh
    /\ Proceed(r, "error") /\ UNCHANGED <<stale, faults>>

\* A refusal that writes nothing: a guard, a disabled write gate, a denied
\* policy, an unreachable RPC node, an answer of Brickken to askLifecycle.
Refuse(r) ==
    /\ request[r].step \in {"begin", "release", "askLifecycle"}
    /\ Proceed(r, "error") /\ UNCHANGED <<stale, faults>>

\* The process dies, the database does not answer (whether or not it had
\* committed), or the answer never reaches the tab.
Fail(r) ==
    /\ faults < MaxFaults
    /\ request[r].step \notin {"idle", "error"}
    /\ faults' = faults + 1
    /\ Proceed(r, "error") /\ UNCHANGED stale

-----------------------------------------------------------------------------
(* Browser tabs: executeSendAuthorizedEnvelopeFromUserAction *)

\* The run as such and the wallet are not concerned.
BrowserStep == UNCHANGED <<runState, stale, faults>>

Click(t) ==
    /\ tab[t].step = "idle"
    /\ \E r \in Requests :
           /\ request[r].step = "idle"
           /\ request' = [request EXCEPT ![r] =
                  [NoRequest EXCEPT !.step = "begin", !.route = "execute", !.tab = t,
                                    !.fresh = TRUE]]
    /\ tab' = [tab EXCEPT ![t].step = "asking"]
    /\ BrowserStep /\ UNCHANGED <<sent, broadcast, closed>>

AfterBadAnswerFaultForgets(t) == NoTab

\* What a tab does when its request has no good answer.
AfterBadAnswer(t) ==
    IF tab[t].step = "reportingHash" THEN [tab[t] EXCEPT !.step = "unknown"] ELSE NoTab

AfterAnswer(t, r) ==
    CASE request[r].step = "envelope" ->
             [step |-> "holding", fresh |-> request[r].fresh, hash |-> None]
      [] request[r].step = "ok" -> NoTab
      [] OTHER -> AfterBadAnswer(t)

Deliver(r) ==
    /\ request[r].step \in Ended
    /\ tab' = IF request[r].tab = None THEN tab
              ELSE [tab EXCEPT ![request[r].tab] = AfterAnswer(request[r].tab, r)]
    /\ request' = [request EXCEPT ![r] = NoRequest]
    /\ BrowserStep /\ UNCHANGED <<sent, broadcast, closed>>

Forgotten(t) ==
    [r \in Requests |-> IF request[r].tab = t THEN [request[r] EXCEPT !.tab = None]
                                              ELSE request[r]]

\* The gateway's timeout expires; the request goes on without the tab.
GiveUp(t) ==
    /\ tab[t].step \in {"asking", "reportingHash", "reportingUnknown"}
    /\ tab' = [tab EXCEPT ![t] = AfterBadAnswer(t)]
    /\ request' = Forgotten(t)
    /\ BrowserStep /\ UNCHANGED <<sent, broadcast, closed>>

Invoke(t) ==
    /\ tab[t].step = "holding"
    /\ tab' = [tab EXCEPT ![t].step = "sending"]
    /\ sent' = [sent EXCEPT ![Op] = @ + 1]
    /\ BrowserStep /\ UNCHANGED <<request, broadcast, closed>>

LoseReadiness(t) ==
    /\ tab[t].step = "holding"
    /\ tab' = [tab EXCEPT ![t].step = "unknown"]
    /\ BrowserStep /\ UNCHANGED <<request, sent, broadcast, closed>>

\* The user confirms, whether or not the tab still waits.
Confirm(h) ==
    /\ Cardinality(broadcast[Op]) < sent[Op]
    /\ h \notin UNION {broadcast[k] : k \in Kinds}
    /\ broadcast' = [broadcast EXCEPT ![Op] = @ \cup {h}]
    /\ BrowserStep /\ UNCHANGED <<request, tab, sent, closed>>

WalletAnswers(t) ==
    /\ tab[t].step = "sending"
    /\ \E h \in broadcast[Op] : tab' = [tab EXCEPT ![t].step = "hash", ![t].hash = h]
    /\ BrowserStep /\ UNCHANGED <<request, sent, broadcast, closed>>

\* Rejected, timed out, malformed, or the session's generation changed.
WalletFails(t) ==
    /\ tab[t].step = "sending"
    /\ tab' = [tab EXCEPT ![t].step = "unknown"]
    /\ BrowserStep /\ UNCHANGED <<request, sent, broadcast, closed>>

Post(t, from, waiting) ==
    /\ tab[t].step = from
    /\ \E r \in Requests :
           /\ request[r].step = "idle"
           /\ request' = [request EXCEPT ![r] =
                  [step |-> "report", route |-> from, tab |-> t,
                   fresh |-> tab[t].fresh, hash |-> tab[t].hash]]
    /\ tab' = [tab EXCEPT ![t].step = waiting]
    /\ BrowserStep /\ UNCHANGED <<sent, broadcast, closed>>

PostHash(t) == Post(t, "hash", "reportingHash")

PostUnknown(t) == Post(t, "unknown", "reportingUnknown")

Close(t) ==
    /\ tab[t].step # "idle"
    /\ tab' = [tab EXCEPT ![t] = NoTab]
    /\ request' = Forgotten(t)
    /\ closed' = TRUE
    /\ BrowserStep /\ UNCHANGED <<sent, broadcast>>

\* The signer's nonce moves or the price report runs out.
Expire ==
    /\ ~stale /\ stage[Op] \in {"PREPARED", "WALLET_PROMPT_RECORDED"}
    /\ stale' = TRUE
    /\ UNCHANGED <<runState, request, tab, sent, broadcast, faults, closed>>

-----------------------------------------------------------------------------

Prepares(r) ==
    \/ AskFirst(r) \/ FirstPrepared(r) \/ FirstNotPrepared(r) \/ PromoteRun(r)
    \/ AskLifecycle(r) \/ LifecyclePrepared(r)
    \/ AskAgain(r) \/ PreparedAgain(r) \/ NotPreparedAgain(r)
    \/ FreshEnough(r) \/ TooOld(r)

Releases(r) ==
    \/ RecordPrompt(r) \/ FindStale(r) \/ Release(r)
    \/ MarkStalePrompt(r) \/ ThrowOnStalePrompt(r)

Reports(r) == IngestHash(r) \/ IngestUnknown(r)

\* What a request does by itself once the server has it.
Handle(r) ==
    Prepares(r) \/ Releases(r) \/ Reports(r) \/ CancelRun(r) \/ Conflict(r) \/ Refuse(r)

\* What a tab does by itself once the user clicked.
Browse(t) == Invoke(t) \/ LoseReadiness(t) \/ WalletAnswers(t) \/ WalletFails(t)

SubmissionNext ==
    \/ \E r \in Requests :
           \/ \E route \in Routes : Arrive(r, route)
           \/ Handle(r) \/ Deliver(r) \/ Fail(r)
    \/ \E t \in Tabs :
           Click(t) \/ GiveUp(t) \/ Browse(t) \/ PostHash(t) \/ PostUnknown(t) \/ Close(t)
    \/ \E h \in Hashes : Confirm(h)
    \/ Expire

\* The server finishes what it started, answers arrive, and a page that is open
\* keeps running.  Nobody is forced to click or to confirm.  A post needs a
\* free request here, which the real server always has: hence SF.
Fairness ==
    /\ \A r \in Requests : WF_allVars(Handle(r)) /\ WF_allVars(Deliver(r))
    /\ \A t \in Tabs : WF_allVars(Browse(t))
                       /\ SF_allVars(PostHash(t)) /\ SF_allVars(PostUnknown(t))

SubmissionSpec == SubmissionInit /\ [][SubmissionNext]_allVars /\ Fairness

-----------------------------------------------------------------------------
(* Properties *)

AuthorityOf(k) ==
    IF sent[k] > 0 THEN "spent" ELSE IF released[k] > 0 THEN "granted" ELSE "withheld"

KnownOf(k) == IF stage[k] = "BROADCAST_UNKNOWN" THEN "AMBIGUOUS" ELSE hash[k]

Promise == INSTANCE OneSend WITH
    Nothing <- None, Ambiguous <- "AMBIGUOUS",
    authority <- [k \in Kinds |-> AuthorityOf(k)],
    onChain <- broadcast,
    known <- [k \in Kinds |-> KnownOf(k)]

\* Whatever requests, tabs and faults interleave, each operation is sent at
\* most once, only under durable authority, and the run records only a hash the
\* wallet broadcast for it, or that it cannot know (README, Execution safety:
\* exactly one eth_sendTransaction invocation per approved step).
OneSendPromise == Promise!Spec

\* A durable intent excludes every other request from asking Brickken for the
\* same preparation (prepareNextOperation, reprepareOperation).
IntentIsExclusive ==
    Cardinality({r \in Requests : request[r].step \in {"askFirst", "askAgain"}}) <= 1

\* The run tells what became of the transaction, or that it cannot know.
Accounted == hash[Op] # None \/ stage[Op] = "BROADCAST_UNKNOWN"

\* Once the wallet was called, a page that stays open brings the run to an
\* account of the transaction, if nothing fails.  If the wallet answered with a
\* hash, that survives one crash, database failure or lost answer: the page falls
\* back from reporting the hash to reporting that the outcome is unknown
\* (executeSendAuthorizedEnvelopeFromUserAction).
SendIsAccountedFor ==
    /\ sent[Op] > 0 ~> Accounted \/ faults > 0 \/ closed
    /\ (\E t \in Tabs : tab[t].hash \in broadcast[Op]) ~> Accounted \/ faults > 1 \/ closed

\* handlers.ts, executeMandateHandler: "every external preparation remains
\* protected by its persisted intent CAS".  So one operation is never being
\* prepared by two requests at once.  The code does not keep this for
\* WHITELIST and MINT.
PreparationIsProtected ==
    Cardinality({r \in Requests : request[r].step \in Asking}) <= 1

\* v4-service.test.ts: "releaseSendAuthority with expired report marks
\* PREPARED_STALE".  A request that found the preparation stale leaves it marked
\* so.  The code does not keep this once the prompt is recorded.
StalePreparationIsMarked ==
    [][\A r \in Requests :
           (request[r].step \notin Ended /\ request'[r].step \in {"stale", "threw"})
               => stage'[Op] = "PREPARED_STALE"]_allVars

=============================================================================
