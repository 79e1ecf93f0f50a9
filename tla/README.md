# A TLA+ model of Edict

Edict takes a tokenization mandate (create a token, whitelist an investor, mint
the allocation), lets its owner approve a plan, asks the Brickken Sandbox API to
prepare each Ethereum transaction, lets the owner's browser wallet send it, and
verifies on Ethereum Sepolia that it had its effect. What makes this delicate is
one sentence of its README: "exactly one `eth_sendTransaction` invocation per
approved step", with a stateless server, several tabs, a wallet that may answer
late or never, and a chain that may reorganise.

This directory holds TLA+ modules of that system, the TLC configurations that
check them, and theorems about each of its five state machines (the row of a run, its
submission, its tracking, its approval and its page), whose proofs TLAPS checks.
Paths below are relative to `src/` of the repository, so `server/...` is
`src/server/...` there.

Contents

1. The system and its components
2. The modules
3. What the runs check, with which bounds
4. Fairness
5. What is proved
6. Where code and documentation disagree
7. What is not modelled
8. Plan

## 1. The system and its components

All durable state is one row per run (`execution_runs`): a snapshot of the run,
its event log, and a `revision`. There are no background jobs. Everything that
happens is an HTTP request: it reads the row, computes the next snapshot with a
pure function, and writes it back with a compare-and-swap on the revision.
External calls (Brickken, the RPC node) happen between a read and a write.

| Component | State | Operations | Talks to | What is hard | What makes it correct |
|---|---|---|---|---|---|
| Execution run state machine: `server/execution/{transitions,v4-transitions,types,run-service}.ts` | the snapshot: phase, status, outcome, and per operation stage, preparation attempts, wallet prompt, hash, RPC evidence, receipt, correlation | about forty pure transition functions | called by the orchestrators | the legal order of some thirty writes; status, outcome and stage are set by different functions | authority is given once, evidence never weakens, ambiguity is absorbing, verified means final |
| Codec: `server/persistence/codec.ts` | none | `parseSnapshot` on every encode and decode | repository | restates the rules of the transitions in another file | accepts whatever a transition writes |
| Persistence: `server/persistence/{store,repository}.ts` | the row | insert, select, compare-and-swap | every service | a write whose answer is lost | at most one writer per revision |
| V4 orchestrator: `server/orchestration/v4-service.ts` | none of its own | prepare, re-prepare, freshness, `releaseSendAuthority`, hash and unknown reports, `trackExecution`, `reconcileSubmittedRun`, read-backs | store, Brickken, RPC | several dependent writes per request, with network calls in between | a request only builds on what it wrote or read itself |
| Legacy orchestrator: `server/orchestration/service.ts` | none of its own | `prepareNextOperation`, `confirmBroadcast`, `pollOperation`, `verifyReadBack` | store, Brickken | a lost answer of Brickken after a durable intent | a preparation is not asked for twice |
| Run API: `server/run-api/handlers.ts` | none of its own | create, challenge, approve, prepare, promote, readiness, execute, authorize, hash, unknown, track, cancel, GET | browser, orchestrators | requests of several clients at once, retries | stale requests change nothing |
| Approval, tokens, run access: `server/security/*` | signed, expiring tokens; a session cookie | issue, verify | handlers, browser | expiry, clock skew, revision binding | an approval binds to one revision of one plan |
| RPC evaluation: `server/rpc/*` | none | freshness, comparison, receipt and finality | RPC node | several reads of a moving chain | what is recorded as final is final |
| Authorization policy: `server/orchestration/{fee-authorization-policy,tokenize-*,wallet-intent,write-gate}.ts` | none | pure checks | V4 orchestrator | integer bounds | an envelope never exceeds the approved one |
| Brickken adapter: `server/brickken/*` | none | prepare, send, status, read-back; classification of answers | Brickken | what an error says about work done | ambiguity is not taken for failure |
| Wallet session: `client/wallet/*` | account, chain, generation, one pending call | connect, approve, send once | wallet, gateways | late answers, switched accounts | one invocation per envelope; a known hash is reported |
| API gateways: `client/run-api/*` | none | one POST each, with a timeout | Run API | an answer lost or late | no retry of what is not idempotent |
| UI controllers: `components/approval/approval-controller.ts`, `components/run-planning*.ts*`, `components/wallet-execution-*` | flow state, polling timer | click, poll | gateways, wallet session | answers for an earlier run | stale answers are dropped; polling goes on while there is hope |
| Core domain: `core/*` | none | manifest, plan, canonical JSON, hashes | everything | order independence | equal mandates get equal plans |
| Tools: `tools/*` | none | operator commands | | | |

How they interact: a click in a tab is one `execute` request, which makes up to
four dependent writes (intent, preparation, prompt, release) and answers with an
envelope. The page calls `eth_sendTransaction` once, reports the hash, or
reports that the outcome is unknown. From then on the page polls GET; GET and
`/track` both walk `#reconcilePipeline`: transaction, receipt, correlation,
status, read-back. A verified TOKENIZE moves the run to WHITELIST, then MINT.

The hazards this leaves are listed one by one, at their lines, in
`PROJECT.json`, with the properties that watch them.

## 2. The modules

| Module | Extends | Stands for |
|---|---|---|
| `ExecutionRun` | | the row of one run and every write the server can commit to it |
| `ExecutionRunInv` | `ExecutionRun` | the inductive invariant |
| `ExecutionRunProofs` | `ExecutionRunInv`, `TLAPS` | theorems: what holds of every snapshot |
| `ExecutionRunStepProofs` | `ExecutionRunProofs` | theorems: what no write ever does |
| `Submission` | `ExecutionRun` | from "prepare" to a recorded hash: requests, tabs, wallet, faults |
| `SubmissionInv` | `Submission`, `ExecutionRunInv` | its inductive invariant, relative to that of the run |
| `SubmissionProofs` | `SubmissionInv`, `ExecutionRunStepProofs` | theorems, among them that `Submission` implements `OneSend` |
| `OneSend` | | what Edict promises about the transaction of an operation, seen from outside |
| `ReadBackVerdict` | | what a read-back concludes from the calls it makes |
| `Tracking` | `ExecutionRun`, `ReadBackVerdict` | from a recorded hash to a verified operation: polls, a moving chain, Brickken, faults |
| `TrackingInv` | `Tracking`, `ExecutionRunInv` | its inductive invariant, relative to that of the run |
| `TrackingProofs` | `TrackingInv`, `ExecutionRunStepProofs` | theorems |
| `Approval` | | approving the plan: handlers, cookie, challenge, wallet, `approveRunFromUserAction` |
| `ApprovalPage` | `Approval` | what the user sees of it: the approval section, and the approval controller |
| `ApprovalInv` | `ApprovalPage` | the inductive invariant of approval |
| `ApprovalProofs` | `ApprovalInv`, `TLAPS` | theorems |
| `SendPolicy` | | what a transaction must be like to be sent: fees, protocol, semantics |
| `Brickken` | `SendPolicy` | what the server makes of Brickken's answers |
| `ChainReads` | `Brickken` | what it concludes from a node: freshness, preflight, comparison, receipt binding |
| `PublicRun` | `ChainReads` | the run as it is projected, and as the page reads it and words its errors |
| `RunPage` | `ExecutionRun`, instance of `PublicRun` | one page and the server behind it, from the first preparation to the verified token |
| `RunPageInv` | `RunPage` | the inductive invariants of the page |
| `RunPageProofs` | `RunPageInv`, `ExecutionRunProofs` | theorems: what is shown, sent and said |
| `RunPageSendProofs` | `RunPageProofs` | theorems: what a mined transaction can have cost, and what takes the view back |
| `RunPageOfferProofs` | `RunPageSendProofs` | theorems: what is offered is accepted, and the form of every variable |
| `MC*` | one of the above | symmetry and the values of constants |

`ExecutionRun` is the common base: every write of `Submission`, `Tracking` and `RunPage`
is one of its actions, conjoined with what the writer and the other participants
remember. So `ExecutionRun` over-approximates all three, and its invariants, proved for
all constants, hold in them too. That is itself a theorem of each (`SubmissionRuns`,
`TrackingRuns`, `PageRuns`).
The three look at the same writes from different sides: `Submission` at several tabs and
requests, `Tracking` at a chain that moves, `RunPage` at what is in an answer, a reading
or a transaction and what the user is told. `Approval` comes before all of them.
`SendPolicy` to `PublicRun` and `ReadBackVerdict` have no state: they are the pure
functions of the code, evaluated by the actions of the modules that use them.

### ExecutionRun

A committed write is atomic, because a request that lost the race writes
nothing. One action is therefore one committed write: its guard is the guard of
the service method (`v4-service.ts`, `service.ts`) and of the transition
function it calls (`v4-transitions.ts`, `transitions.ts`), its effect is the
snapshot that function returns.

- Per-run fields are variables of the same name (`outcome` is `terminalOutcome`,
  `eligible` is `receiptEligible`). Per-operation fields are functions of the kind
  of operation.
- `attempts[k]` is `preparationAttempts`, reduced to the state of each attempt; the
  last one is active. `released`, `reserved` and `refused` are what the code reads
  off its event log: releases of authority, reservations of the tracking budget,
  and whether an event that ends correlation is there.
- Evidence keeps the verdicts later code reads: the four outcomes of the
  comparison with the approved transaction, and execution, identity, finality and
  block of a receipt. `identityStatus` and `reconciliationStatus` always agree
  (codec and `finality.ts`), so one field stands for both.
- A poll checks the run once, when it enters, and then makes its writes one after
  another, each guarded by what that step reads. `pollStep` remembers which step
  the last write came from; `PollStep` lets the next write come either from a poll
  that enters on the current snapshot or from that same poll, which no longer
  checks what entering polls check. `Tracking` has the polls themselves, and its
  `EntryGuardSuffices` shows that this abstraction loses no behaviour.
- Freshness of the nonce and of the price report, wording of errors, addresses
  and calldata are left out here.

### Submission and OneSend

`Submission` adds requests with their steps, tabs, a wallet, and faults. What a
request remembers of the row is whether it is still the row it read (`fresh`): all
its later reads insist on the expected revision. `Write` is the compare-and-swap;
it makes every other request and every envelope stale, and a stale request can
only `Conflict`. `stale` is the only fact of the chain a preparation depends on
(the signer's nonce moved, or the price report expired); the user may confirm in
the wallet at any time after the call, whether or not the page still waits.
`PredecessorAssumption` says that there is a hash for the operation that came before.

- Steps of a request: `prepareNextOperation` (intent, then Brickken, then result),
  `reprepareOperation` likewise, `prepareOperation` of WHITELIST and MINT (Brickken
  first, no intent), promotion, freshness, the two writes of
  `releaseSendAuthority`, cancel, and the two reports.
- Steps of a tab: `executeSendAuthorizedEnvelopeFromUserAction` and
  `sendTransactionOnce`, from the click to the last report, with the fallback from
  reporting a hash to reporting an unknown outcome.
- Faults (`Fail`): the process dies, the database does not answer (committed or
  not), an answer is lost. Timeouts of the page (`GiveUp`) and closed tabs
  (`Close`) are free.
- The initial states are the two points from which an operation is prepared: after
  approval (TOKENIZE, schema 2.0), and after TOKENIZE was verified (WHITELIST,
  schema 4.0). MINT takes the code path of WHITELIST.

`OneSend` is the abstract specification: for each operation the authority is
withheld, granted, then spent; at most one hash is broadcast, only after it was
spent; and the run says nothing, a hash that was broadcast, or, for good, that it
does not know. `Submission` implements it under the mapping `Promise`.

### Tracking

Polls run concurrently; each is at a step of the pipeline and is made stale by
the write of another (`Overtake`). `evaluateReceiptAndFinality` is three RPC reads
(receipt, block of that number, finalized head), and the chain may move between
them. `truth` is fixed at the start: which operation it is, how the transaction compares
with the approved one, what it does in each block that may include it (it has the
approved effect, succeeds without it, or is reverted), and what Brickken has on record
of the token. It is what the verdict of the run is measured against. `Lagging` is a node
behind the others or a failed read the code takes for an answer; `Die` a crash or an
unreachable service. Initial states have the hash of the tracked operation recorded and
its predecessors verified; only a run of the full scope tracks more than TOKENIZE.
`ChainAssumption` says that there are hashes and blocks to choose from.

The last step reads the effect back. A reading gives each call an answer (`GOOD`, `BAD`,
`FAILED`); `Honest` readings are those of nodes that answer, `Garbled` ones have one
failure; `ReadBackVerdict` turns a reading and Brickken's answer into verified, mismatch
or retry, check by check in the order of the code, and `Conclude` writes what follows.

### Approval and ApprovalPage

The run is reduced to the point of its life it has reached (`RunStates`, in the order of
revisions), because a challenge and a compare-and-swap only ask whether it is still the
same. `ServeRun`, `ServeChallenge`, `ServeApproval` are the handlers; `posts` are approval
requests the server has not handled, whether or not a page still waits (`awaited`).
`attempt` is `approveRunFromUserAction` (or the refresh) with the step it waits at; wallet
events set `intact` to FALSE, which is the generation counter of the session. The MAC of
the challenge token is taken to work.

`ApprovalPage` has both implementations of the page: `ActiveReadiness`, which the pages
mount, and `createApprovalReadinessController`, which also discovers wallets, selects a
provider and inspects it. `surface` says which of them a behaviour runs (one of
`Surfaces`, which `SurfaceAssumption` keeps to these two). Serial numbers of
the controller are modelled by forgetting an operation nobody waits for any more (`Drop`).

### RunPage and what it evaluates

`RunPage` is one mounted `WalletExecutionSection` with the planning controller around it.
Variables of the server: the row of `ExecutionRun`, its revision `rev`, the error and the
transaction of the active preparation. `ledger` is no variable of the code: it counts,
over the whole run, the transactions Brickken made and the requests that were interrupted,
and nothing resets it.
Variables of the page: `request` (up to four at once, and one the page has given up),
`view` (the projection on display), the reducer's `model`, the error `detail`, and what
the click is doing. A request carries the revision it expects; it writes and goes on only
from there (`Knows`), anything else is a `Conflict`.

- `AskBrickken` to `ReleaseEnvelope` are the steps of `prepareNextOperationHandler` and
  `executeMandateHandler` between two writes; each evaluates `Brickken`, `SendPolicy` or
  `ChainReads` over one answer or reading out of the set a constant gives.
- Brickken acts when it is asked (`BrickkenActs`): it makes a transaction or it does not,
  and which answers may follow depends on that (`BrickkenMade`). A refusal, whether its
  body can be read or not, says that nothing was made; an answer with a transaction says
  that one was; a redirect, an error of the server, an answer cut short and none at all
  leave it open. A preparation goes through the SDK, which classifies an error by class
  and status (`ErrorCode`); a direct request is refused before its status is looked at
  when it declares JSON that does not parse, or is too long (`Unusable`).
- An interrupted preparation leaves the operation at `NOT_STARTED`, and the server would
  prepare it again (`preparation-resilience.test.ts`). The page has no answer that
  names the revision, so `AskElsewhere` stands for whoever knows it.
- `Poll` is what a GET or track request concludes while it is at the server.
- `TakeRun`, `TakeTracked`, `Merges`: which answers replace the view. The code compares
  with the view of when it asked (`pullLatest`, `act`) or of now (`applyDurableRun`), and
  so does the model.
- `ClickPrepare` to `TakeUnknownReported`: the button and
  `executeSendAuthorizedEnvelopeFromUserAction`, with the code each failure becomes
  (`GatewayCode`, `BoundaryCode`) and what the page then says and offers (`Detail`,
  `ModelAfter`, `Locked`).

A transaction is a record of the fields some check reads; calldata is one of three values
(the approved call, the same function with other arguments, another function). Amounts
are small integers in units of one's choice; the factors of the fee policy are the code's.

## 3. What the runs check, with which bounds

| Run | Module, configuration | Properties | Shows |
|---|---|---|---|
| `token` | `MCExecutionRun`, `MCExecutionRunToken.cfg` | `TypeOK`, `CodecAccepts`, `SingleAuthority`, `VerifiedMeansFinal`, `BlockedRunIsInert`, `EvidenceIsDurable`, `AmbiguityFailsClosed` | one TOKENIZE_ONLY run in full detail |
| `full` | `MCExecutionRun`, `MCExecutionRunFull.cfg` | `IInv`, `BlockedInv`, `ChainOfVerification`, `SuccessMeansVerified` | all three operations in sequence; the invariants of the proofs hold |
| `submission` | `MCSubmission`, `MCSubmission.cfg` | `IntentIsExclusive`, `OneSendPromise`, `SubmissionInv` | two requests, two tabs, one fault: at most one send, and the run never reports a hash that was not broadcast |
| `reporting` | `MCSubmission`, `MCSubmissionProgress.cfg` | `SendIsAccountedFor` | once the wallet was called, the run learns what came of it, or that it cannot |
| `tracking` | `MCTracking`, `MCTracking.cfg` | `VerifiedIsTrue`, `SoundIsNotGivenUp`, `EntryGuardSuffices`, `TrackInv`, `TrackingConcludes` | two polls, one reorganisation, one fault: verified means true on chain, a sound operation is not given up without a reason, and tracking ends |
| `approval` | `MCApproval`, `MCApproval.cfg` | `ApprovalIsSigned`, `RecordedIsTrue`, `NotRecordedIsTrue`, `ReadyIsCurrent`, `InProgressIsTrue`, `DeadEndOnlyIfChanged`, `ApprovalInv`, `ApprovalSettles` | what is approved was signed by the designated account, what the page says of it is true, every attempt ends |
| `page` | `MCRunPage`, `MCRunPage.cfg` | `PageTypeOK`, `OfferIsAccepted`, `AccountsForBrickken`, `ReviewedIsSent`, `ReleasedIsMandate`, `WithinMeansBounded`, `NoSubmissionIsTrue`, `ViewGoesBackOnlyByOldRead`, `PageInv`, `SendInv` | what the page offers is accepted, what it says is true, and what reaches the wallet was reviewed and authorized |
| `contradiction`, `unprotected_preparation`, `stale_prompt`, `transient_read`, `projection` | | one each | the disagreements of section 6 |

Properties in words are in the modules. Those that carry most:

- `SingleAuthority`: over all its preparations an operation is given send authority
  at most once; no hash or evidence exists without it.
- `OneSendPromise`: the same promise measured at the wallet and the chain instead of
  the row, with everything interleaved.
- `BlockedRunIsInert`, `AmbiguityFailsClosed`, `EvidenceIsDurable`: what no write may
  ever do.
- `VerifiedIsTrue`: what the run says is verified is true of the chain.
  `SoundIsNotGivenUp` is its converse: an operation that is final and had its effect ends
  as failed only after a failed read or a contradiction by Brickken (or, at MINT, by an
  older token of the same symbol).
- `NotRecordedIsTrue`, `NoSubmissionIsTrue`: a page that tells the user nothing happened
  is right, whatever was lost on the way.
- `OfferIsAccepted`: projection, section and handlers read one state machine three times
  and agree.
- `ReviewedIsSent`: between the click and the wallet lie five writes; what is sent is what
  was on the screen.
- `AccountsForBrickken`: over all requests of a run, what Brickken made is what the row
  recorded as prepared, perhaps the one it leaves in doubt, and perhaps one for each
  interrupted request; a refusal that proves nothing ends no run as refused.
- `WithinMeansBounded`: what is concluded from a mined transaction is so, however the
  wallet changed the fees.

Every property has a mutant: a definition of the model changed the way a bug in
the code would change it (definitions whose name contains `Fault`, used nowhere
else), under which TLC finds that property violated.

Bounds, and why they are enough:

- `MaxPreparations = 2` is the code's value. `MaxCorrelations = 3` is the code's value
  in `token`; 1 or 2 elsewhere, which still exhausts the budget.
- `TrackBudget` is 30 in the code; 1 or 2 here. Only "left" and "none left" differ.
- `Hashes`: two, so that a second hash could be recorded over the first or another
  operation's hash be reported; one where a hash cannot be told apart anyway.
  `Blocks`: two, an inclusion and another one (where receipts are compared).
  `StatusTexts`: two, so that a change of text is written.
- `Requests = 2`, `Tabs = 2`: races here are between a writer and one overtaken
  participant; all others are like the overtaken one. `reporting` takes one tab,
  because its property is about the page that made the call. `Pollers = 2` likewise.
- `MaxFaults = 1`: enough to lose any one step of a request or report;
  `SendIsAccountedFor` says what one fault may cost. `MaxReorgs = 1`: an inclusion that
  is undone, between any two reads.
- `Hashes`, `Blocks` and the participants are symmetric where no liveness is checked.
  In `tracking` blocks are told apart (`truth` gives each its own result), so no
  symmetry is used.
- `Truths` of `tracking`: the inclusion that has the effect and moves to a block where it
  reverts, and the one that gains its effect by moving; each comparison with the approved
  transaction for TOKENIZE, and the approved one for WHITELIST and MINT, which differ only
  at the read-back. Brickken's record is read of an approved transaction only. That it
  agrees and that it does not answer lead to the same verdicts, so `AGREES` is left to
  `transient_read`.
- `approval`: one announced provider beside the legacy one, since the controller keeps one
  session; `MaxPosts` is 2 for the section (an approval given up may reach the server
  during the next), 1 for the controller, whose size lies in its wallet operations.
  Challenges are not counted: only whether the last one expired.
- `page`: every answer, reading, chain and transaction differs from the good one in one
  respect, because each check looks at one; combinations only repeat an earlier refusal.
  The prepared transaction costs 12 of at most 20 units, so that the wallet can stay
  within, use up and exceed the envelope, by each fee and by their product; three wallets
  do. `MaxCorrelations = 2` (one retry), `MaxPreparations = 2` (the code's),
  `TrackBudget = 1` (the second poll is a GET). `MaxExtras = 1`: one crash, one request
  given up, one manual request at any moment or one interrupted preparation asked again
  from elsewhere (while the page has not given up a request). One block and one hash, because
  reorganisations and foreign hashes belong to `Tracking` and `Submission`; receipts agree
  and succeed.
- Two bounds of `page` are in guards: what the user asked for besides, and what the page
  gave up, ends before a hash is recorded (`IngestReport`); after a hash the user asks
  manually only while a tracking answer is on its way back, which is the moment at which
  two answers can overtake each other (`AskManually`). While a manual request is out, the
  timer waits.
- `CHECK_DEADLOCK FALSE` in the runs of `ExecutionRun`, `Tracking`, `ApprovalPage` and
  `RunPage`: a cancelled, failed or succeeded run takes no further write, and a page shows
  it and offers nothing. `Submission` has no such state, because requests can always
  arrive.

The largest runs are `page`, with about 1.5 million states, and `tracking`, with about
670 000; each takes about two minutes with two workers.

## 4. Fairness

`Submission`: weak fairness of `Handle` (the server goes on with a request it has),
`Deliver` (it answers) and `Browse` (an open page goes on once the user clicked, and
the wallet call ends: `sendTransactionOnce` has a timeout). A page posts a report
as soon as it has one; in the model it needs one of finitely many idle requests,
which the real server always has, hence strong fairness of `PostHash` and
`PostUnknown`. Nobody is assumed to click, to confirm, or to keep the page open:
`closed` and `faults` appear in the property instead.

`Tracking`: weak fairness of `Poll(p)` (a request under way goes on), of some poll
entering (`wallet-execution-section.tsx` polls GET as long as the page is open and
the run is unsettled), and of the chain including and finalizing the transaction.
No fairness of reorganisations, lagging nodes or crashes.

`ApprovalPage`: weak fairness of what the page does by itself. `Browser` takes an answer
or lets the fifteen seconds of a request pass (`approval-gateway.ts`), the inspection and
the prompt of the wallet end by their deadlines (`session.ts`, `approval.ts`), and a
finished attempt is shown. The server, the wallet, the network and the user need never
do anything.

`ExecutionRun` and `RunPage` have none: they state safety only. The planning
controller's GET has no timeout, so nothing could be promised of a click that waits for it.

## 5. What is proved

For every value of the constants: every scope, every set of hashes, blocks and status
texts, every number of requests, tabs and polls, every set of providers, every budget,
and any number of faults and reorganisations. Each theorem but `PageRuns` states
a property some run checks on a small instance.

`ExecutionRunProofs` and `ExecutionRunStepProofs`, of the row of a run:

| Theorem | Statement | Property of run |
|---|---|---|
| `Invariant` | `Spec => []IInv` | `full` |
| `TypeCorrect` | `Spec => []TypeOK` | `token` |
| `CodecAlwaysAccepts` | `Spec => []CodecAccepts` | `token` |
| `AtMostOneAuthority` | `Spec => []SingleAuthority` | `token` |
| `VerifiedIsFinal` | `Spec => []VerifiedMeansFinal` | `token` |
| `VerifiedInOrder` | `Spec => []ChainOfVerification` | `full` |
| `SuccessIsVerified` | `Spec => []SuccessMeansVerified` | `full` |
| `BlockedInvariant` | `Spec => []BlockedInv` | `full` |
| `BlockedStaysInert` | `Spec => BlockedRunIsInert` | `token` |
| `EvidenceStays` | `Spec => EvidenceIsDurable` | `token` |
| `AmbiguityIsFinal` | `Spec => AmbiguityFailsClosed` | `token` |

`SubmissionProofs`:

| Theorem | Statement | Property of run |
|---|---|---|
| `SubmissionRuns` | `SubmissionSpec => [](RunInv /\ SubmissionInv) /\ [][Next]_vars` | `submission` |
| `IntentExclusive` | `SubmissionSpec => []IntentIsExclusive` | `submission` |
| `OneSendKept` | `SubmissionSpec => OneSendPromise`: `Submission` implements `OneSend` | `submission` |

`TrackingProofs`:

| Theorem | Statement | Property of run |
|---|---|---|
| `TrackingRuns` | `TrackingSpec => [](RunInv /\ TrackInv) /\ [][Next]_vars` | `tracking` |
| `VerifiedOnChain` | `TrackingSpec => []VerifiedIsTrue` | `tracking` |
| `EntrySuffices` | `TrackingSpec => []EntryGuardSuffices` | `tracking` |
| `SoundSurvives` | `TrackingSpec => []SoundIsNotGivenUp` | `tracking` |

`ApprovalProofs`:

| Theorem | Statement | Property of run |
|---|---|---|
| `ApprovalInvariant` | `ApprovalSpec => []ApprovalInv` | `approval` |
| `ApprovalSigned` | `ApprovalSpec => []ApprovalIsSigned` | `approval` |
| `RecordedShown` | `ApprovalSpec => []RecordedIsTrue` | `approval` |
| `NotRecordedShown` | `ApprovalSpec => []NotRecordedIsTrue` | `approval` |
| `ReadyCurrent` | `ApprovalSpec => []ReadyIsCurrent` | `approval` |
| `InProgressShown` | `ApprovalSpec => []InProgressIsTrue` | `approval` |
| `NoDeadEnd` | `ApprovalSpec => []DeadEndOnlyIfChanged` | `approval` |

`RunPageProofs`, `RunPageSendProofs` and `RunPageOfferProofs`, besides for every fee
policy, every set of answers, readings, chains and logs, every wallet and every number of
extra requests and crashes:

| Theorem | Statement | Property of run |
|---|---|---|
| `PageRuns` | `PageSpec => [][Next]_vars`: every step of page and server is a step of the run or leaves it alone | |
| `PageHonest` | `PageSpec => []PageInv` | `page` |
| `SeenIsSent` | `PageSpec => []ReviewedIsSent` | `page` |
| `OnlyTheMandate` | `PageSpec => []ReleasedIsMandate` | `page` |
| `SaysTheTruth` | `PageSpec => []NoSubmissionIsTrue` | `page` |
| `RunAccounts` | `PageSpec => []AccountsForBrickken` | `page` |
| `SendInvariant` | `PageSpec => []SendInv` | `page` |
| `CostIsBounded` | `PageSpec => []WithinMeansBounded` | `page` |
| `OnlyReadsGoBack` | `PageSpec => ViewGoesBackOnlyByOldRead` | `page` |
| `OfferAccepted` | `PageSpec => []OfferIsAccepted` | `page` |
| `PageTypeCorrect` | `PageSpec => []PageTypeOK` | `page` |

Assumptions: `ScopeAssumption`, `BudgetAssumption` (two positive budgets and a
natural one) and `NoneAssumption` (null is not a value); for submission
`PredecessorAssumption`; for tracking `ChainAssumption` and `TruthsAssumption` (what is
true of a transaction is one of the cases the code tells apart); for approval its own
`NoneAssumption`, and `SurfaceAssumption`; for the page `PolicyAssumption` (ceilings are
natural numbers), `AnswerAssumption` (an answer came or did not in one of two ways),
`TextAssumption` (Brickken's texts are status texts), `AmountAssumption` (what is prepared
or reported as mined states its amounts, as `parsePreparedOperation` and the node's answer
do) and `CountAssumption` (a second preparation is allowed, which `projection.ts` takes for
granted when it offers one: code and model have 2). TLC evaluates them in every run of
their modules.

### The run

None of its properties is inductive alone. `CodecAccepts`, for one,
speaks of the stage of an operation, while the write that follows looks at its
prompt; and a status recomputed from the fee verdict alone keeps it only because
the verdict is in step with the stage. `IInv` adds, as named parts, what the stage
says about attempts and prompt (`WalletShape`), about hash and evidence
(`ChainShape`) and about correlation (`CorrelationShape`); what the phase says about
the other operations, which are verified or untouched (`PhaseShape`); what little a
run of schema 2.0 can contain (`SchemaShape`); and that the token identity is the
hash of the verified TOKENIZE (`TokenShape`). Most actions change one operation: a
lemma about such a step reduces the parts that speak of all of them to the changed
one, and a lemma per group of actions proves those. The theorems then follow from
`IInv` without induction, but for `SuccessIsVerified`: a poll goes on after the run was
given up, so that success needs the outcome to be in step with status and stages
(`SuccessInv`), which is proved over `IInv` as an invariant of its own.

The properties of steps need a third part, `BlockedInv`: what an ended run left its
operations in (`EndedShape`), what an operation still worked on allows (`WorkShape`), and
that a run with an ambiguous submission waits for a person (`AmbiguityShape`). It is needed
because a poll that entered before the run ended goes on writing: the guards of its writes
do not say that the run is open. `Safe(k)` says what such a write leaves alone; that every
action is `Safe` for some operation is shown group by group, together with `BlockedInv`
afterwards, and the three theorems are read off it. `RunInv` is all three parts.

### Submission

`SubmissionInv` treats what circulates outside of the row as tokens. One who holds an
envelope, in an answer or in a tab, is the only one, and then authority was given and
nothing was sent or reported (`EnvelopeIsOne`); who reports anything does so after the
authority was given (`ReportsAreDue`); a hash under way was broadcast
(`HashIsBroadcast`); and a request that asks Brickken under an intent has that intent in
the row, alone (`IntentIsHeld`). These hold although a snapshot may be overwritten at any
time, because authority is released once per operation (`SingleAuthority`) and an
operation under an intent admits no other write but a cancellation. `OneSendKept` is the
refinement: `Promise` maps the initial states to those of `OneSend`, and each step
to one of its steps or to a stutter. What the mapped steps need (no wallet call without
unspent authority, no hash that was not broadcast, a statement that never changes) is
`SubmissionInv` before the step and `Safe` of the run's step.

### Tracking

A poll decides by what it read before its last await, so its invariant is about what
cannot change any more. A poll that may write entered on this row or wrote it
(`MayWrite`), and never repeats an earlier step (`PollOK`). A receipt is recorded as final
only if the chain is final, and a final chain does not move (`FinalityIsFinal`); the
comparison on record is that of the transaction (`ComparedTruly`); a read-back fails only
on a final receipt (`GivenUpIsFinal`). With them the read-back, whose verdict
(`ReadBackVerdict`) is shown case by case to agree with the truth for an honest reading,
gives `VerifiedIsTrue` and `SoundIsNotGivenUp`. For the latter, `Blocked` and a final
receipt are stable by the theorems of the run.

### Approval

Answers arrive late, and for an attempt the page may have given up. They stay true since
the run only moves on and an approved one is never cancelled back: whatever was read of it
is `Past`. One submission at most is awaited, and only while the attempt waits at
`submit` without an answer (`OneAwaited`); so when the page's own approval was recorded
(`OwnProof`), what follows is an answer that says so, a reconciliation that reads an
approved run, or nothing, and the attempt can end in three ways only (`OwnAttempt`). The
status then remembers it: it is one of those that lock the page, until the page is
closed (`OwnStatus`). The protocol's part of the invariant is shown action by action; of a
protocol step the page's part only needs to know a handful of effects (`ProtocolMoves`).

### The page

`PageRuns` goes through the actions of `RunPage` and names the
action of `ExecutionRun` each contains; `IInv` then holds of the page without another
induction. What was reviewed and what is sent are five writes apart, with other requests
free to write in between, and what ties them together is the revision: whoever still has
the current revision has seen the current transaction. `PageInv` says so of every
projection on its way or on the screen (`Honest`: if of this revision, it is the projection
of this row), of the request to execute at each of
its steps (`ExecuteKnows`), and of what the click holds and the wallet was asked
(`ActionOK`, `AskedOK`); the checks between are what makes that transaction the mandate.
`DetailOK` adds that a click that goes on has said nothing yet.

`RunAccounts` counts over the whole run. Its invariant `LedgerInv` adds what holds while a
request is out: without what that request made, the counts already agree. Asking then moves
a stale preparation from the one that stands to the superseded ones and leaves what is
recorded the same (`CountsAsked`); the answer adds one recorded, one interrupted, or a
doubt, or is a refusal, and then `RefusedOrMade` says that the request made nothing
(`CountsAnswered`). That every other step leaves the counts alone is `PreparationStands`,
which goes through the writes of the run. What it promises of a run that ends as refused is
that its last request made nothing; its superseded preparations, and what interrupted
requests may have made, stay at Brickken. The row names the former; of an interruption it
keeps no trace once a later answer overwrites the error.

`SendInv` is about what happens after the release. The comparison of the mined transaction
reads the preparation and the hash of the row long after the preflight that bounded the
cost, with a wallet, a report that may be lost and a click that may be given up in
between. What holds across them is that a released preparation never changes (`TxOK`),
that its envelope is on its way to one click, or held by it, only while nothing was sent
and no hash is known (`EnvelopeOK`, which needs `SingleAuthority` of the run), and that a
hash is reported or recorded only of what the wallet made of that preparation (`MinedOK`).
Few steps touch any of this; the proof first shows that all others are quiet
(`RowQuiet`, `RequestQuiet`) and then takes those few. `CostIsBounded` adds the
arithmetic of the caps (`ComparedIsBounded`): `FeeCompliant` bounds gas times price by the
cap on the network cost, and `Attemptable` bounds that cap by the ceiling.

`OfferAccepted` compares three readings of one row. By `Honest` a view of the current
revision is the projection of the current row, so the projection's conditions are
conditions on the row; what they leave open is the status, which follows from the stage
while the run has no outcome (`OfferInv`). `PageTypeCorrect` is read off `FormInv`: every
revision that a view, a request, an envelope or a click holds is one the row has had. The
forms in which a request is made or goes on (`Send`, `Answered`, `GoOn`) are treated once
each, for all the actions that use them. `OnlyReadsGoBack` needs only that answers are
honest.

### Only model-checked

Liveness (`TrackingConcludes`, `ApprovalSettles`, `SendIsAccountedFor`), which is beyond
the prover. Every safety property that a passing run checks is stated by a theorem. The
properties of the violated runs are false, and so not theorems.

## 6. Where code and documentation disagree

Each is a run that ends in a violation; `PROJECT.json` has lines and quotes.

- `contradiction`: the README says "Genuine data contradictions fail closed". A poll
  that records a receipt contradicting the canonical chain (RECONCILIATION_REQUIRED)
  goes on to correlate in the same poll, which sets CONFIRMING again. Verification
  still needs a final, matching receipt, so `VerifiedMeansFinal` holds.
- `unprotected_preparation`: `handlers.ts` says every external preparation is
  protected by its persisted intent. `prepareOperation` for WHITELIST and MINT writes
  none, so two requests can both have Brickken prepare the operation. One loses its
  compare-and-swap: `OneSendPromise` holds.
- `stale_prompt`: a test title says an expired price report marks the preparation
  stale. If the prompt is already recorded, the mark requires two clock readings
  to be equal, and otherwise throws; the run keeps a stale prompt that no route
  ends. The model has both outcomes (`MarkStalePrompt`, `ThrowOnStalePrompt`).
- `transient_read`: comments say a transient failure of a read is retried by the next
  poll. Failing calls for decimals, role or balance are recorded as a mismatch, which
  ends the run.
- `projection`: a test title says an interrupted preparation "can reprepare", and the page
  has a text that offers it. The interrupted run keeps the error of its preparation, and
  the public DTO refuses an error with a run that is ready: every read of it answers 503.

Two exceptions are stated in properties instead. `TrackingConcludes` excludes the
transaction that a reorganisation moved to another block after its first inclusion was
recorded (`Displaced`), because every later poll throws at the receipt.
`SoundIsNotGivenUp` excludes MINT when Brickken still has an older token of the same
symbol on record: `recordLifecycleReadBack` takes its address for a contradiction and ends
the run, although the same record is overlooked, with a comment saying why, at TOKENIZE.

Observed while modelling, each in the model unless said otherwise, without a run of its
own:

- README, "Brickken-prepared transaction validation", names destination, selector and
  calldata. That is `SendPolicy`, for TOKENIZE. For WHITELIST and MINT
  `#evaluateLifecycleAuth` checks signer, destination, value and the form of the selector,
  and commits to the calldata without decoding it; their effect is established by the
  read-back (`VerifiedIsTrue`). WHITELIST reads Brickken's answer but not `isWhitelisted`.
- The page shows `BRICKKEN_CORRELATED` as finality ("Irreversible consensus depth
  reached") and `RPC_TRANSACTION_VERIFIED` as inclusion; correlation needs no receipt, and
  the transaction may be unmined.
- After a recorded hash whose refresh was lost the button can be clicked again (`Locked`);
  the 409 of that click says "No transaction was submitted", which is true of that click.
- `#validateProtocol` turns a node that does not answer into
  AUTHORIZATION_POLICY_REFUSED, which locks the page, and into PREPARE_UNKNOWN after a
  second preparation.
- The second preflight of `releaseSendAuthority` marks a preparation stale by the
  evaluation and not by the detail (`ReleaseEnvelope`).
- Handlers answer EXECUTION_AUTHORIZATION_UNAVAILABLE with 404 where the gateway expects
  403 (not in the model: execution is enabled).
- The copy for FRESHNESS_CHECK_FAILED names the price report also when the balance, the
  base fee or the node was the reason (wording only).
- An envelope whose answer is lost leaves the prompt INVOKED_OR_UNKNOWN although no wallet
  was asked; a prompt recorded and never released is offered as a preparation, which the
  server refuses (exempt from `OfferIsAccepted`).
- `pullLatest` and `act("refresh")` compare with the view of before their await, so a late
  older answer can replace a newer view (`ViewGoesBackOnlyByOldRead` allows just this).
- DURABLE_REFRESH_REQUIRED and an error with `retryAllowed = false` outlive the refresh
  they ask for, until the section is mounted again (`Remount`); the same holds of a wallet
  that cannot sign (`DeadEndOnlyIfChanged`), and of a provider that collides during an
  approval of the controller (`InProgressIsTrue`).
- A failed read of the base fee counts as zero, so that a type 0 transaction may be judged
  a policy violation (`Tip`).
- A prepared transaction whose fees contradict each other is recorded, but its review
  throws: a second way to a run that cannot be shown. It is one of the answers of `page`
  (`Contradictory`); what the page was told before stays true.

## 7. What is not modelled

- `confirmBroadcast`, `pollOperation` and `verifyReadBack` of the legacy orchestrator, and
  the methods of the run service behind them: no route of the API calls them, and schema
  1.0 and 3.0 runs are only read.
- `recordWalletRejected` and `recordBroadcastUnknown` of the V4 service as requests: no
  route reaches them (the page reports through `recordBrowserBroadcastUnknown`). Their
  writes are actions of `ExecutionRun`.
- The pages of WHITELIST and MINT: their writes are in `ExecutionRun`, their requests in
  `Submission` and their tracking in `Tracking`; what an answer holds, what the page shows
  and what the policy decides (`RunPage`, `SendPolicy`) is modelled for TOKENIZE.
- What the codec demands of the format of fields; `CodecAccepts` is what it demands of
  their combination.
- ABI encoding, canonical JSON, hashing, MACs, schema parsing and byte limits:
  character-level data no property tells apart. That a run, its manifest, plan and
  approval belong together is bound by hashes no step changes.
- `core/*`: pure functions from a manifest to a plan.
- The confirmation counter of the execution section, which reads the browser wallet and
  changes nothing; sections no page mounts (`execution-review-section`, `act("prepare")`);
  the form of a new run, rendering, delays between polls.
- Retries inside one RPC call (`rpc/client.ts`, `http-transport.ts`): a call ends in an
  answer or in none.
- The operator tools, which read and report.
- Liveness of the wallet's failure report: if the only report of a failed wallet call
  is lost, the run keeps an invoked prompt for good. `SendIsAccountedFor` excludes it.

## 8. Plan

Modelled, in this order: the row and its writes (`ExecutionRun`), the submission with
`OneSend` as its abstract specification, tracking measured against the chain, approval,
the pure policies and classifications, the page over all of them. Proved: every safety
invariant and action property the passing runs check, and the refinement of `OneSend`.
What is left, most important first:

1. The page of WHITELIST and MINT, whose policy differs from that of TOKENIZE
   (`#evaluateLifecycleAuth`). The theorems about the page then need `IInv` of all three
   operations, which is proved.
2. `RunPage` against `Submission`: both are tied to `ExecutionRun`, but not to each other.
