------------------------------ MODULE Tracking ------------------------------
(***************************************************************************)
(* From a recorded hash to a verified operation: several polls at once,    *)
(* each walking through #reconcilePipeline, an RPC node that answers from  *)
(* a chain which may still reorganise, and Brickken.                       *)
(*                                                                         *)
(* POST /track and GET both start a poll.  A poll reads the row once; each *)
(* of its steps reads it again and insists on the revision it knows.  A    *)
(* write of one poll therefore makes every other poll "stale": it can no   *)
(* longer write, and conflicts at its next step.  Every write below is an  *)
(* action of ExecutionRun.  An evaluation of the receipt is three RPC      *)
(* reads: the receipt, the block of that number, the finalized head.  The  *)
(* chain may move between any two of them.                                 *)
(***************************************************************************)
EXTENDS ExecutionRun, ReadBackVerdict

CONSTANTS
    Pollers,     \* requests that poll at the same time
    Truths,      \* what the tracked transaction may be
    MaxReorgs,   \* inclusions that are undone
    MaxFaults    \* polls that die, reads that fail, answers of a lagging node

VARIABLES
    poll,        \* what each poll is doing
    chain,       \* the canonical block that includes the transaction, or None
    final,       \* the finalized head has passed that block
    reorgs,
    faults,
    truth        \* what the transaction really is, fixed once

runState == vars
worldVars == <<chain, final, reorgs, truth>>
trackVars == <<runState, poll, worldVars, faults>>

\* operation: whose transaction it is; identity: how it compares with the approved
\* one; result: in a block that includes it, it has the approved effect, succeeds
\* without it, or is reverted; registry: what Brickken has on record of the token.
ASSUME TruthsAssumption ==
    Truths \subseteq [operation : Kinds, identity : Comparisons,
                     result : [Blocks -> {"EFFECTIVE", "INEFFECTIVE", "REVERTED"}],
                     registry : Answers \ {"NONE"}]

\* A hash was recorded, and a block that includes it is one.
ASSUME ChainAssumption == Hashes # {} /\ Blocks # {} /\ None \notin Blocks

ExecutionIn(b) == IF truth.result[b] = "REVERTED" THEN "REVERTED" ELSE "SUCCESS"

NoPoll == [step |-> "idle", done |-> 0, seen |-> None]

Before == [TOKENIZE |-> {}, WHITELIST |-> {"TOKENIZE"}, MINT |-> {"TOKENIZE", "WHITELIST"}]

\* The operation whose transaction is tracked; it stays the same when the run
\* moves on to its next operation.
Op == truth.operation

\* The hash of operation k was just recorded; its predecessors are verified.
StartOf(k) ==
    LET h == CHOOSE x \in Hashes : TRUE
        past == {j \in Kinds : j \in Before[k]}
        sent == past \cup {k}
    IN
    /\ schema = "4.0" /\ phase = PhaseOf[k] /\ status = "BROADCAST_RECORDED"
    /\ outcome = None /\ eligible = FALSE
    /\ tokenIdentity = IF k = "TOKENIZE" THEN None ELSE h
    /\ stage = [j \in Kinds |-> IF j = k THEN "BROADCAST_HASH_PERSISTED"
                                ELSE IF j \in past THEN "READ_BACK_VERIFIED" ELSE "NOT_STARTED"]
    /\ attempts = [j \in Kinds |-> IF j \in sent THEN <<"PREPARED">> ELSE << >>]
    /\ prompt = [j \in Kinds |-> IF j \in sent
                     THEN [invocation |-> "INVOKED_OR_UNKNOWN", attempt |-> 1] ELSE None]
    /\ hash = [j \in Kinds |-> IF j \in sent THEN h ELSE None]
    /\ rpc = [j \in Kinds |-> IF j \in past THEN "WITHIN_ENVELOPE" ELSE "NONE"]
    /\ receipt = [j \in Kinds |-> IF j \in past
                      THEN [execution |-> "SUCCESS", identity |-> "MATCH",
                            finality |-> "FINALIZED", block |-> CHOOSE b \in Blocks : TRUE]
                      ELSE None]
    /\ correlation = [j \in Kinds |-> IF j \in past
                          THEN [attempt |-> 1, hash |-> h, lifecycle |-> "CORRELATED",
                                count |-> 1, last |-> "AUTHORIZED"]
                          ELSE None]
    /\ statusText = [j \in Kinds |-> None]
    /\ released = [j \in Kinds |-> IF j \in sent THEN 1 ELSE 0]
    /\ reserved = 0 /\ refused = FALSE /\ pollStep = 0

TrackingInit ==
    /\ truth \in Truths /\ StartOf(Op)
    /\ Op = "TOKENIZE" \/ Scope = "LEGACY_FULL"
    /\ poll = [p \in Pollers |-> NoPoll]
    /\ chain = None /\ final = FALSE /\ reorgs = 0 /\ faults = 0

-----------------------------------------------------------------------------
(* Polls *)

Stale == [NoPoll EXCEPT !.step = "stale"]

Working(p) == poll[p].step \notin {"idle", "stale"}

\* Poll p goes on as `next` after it wrote.
Overtake(p, next) ==
    poll' = [q \in Pollers |-> IF q = p THEN next ELSE IF Working(q) THEN Stale ELSE poll[q]]

Write(p, next) == Overtake(p, next) /\ UNCHANGED <<worldVars, faults>>

\* Poll p goes on as `next` without writing.
Proceed(p, next) ==
    /\ poll' = [poll EXCEPT ![p] = next]
    /\ UNCHANGED <<runState, worldVars>>

\* A poll that has done step n.
Between(n) == [step |-> "pipeline", done |-> n, seen |-> None]

Started == Between(0)

\* Which step of the pipeline has something to do, judged by the snapshot.
Wants(n) ==
    CASE n = 1 -> stage[Op] = "BROADCAST_HASH_PERSISTED"
      [] n = 2 -> stage[Op] \in ReceiptStages /\ rpc[Op] # "NONE"
      [] n = 3 -> /\ stage[Op] \in {"RPC_TRANSACTION_VERIFIED", "POLICY_VIOLATION_ONCHAIN",
                                    "BRICKKEN_CORRELATION_PENDING"}
                  /\ status # "FAILED" /\ ~Reverted(Op)
                  /\ rpc[Op] \in {"POLICY_VIOLATION", "WITHIN_ENVELOPE"}
      [] n = 4 -> stage[Op] = "BRICKKEN_CORRELATED"
      [] n = 5 -> ReadBackReady(Op)

\* Poll p has reached step n: the steps it skips have nothing to do.
At(p, n) ==
    /\ poll[p].step = "pipeline"
    /\ poll[p].done < n /\ Wants(n)
    /\ \A m \in (poll[p].done + 1)..(n - 1) : ~Wants(m)

EnterFaultSkipsGuard(p) ==
    /\ poll[p].step = "idle" /\ hash[Op] # None /\ ActiveV4(Op)
    /\ Proceed(p, Started) /\ UNCHANGED faults

EnterFaultNeedsReservation(p) ==
    /\ poll[p].step = "idle" /\ Trackable(Op)
    /\ AwaitingFinality(Op) \/ ReservationLeft
    /\ Proceed(p, Started) /\ UNCHANGED faults

\* GET: reconcileSubmittedRun.
Enter(p) ==
    /\ poll[p].step = "idle" /\ Trackable(Op)
    /\ Proceed(p, Started) /\ UNCHANGED faults

\* POST /track: only a poll that merely awaits finality is free.
Track(p) ==
    /\ poll[p].step = "idle"
    /\ \/ AwaitingFinality(Op) /\ Enter(p)
       \/ ReserveTracking(Op) /\ Write(p, Started)
       \/ ExhaustTracking(Op) /\ Write(p, NoPoll)

\* Nothing is left to do, or the row changed and the next step conflicts.
Leave(p) ==
    /\ \/ poll[p].step = "stale"
       \/ poll[p].step = "pipeline" /\ \A n \in (poll[p].done + 1)..5 : ~Wants(n)
    /\ Proceed(p, NoPoll) /\ UNCHANGED faults

\* The process dies, or the RPC node or Brickken cannot be reached.
Die(p) ==
    /\ poll[p].step # "idle" /\ faults < MaxFaults
    /\ faults' = faults + 1
    /\ Proceed(p, NoPoll)

\* A node that lags behind the others, or one failed read that the code takes
\* for an answer.
Lagging == faults < MaxFaults /\ faults' = faults + 1

-----------------------------------------------------------------------------
(* Steps 1 and 2: the transaction and its receipt *)

Verify(p) ==
    /\ At(p, 1)
    /\ VerifyTransaction(Op, truth.identity) /\ Write(p, Between(1))

\* The transaction is not known to the node yet: the poll ends.
NotFound(p) ==
    /\ At(p, 1) /\ chain = None
    /\ Proceed(p, NoPoll) /\ UNCHANGED faults

ReadReceipt(p) ==
    /\ At(p, 2) /\ chain # None
    /\ Proceed(p, [poll[p] EXCEPT !.step = "canonical", !.seen = chain])
    /\ UNCHANGED faults

NoReceipt(p) ==
    /\ At(p, 2) /\ chain = None
    /\ Proceed(p, Between(2)) /\ UNCHANGED faults

Canonical(p) ==
    /\ poll[p].step = "canonical" /\ poll[p].seen = chain
    /\ Proceed(p, [poll[p] EXCEPT !.step = "finality"]) /\ UNCHANGED faults

ReceiptSeen(p, identity, finality) ==
    [execution |-> ExecutionIn(poll[p].seen), identity |-> identity,
     finality |-> finality, block |-> poll[p].seen]

KnownAlready(r) ==
    /\ receipt[Op] # None
    /\ \/ receipt[Op].finality = "FINALIZED"
       \/ r.block = receipt[Op].block /\ r.identity = "MATCH" /\ r.finality = "INCLUDED"

\* recordRpcReceiptEvidenceV4 throws and the poll ends.
OtherInclusion(r) ==
    /\ receipt[Op] # None /\ receipt[Op].finality = "INCLUDED"
    /\ r.block # receipt[Op].block /\ r.identity = "MATCH"

\* What evaluateAndRecordReceiptFinality does with the evidence r.
Judge(p, r) ==
    \/ RecordReceipt(Op, r) /\ Overtake(p, Between(2)) /\ UNCHANGED worldVars
    \/ KnownAlready(r) /\ Proceed(p, Between(2))
    \/ OtherInclusion(r) /\ Proceed(p, NoPoll)

NotCanonical(p) ==
    /\ poll[p].step = "canonical"
    /\ \/ poll[p].seen # chain /\ UNCHANGED faults
       \/ poll[p].seen = chain /\ Lagging
    /\ Judge(p, ReceiptSeen(p, "MISMATCH", "INCLUDED"))

\* A transaction that is not the approved one may, or may not, also show in the
\* sender, recipient or type its receipt names.
ReceiptIdentities ==
    IF truth.identity \in {"NONE", "MISMATCH"} THEN {"MATCH", "MISMATCH"} ELSE {"MATCH"}

Finality(p) ==
    /\ poll[p].step = "finality"
    /\ \E identity \in ReceiptIdentities :
           \/ /\ Judge(p, ReceiptSeen(p, identity, IF final THEN "FINALIZED" ELSE "INCLUDED"))
              /\ UNCHANGED faults
           \/ final /\ Judge(p, ReceiptSeen(p, identity, "INCLUDED")) /\ Lagging

-----------------------------------------------------------------------------
(* Steps 3 and 4: Brickken *)

AskBrickken(p) ==
    /\ At(p, 3)
    /\ \/ BeginCorrelation(Op) \/ AuthorizeCorrelationRetry(Op)
    /\ Write(p, [poll[p] EXCEPT !.step = "asking"])

\* An attempt that was authorized and never answered is sent again.  A run whose
\* correlation was refused or exhausted is Blocked: no poll gets here.
AskAgain(p) ==
    /\ At(p, 3) /\ CorrelationAuthorized(Op) /\ ~refused
    /\ Proceed(p, [poll[p] EXCEPT !.step = "asking"]) /\ UNCHANGED faults

GiveUpCorrelation(p) ==
    /\ At(p, 3)
    /\ ExhaustCorrelation(Op) /\ Write(p, Between(3))

Answer(p) ==
    /\ poll[p].step = "asking"
    /\ RecordCorrelated(Op) \/ RecordCorrelationUncertain(Op) \/ RefuseCorrelation(Op)
    /\ Write(p, Between(3))

CheckStatus(p) ==
    /\ At(p, 4)
    /\ \/ \E t \in StatusTexts : RecordStatus(Op, t)
       \/ RecordStatusContradiction(Op)
    /\ Write(p, Between(4))

\* No new text, no answer in time, or one that cannot be read.
NoStatus(p) ==
    /\ At(p, 4)
    /\ Proceed(p, Between(4)) /\ UNCHANGED faults

-----------------------------------------------------------------------------
(* Step 5: read-back *)

\* The receipt is evaluated once more and must name the recorded inclusion.
BindsFaultTrustsRecord == TRUE

Binds == final /\ chain = receipt[Op].block /\ ExecutionIn(chain) = "SUCCESS"

\* The transaction is final where the run has it, and had its effect there.
Holds == Binds /\ truth.result[chain] = "EFFECTIVE"

Clean == [x \in ReadsOf(Op) |-> "GOOD"]

\* What nodes that answer show.  An investor who had the role before gets it
\* without a log; without its effect a transaction shows something else at least
\* once, and of the role nothing at all.
Honest ==
    IF ~Binds THEN {[Clean EXCEPT !["receipt"] = "BAD"]}
    ELSE IF Holds /\ Op = "WHITELIST" THEN {Clean, [Clean EXCEPT !["log"] = "BAD"]}
    ELSE IF Holds THEN {Clean}
    ELSE IF Op = "WHITELIST" THEN {[Clean EXCEPT !["role"] = "BAD", !["log"] = "BAD"]}
    ELSE {[Clean EXCEPT ![x] = "BAD"] : x \in ReadsOf(Op) \ {"receipt"}}

\* One call fails, or the second evaluation of the receipt asks a node that lags.
Garbled ==
    {[r EXCEPT ![x] = "FAILED"] : r \in Honest, x \in ReadsOf(Op) \ OfTheReceipt}
    \cup {[r EXCEPT !["receipt"] = "BAD"] : r \in Honest}

\* Poll p concludes from reading r; Brickken answers, or not in time.
Conclude(p, r) ==
    \E answer \in {"NONE", truth.registry} :
        \/ /\ Verdict(Op, r, answer) = "VERIFIED"
           /\ RecordTokenIdentity \/ RecordWhitelistReadBack \/ RecordMintReadBack
           /\ Overtake(p, NoPoll) /\ UNCHANGED worldVars
        \/ /\ Verdict(Op, r, answer) = "MISMATCH"
           /\ RecordReadBackMismatch(Op)
           /\ Overtake(p, NoPoll) /\ UNCHANGED worldVars
        \/ Verdict(Op, r, answer) = "RETRY" /\ Proceed(p, NoPoll)

ReadBack(p) == At(p, 5) /\ (\E r \in Honest : Conclude(p, r)) /\ UNCHANGED faults

Misread(p) == At(p, 5) /\ (\E r \in Garbled : Conclude(p, r)) /\ Lagging

-----------------------------------------------------------------------------
(* The chain *)

Include ==
    /\ chain = None
    /\ chain' \in Blocks
    /\ UNCHANGED <<runState, poll, final, reorgs, truth, faults>>

Reorganise ==
    /\ chain # None /\ ~final /\ reorgs < MaxReorgs
    /\ chain' \in (Blocks \cup {None}) \ {chain}
    /\ reorgs' = reorgs + 1
    /\ UNCHANGED <<runState, poll, final, truth, faults>>

Finalize ==
    /\ chain # None /\ ~final /\ final' = TRUE
    /\ UNCHANGED <<runState, poll, chain, reorgs, truth, faults>>

-----------------------------------------------------------------------------

Observe(p) ==
    \/ Verify(p) \/ NotFound(p) \/ ReadReceipt(p) \/ NoReceipt(p)
    \/ Canonical(p) \/ NotCanonical(p) \/ Finality(p)

Correlate(p) ==
    \/ AskBrickken(p) \/ AskAgain(p) \/ GiveUpCorrelation(p)
    \/ Answer(p) \/ CheckStatus(p) \/ NoStatus(p)

Poll(p) == Observe(p) \/ Correlate(p) \/ ReadBack(p) \/ Leave(p)

TrackingNext ==
    \/ \E p \in Pollers : Enter(p) \/ Track(p) \/ Poll(p) \/ Misread(p) \/ Die(p)
    \/ Include \/ Reorganise \/ Finalize

\* A request that began is worked on, the open page asks again and again, and
\* the chain includes and finalizes the transaction.
TrackingFairness ==
    /\ \A p \in Pollers : WF_trackVars(Poll(p))
    /\ WF_trackVars(\E p \in Pollers : Enter(p))
    /\ WF_trackVars(Include) /\ WF_trackVars(Finalize)

TrackingSpec == TrackingInit /\ [][TrackingNext]_trackVars /\ TrackingFairness

-----------------------------------------------------------------------------
(* Properties *)

\* However many polls interleave and wherever the chain reorganises between two
\* reads, an operation is verified only if its transaction really is final in
\* the recorded block, succeeded there, is the approved one and had its effect
\* (recordTokenIdentityFromReadBack, recordLifecycleReadBack).
VerifiedIsTrue ==
    stage[Op] = "READ_BACK_VERIFIED" =>
        /\ final /\ chain = receipt[Op].block
        /\ truth.identity = "WITHIN_ENVELOPE"
        /\ truth.result[chain] = "EFFECTIVE"

\* An operation that is final and had its effect is given up only if a read failed
\* or Brickken contradicts it.  Brickken being late, or still listing an older token
\* of the same symbol, ends no run (recordTokenIdentityFromReadBack: "Do not treat an
\* unrelated older record as an authoritative contradiction"), except at MINT, where
\* recordLifecycleReadBack compares the address Brickken has on record.
SoundIsNotGivenUp ==
    outcome = "VERIFICATION_FAILED" =>
        \/ ~Holds
        \/ faults > 0
        \/ truth.registry = "CONTRADICTS"
        \/ truth.registry = "OTHER" /\ Op = "MINT"

\* A poll that may still write either entered on the current snapshot, which may
\* be tracked, or made the last write itself.  So what trackExecution and
\* reconcileSubmittedRun check on entry is enough, and the writes of ExecutionRun
\* lose nothing by being guarded with pollStep.
EntryGuardSuffices ==
    \A p \in Pollers :
        Working(p) =>
            \/ Trackable(Op)
            \/ pollStep \in 1..poll[p].done
            \/ poll[p].step = "asking" /\ pollStep = 3

Concluded == Blocked \/ stage[Op] = "READ_BACK_VERIFIED"

\* The transaction was included again in another block than the one the run has
\* recorded: from then on every poll throws at step 2.
Displaced == receipt[Op] # None /\ receipt[Op].block # chain

\* As long as the page polls, tracking comes to an end: the operation is
\* verified, or the run failed or waits for a person.  The one exception is an
\* inclusion that was displaced by a reorganisation.
TrackingConcludes == <>(Concluded \/ (final /\ Displaced))

\* v4-service.ts, #reconcilePipeline: "Transient RPC read failure: allow retry on
\* subsequent tracking poll without deterministic failure".  A run whose
\* transaction is final and had its effect is not given up.  The code does not
\* keep this: some failed reads are recorded as a mismatch.
TransientFailureIsRetried == outcome = "VERIFICATION_FAILED" => ~Holds

=============================================================================
