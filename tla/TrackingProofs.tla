--------------------------- MODULE TrackingProofs ---------------------------
(***************************************************************************)
(* Proofs about Tracking, for any number of polls, any chain with any      *)
(* number of reorganisations, any number of faults, and every transaction  *)
(* that may have been tracked.                                             *)
(*                                                                         *)
(* First, what a verdict is worth: a reading of nodes, even one garbled, is*)
(* never taken for an effect that is not there.  Then every step of Tracking *)
(* is one of ExecutionRun's, so what is proved of the run holds here.  The *)
(* invariant of the polls and the chain follows step by step: a step writes*)
(* and makes the other polls stale, or leaves the row alone.               *)
(***************************************************************************)
EXTENDS TrackingInv, ExecutionRunStepProofs

-----------------------------------------------------------------------------
(* Verdicts *)

\* There is a first one of at most seven checks that do not pass.
LEMMA FirstOfSeven ==
  ASSUME NEW S, S \subseteq 1..7, S # {}
  PROVE  \E i \in S : \A j \in S : i <= j
<1>1. CASE 1 \in S
  BY <1>1
<1>2. CASE 1 \notin S /\ 2 \in S
  BY <1>2
<1>3. CASE 1 \notin S /\ 2 \notin S /\ 3 \in S
  BY <1>3
<1>4. CASE 1 \notin S /\ 2 \notin S /\ 3 \notin S /\ 4 \in S
  BY <1>4
<1>5. CASE 1 \notin S /\ 2 \notin S /\ 3 \notin S /\ 4 \notin S /\ 5 \in S
  BY <1>5
<1>6. CASE 1 \notin S /\ 2 \notin S /\ 3 \notin S /\ 4 \notin S /\ 5 \notin S
  <2>1. CASE 6 \in S
    BY <1>6, <2>1
  <2>2. CASE 6 \notin S
    <3>1. \A j \in S : j = 7
      BY <1>6, <2>2
    <3>2. 7 \in S
      BY <3>1
    <3> QED
      BY <3>1, <3>2
  <2> QED
    BY <2>1, <2>2
<1> QED
  BY <1>1, <1>2, <1>3, <1>4, <1>5, <1>6

\* The verdict is VERIFIED exactly if every check is.
LEMMA InOrderVerified ==
  ASSUME NEW n \in 1..7, NEW checks, DOMAIN checks = 1..n
  PROVE  InOrder(checks) = "VERIFIED" <=> \A i \in 1..n : checks[i] = "VERIFIED"
<1> DEFINE open == {i \in DOMAIN checks : checks[i] # "VERIFIED"}
           first == CHOOSE i \in open : \A j \in open : i <= j
<1>1. open \subseteq 1..7 /\ (open = {} <=> \A i \in 1..n : checks[i] = "VERIFIED")
  OBVIOUS
<1>2. InOrder(checks) = IF open = {} THEN "VERIFIED" ELSE checks[first]
  BY DEF InOrder
<1>3. open # {} => first \in open
  <2> HIDE DEF open
  <2> QED
    BY <1>1, FirstOfSeven
<1>4. open # {} => checks[first] # "VERIFIED"
  <2> HIDE DEF first
  <2> QED
    BY <1>3
<1> QED
  BY <1>1, <1>2, <1>4

\* What it takes to verify, kind by kind.
LEMMA VerifiedTakes ==
  ASSUME NEW k \in Kinds, NEW r, NEW answer
  PROVE  Verdict(k, r, answer) = "VERIFIED" <=>
             /\ k = "TOKENIZE" =>
                    /\ \A x \in ReadsOf(k) : r[x] = "GOOD"
                    /\ answer # "CONTRADICTS"
             /\ k = "WHITELIST" =>
                    /\ r["receipt"] = "GOOD" /\ r["recipient"] = "GOOD"
                    /\ "GOOD" \in {r["role"], r["log"]}
                    /\ answer # "CONTRADICTS"
             /\ k = "MINT" =>
                    /\ \A x \in ReadsOf(k) : r[x] = "GOOD"
                    /\ answer \in {"NONE", "AGREES"}
<1> USE DEF Verdict, ReadsOf, Checked, Required, Retried
<1>1. CASE k = "TOKENIZE"
  <2> DEFINE c == <<Retried(r["receipt"]), Retried(r["implementation"]), Required(r["event"]),
                    Retried(r["code"]), Retried(r["escrowCode"]), Required(r["decimals"]),
                    Checked(answer # "CONTRADICTS")>>
  <2>1. DOMAIN c = 1..7
    OBVIOUS
  <2>2. InOrder(c) = "VERIFIED" <=> \A i \in 1..7 : c[i] = "VERIFIED"
    <3> HIDE DEF c
    <3> QED
      BY <2>1, InOrderVerified
  <2>3. Verdict(k, r, answer) = InOrder(c)
    BY <1>1 DEF TokenVerdict
  <2>4. (\A i \in 1..7 : c[i] = "VERIFIED") <=>
            /\ c[1] = "VERIFIED" /\ c[2] = "VERIFIED" /\ c[3] = "VERIFIED" /\ c[4] = "VERIFIED"
            /\ c[5] = "VERIFIED" /\ c[6] = "VERIFIED" /\ c[7] = "VERIFIED"
    <3> HIDE DEF c
    <3> QED
      OBVIOUS
  <2> QED
    BY <1>1, <2>2, <2>3, <2>4
<1>2. CASE k = "WHITELIST"
  <2> DEFINE c == <<Retried(r["receipt"]), Required(r["recipient"]),
                    Checked("GOOD" \in {r["role"], r["log"]}),
                    Checked(answer # "CONTRADICTS")>>
  <2>1. DOMAIN c = 1..4
    OBVIOUS
  <2>2. InOrder(c) = "VERIFIED" <=> \A i \in 1..4 : c[i] = "VERIFIED"
    <3> HIDE DEF c
    <3> QED
      BY <2>1, InOrderVerified
  <2>3. Verdict(k, r, answer) = InOrder(c)
    BY <1>2 DEF WhitelistVerdict
  <2>4. (\A i \in 1..4 : c[i] = "VERIFIED") <=>
            c[1] = "VERIFIED" /\ c[2] = "VERIFIED" /\ c[3] = "VERIFIED" /\ c[4] = "VERIFIED"
    <3> HIDE DEF c
    <3> QED
      OBVIOUS
  <2> QED
    BY <1>2, <2>2, <2>3, <2>4
<1>3. CASE k = "MINT"
  <2> DEFINE c == <<Retried(r["receipt"]), Required(r["recipient"]), Required(r["balance"]),
                    Checked(answer \in {"NONE", "AGREES"})>>
  <2>1. DOMAIN c = 1..4
    OBVIOUS
  <2>2. InOrder(c) = "VERIFIED" <=> \A i \in 1..4 : c[i] = "VERIFIED"
    <3> HIDE DEF c
    <3> QED
      BY <2>1, InOrderVerified
  <2>3. Verdict(k, r, answer) = InOrder(c)
    BY <1>3 DEF MintVerdict
  <2>4. (\A i \in 1..4 : c[i] = "VERIFIED") <=>
            c[1] = "VERIFIED" /\ c[2] = "VERIFIED" /\ c[3] = "VERIFIED" /\ c[4] = "VERIFIED"
    <3> HIDE DEF c
    <3> QED
      OBVIOUS
  <2> QED
    BY <1>3, <2>2, <2>3, <2>4
<1> QED
  BY <1>1, <1>2, <1>3 DEF Kinds

\* Whatever the nodes show, and even if one of them fails or lags: what is verified
\* is final where the run has it, and had its effect there.
LEMMA VerifiedHolds ==
  ASSUME NEW r \in Honest \cup Garbled, NEW answer, Op \in Kinds,
         Verdict(Op, r, answer) = "VERIFIED"
  PROVE  Holds
<1> SUFFICES ASSUME ~Holds
             PROVE  FALSE
  OBVIOUS
<1>1. PICK h \in Honest :
          \/ r = h
          \/ \E x \in ReadsOf(Op) \ OfTheReceipt : r = [h EXCEPT ![x] = "FAILED"]
          \/ r = [h EXCEPT !["receipt"] = "BAD"]
  BY DEF Garbled
<1>2. "receipt" \in ReadsOf(Op) /\ Clean = [x \in ReadsOf(Op) |-> "GOOD"]
  BY DEF ReadsOf, Kinds, Clean
<1>3. CASE ~Binds
  <2>1. h = [Clean EXCEPT !["receipt"] = "BAD"]
    BY <1>3 DEF Honest
  <2>2. r["receipt"] # "GOOD"
    BY <1>1, <1>2, <2>1
  <2> QED
    BY <1>2, <2>2, VerifiedTakes DEF Kinds
<1>4. CASE Binds /\ Op = "WHITELIST"
  <2>1. h = [Clean EXCEPT !["role"] = "BAD", !["log"] = "BAD"]
    BY <1>4 DEF Honest
  <2>2. h["role"] = "BAD" /\ h["log"] = "BAD" /\ "role" \in DOMAIN h /\ "log" \in DOMAIN h
    BY <1>2, <1>4, <2>1 DEF ReadsOf
  <2>3. r["role"] # "GOOD" /\ r["log"] # "GOOD"
    BY <1>1, <1>4, <2>2
  <2> QED
    BY <1>4, <2>3, VerifiedTakes DEF Kinds
<1>5. CASE Binds /\ Op # "WHITELIST"
  <2>1. PICK x \in ReadsOf(Op) : h = [Clean EXCEPT ![x] = "BAD"]
    BY <1>5 DEF Honest
  <2>2. r[x] # "GOOD"
    BY <1>1, <1>2, <2>1
  <2> QED
    BY <1>5, <2>1, <2>2, VerifiedTakes DEF Kinds
<1> QED
  BY <1>3, <1>4, <1>5

\* A transaction that holds, read by nodes that answer, is refused only for what
\* Brickken has on record.
LEMMA RefusedByRegistry ==
  ASSUME NEW r \in Honest, NEW answer \in {"NONE", truth.registry}, Op \in Kinds,
         truth.registry \in Answers, Holds,
         Verdict(Op, r, answer) # "VERIFIED"
  PROVE  truth.registry = "CONTRADICTS" \/ (truth.registry = "OTHER" /\ Op = "MINT")
<1>1. r = Clean \/ (Op = "WHITELIST" /\ r = [Clean EXCEPT !["log"] = "BAD"])
  BY DEF Honest, Holds
<1>2. Clean = [x \in ReadsOf(Op) |-> "GOOD"]
  BY DEF Clean
<1>3. \A x \in ReadsOf(Op) : r[x] = "GOOD" \/ (Op = "WHITELIST" /\ x = "log")
  BY <1>1, <1>2
<1>4. Op = "WHITELIST" => {"receipt", "recipient", "role"} \subseteq ReadsOf(Op)
  BY DEF ReadsOf
<1>5. \/ Op # "MINT" /\ answer = "CONTRADICTS"
      \/ Op = "MINT" /\ answer \notin {"NONE", "AGREES"}
  <2>1. CASE Op = "WHITELIST"
    BY <1>3, <1>4, <2>1, VerifiedTakes DEF Kinds
  <2>2. CASE Op # "WHITELIST"
    BY <1>3, <2>2, VerifiedTakes DEF Kinds
  <2> QED
    BY <2>1, <2>2
<1> QED
  BY <1>5 DEF Answers

-----------------------------------------------------------------------------
(* Every step is a step of the run *)

LEMMA OpIsKind ==
  ASSUME WorldOK
  PROVE  /\ Op \in Kinds /\ truth.identity \in Comparisons
         /\ truth.result \in [Blocks -> {"EFFECTIVE", "INEFFECTIVE", "REVERTED"}]
         /\ truth.registry \in Answers
BY TruthsAssumption DEF WorldOK, Op

LEMMA SeenIsReceipt ==
  ASSUME TrackInv, NEW p \in Pollers, poll[p].step \in {"canonical", "finality"},
         NEW i \in {"MATCH", "MISMATCH"}, NEW f \in {"INCLUDED", "FINALIZED"}
  PROVE  ReceiptSeen(p, i, f) \in Receipts
<1>1. poll[p].seen \in Blocks
  BY DEF TrackInv, PollOK
<1> QED
  BY <1>1 DEF ReceiptSeen, ExecutionIn, Receipts

LEMMA TrackingIsRun == ASSUME TrackInv, [TrackingNext]_trackVars PROVE [Next]_vars
<1>0. Op \in Kinds /\ truth.identity \in Comparisons
  BY OpIsKind DEF TrackInv
<1>1. ASSUME NEW p \in Pollers, Enter(p) \/ NotFound(p) \/ ReadReceipt(p) \/ NoReceipt(p)
                 \/ Canonical(p) \/ AskAgain(p) \/ NoStatus(p) \/ Leave(p) \/ Die(p)
      PROVE  UNCHANGED vars
  BY <1>1 DEF Enter, NotFound, ReadReceipt, NoReceipt, Canonical, AskAgain, NoStatus, Leave,
     Die, Proceed, runState
<1>2. ASSUME NEW p \in Pollers, Track(p)
      PROVE  [Next]_vars
  <2>1. CASE Enter(p)
    BY <1>1, <2>1
  <2>2. CASE ReserveTracking(Op) \/ ExhaustTracking(Op)
    BY <1>0, <2>2 DEF Next, Tracking
  <2> QED
    BY <1>2, <2>1, <2>2 DEF Track
<1>3. ASSUME NEW p \in Pollers, Verify(p)
      PROVE  Next
  BY <1>0, <1>3 DEF Verify, Next, Evidence
<1>4. ASSUME NEW p \in Pollers, NEW r \in Receipts, Judge(p, r)
      PROVE  [Next]_vars
  BY <1>0, <1>4 DEF Judge, Proceed, runState, Next, Evidence
<1>5. ASSUME NEW p \in Pollers, NotCanonical(p) \/ Finality(p)
      PROVE  [Next]_vars
  <2>1. PICK r \in Receipts : Judge(p, r)
    BY <1>5, SeenIsReceipt DEF NotCanonical, Finality, ReceiptIdentities
  <2> QED
    BY <1>4, <2>1
<1>6. ASSUME NEW p \in Pollers, AskBrickken(p) \/ GiveUpCorrelation(p) \/ Answer(p) \/ CheckStatus(p)
      PROVE  Next
  BY <1>0, <1>6 DEF AskBrickken, GiveUpCorrelation, Answer, CheckStatus, Next, Brickken
<1>7. ASSUME NEW p \in Pollers, ReadBack(p) \/ Misread(p)
      PROVE  [Next]_vars
  BY <1>0, <1>7 DEF ReadBack, Misread, Conclude, Proceed, runState, Next, Tracking
<1>8. ASSUME Include \/ Reorganise \/ Finalize \/ UNCHANGED trackVars
      PROVE  UNCHANGED vars
  BY <1>8 DEF Include, Reorganise, Finalize, trackVars, runState
<1> QED
  BY <1>1, <1>2, <1>3, <1>5, <1>6, <1>7, <1>8 DEF TrackingNext, Poll, Observe, Correlate

-----------------------------------------------------------------------------
(* The beginning: a hash was just recorded *)

LEMMA StartIsTyped ==
  ASSUME NEW k \in Kinds, StartOf(k)
  PROVE  TypeOK
<1> DEFINE h == CHOOSE x \in Hashes : TRUE
           b == CHOOSE x \in Blocks : TRUE
           past == {j \in Kinds : j \in Before[k]}
           sent == past \cup {k}
           open == [invocation |-> "INVOKED_OR_UNKNOWN", attempt |-> 1]
           good == [execution |-> "SUCCESS", identity |-> "MATCH", finality |-> "FINALIZED",
                    block |-> b]
           linked == [attempt |-> 1, hash |-> h, lifecycle |-> "CORRELATED", count |-> 1,
                      last |-> "AUTHORIZED"]
<1>1. h \in Hashes /\ b \in Blocks
  BY ChainAssumption
<1>2. 1 \in 1..MaxPreparations /\ 1 \in 1..MaxCorrelations
  BY BudgetAssumption
<1>3. open \in Prompts /\ good \in Receipts /\ linked \in Correlations
  BY <1>1, <1>2 DEF Prompts, Receipts, Correlations
<1>4. /\ prompt = [j \in Kinds |-> IF j \in sent THEN open ELSE None]
      /\ hash = [j \in Kinds |-> IF j \in sent THEN h ELSE None]
      /\ receipt = [j \in Kinds |-> IF j \in past THEN good ELSE None]
      /\ correlation = [j \in Kinds |-> IF j \in past THEN linked ELSE None]
      /\ attempts = [j \in Kinds |-> IF j \in sent THEN <<"PREPARED">> ELSE << >>]
      /\ tokenIdentity = IF k = "TOKENIZE" THEN None ELSE h
  BY DEF StartOf
<1>5. /\ prompt \in [Kinds -> Prompts \cup {None}] /\ hash \in [Kinds -> Hashes \cup {None}]
      /\ receipt \in [Kinds -> Receipts \cup {None}]
      /\ correlation \in [Kinds -> Correlations \cup {None}]
      /\ tokenIdentity \in Hashes \cup {None}
  <2> HIDE DEF open, good, linked, h, past, sent
  <2> QED
    BY <1>1, <1>3, <1>4
<1>6. attempts \in [Kinds -> Seq(AttemptStates)] /\ \A j \in Kinds : Len(attempts[j]) <= MaxPreparations
  <2>1. /\ <<"PREPARED">> \in Seq(AttemptStates) /\ Len(<<"PREPARED">>) = 1
        /\ << >> \in Seq(AttemptStates) /\ Len(<< >>) = 0
        /\ 0 <= MaxPreparations /\ 1 <= MaxPreparations
    BY BudgetAssumption DEF AttemptStates
  <2> HIDE DEF past, sent
  <2> QED
    BY <1>4, <2>1
<1>7. stage \in [Kinds -> Stages] /\ rpc \in [Kinds -> Comparisons] /\ released \in [Kinds -> Nat]
      /\ statusText \in [Kinds -> StatusTexts \cup {None}]
  <2>1. {"BROADCAST_HASH_PERSISTED", "READ_BACK_VERIFIED", "NOT_STARTED"} \subseteq Stages
        /\ {"WITHIN_ENVELOPE", "NONE"} \subseteq Comparisons
    BY DEF Stages, PreparationStages, PromptStages, ReleasedStages, Comparisons
  <2> QED
    BY <2>1 DEF StartOf
<1>8. /\ schema \in {"2.0", "4.0"} /\ phase \in Phases /\ status \in Statuses
      /\ outcome \in Outcomes \cup {None} /\ eligible \in BOOLEAN /\ refused \in BOOLEAN
      /\ reserved \in 0..TrackBudget /\ pollStep \in 0..5
  <2>1. /\ schema = "4.0" /\ phase = PhaseOf[k] /\ status = "BROADCAST_RECORDED"
        /\ outcome = None /\ eligible = FALSE /\ refused = FALSE /\ reserved = 0 /\ pollStep = 0
    BY DEF StartOf
  <2>2. PhaseOf[k] \in Phases
    BY DEF PhaseOf, Phases, Kinds
  <2> QED
    <3>1. schema \in {"2.0", "4.0"} /\ phase \in Phases /\ status \in Statuses
          /\ outcome \in Outcomes \cup {None}
      BY <2>1, <2>2 DEF Statuses
    <3>2. eligible \in BOOLEAN /\ refused \in BOOLEAN
      BY <2>1
    <3>3. reserved \in 0..TrackBudget /\ pollStep \in 0..5
      BY <2>1, BudgetAssumption
    <3> QED
      BY <3>1, <3>2, <3>3
<1> QED
  BY <1>5, <1>6, <1>7, <1>8 DEF TypeOK

\* Operation by operation: the tracked one waits for its transaction, those before it
\* are verified, the others untouched.
LEMMA StartTracked ==
  ASSUME NEW k \in Kinds, StartOf(k)
  PROVE  /\ stage[k] = "BROADCAST_HASH_PERSISTED"
         /\ attempts[k] # << >> /\ Len(attempts[k]) = 1 /\ attempts[k][1] = "PREPARED"
         /\ prompt[k] # None /\ prompt[k].invocation = "INVOKED_OR_UNKNOWN" /\ prompt[k].attempt = 1
         /\ hash[k] # None /\ rpc[k] = "NONE" /\ receipt[k] = None
         /\ correlation[k] = None /\ statusText[k] = None /\ released[k] = 1
<1> DEFINE open == [invocation |-> "INVOKED_OR_UNKNOWN", attempt |-> 1]
<1>1. k \notin Before[k]
  BY DEF Before, Kinds
<1>2. /\ stage[k] = "BROADCAST_HASH_PERSISTED" /\ rpc[k] = "NONE" /\ receipt[k] = None
      /\ correlation[k] = None /\ statusText[k] = None /\ released[k] = 1
  BY <1>1 DEF StartOf
<1>3. prompt[k] = open /\ hash[k] \in Hashes
  BY ChainAssumption DEF StartOf
<1>4. attempts[k] = <<"PREPARED">>
  BY DEF StartOf
<1>5. open \in Prompts /\ None \notin Prompts \cup Hashes
  BY NoneAssumption, BudgetAssumption DEF Prompts
<1>6. attempts[k] # << >> /\ Len(attempts[k]) = 1 /\ attempts[k][1] = "PREPARED"
  BY <1>4
<1> QED
  BY <1>2, <1>3, <1>5, <1>6

LEMMA StartVerified ==
  ASSUME NEW k \in Kinds, StartOf(k), NEW j \in Kinds, j # k, j \in Before[k]
  PROVE  SettledAtFirst(j)
<1> DEFINE open == [invocation |-> "INVOKED_OR_UNKNOWN", attempt |-> 1]
           good == [execution |-> "SUCCESS", identity |-> "MATCH", finality |-> "FINALIZED",
                    block |-> CHOOSE b \in Blocks : TRUE]
           linked == [attempt |-> 1, hash |-> hash[j], lifecycle |-> "CORRELATED", count |-> 1,
                      last |-> "AUTHORIZED"]
<1>1. stage[j] = "READ_BACK_VERIFIED" /\ rpc[j] = "WITHIN_ENVELOPE" /\ released[j] = 1
  BY DEF StartOf
<1>2. prompt[j] = open /\ hash[j] = (CHOOSE x \in Hashes : TRUE)
  BY DEF StartOf
<1>3. receipt[j] = good
  BY DEF StartOf
<1>4. correlation[j] = linked
  BY <1>2 DEF StartOf
<1>5. attempts[j] = <<"PREPARED">>
  BY DEF StartOf
<1>6. attempts[j] # << >> /\ Len(attempts[j]) = 1 /\ attempts[j][1] = "PREPARED"
  BY <1>5
<1>7. hash[j] \in Hashes /\ (CHOOSE b \in Blocks : TRUE) \in Blocks
  BY <1>2, ChainAssumption
<1>8. open \in Prompts /\ good \in Receipts /\ linked \in Correlations
  BY <1>7, BudgetAssumption DEF Prompts, Receipts, Correlations
<1>9. None \notin Prompts \cup Hashes \cup Receipts \cup Correlations
  BY NoneAssumption
<1>10. prompt[j] # None /\ prompt[j].invocation = "INVOKED_OR_UNKNOWN" /\ prompt[j].attempt = 1
  BY <1>2, <1>8, <1>9
<1>11. /\ receipt[j] # None /\ receipt[j].execution = "SUCCESS"
       /\ receipt[j].identity = "MATCH" /\ receipt[j].finality = "FINALIZED"
  <2>1. receipt[j] \in Receipts
    <3> HIDE DEF good
    <3> QED
      BY <1>3, <1>8
  <2>2. receipt[j].execution = "SUCCESS" /\ receipt[j].identity = "MATCH"
        /\ receipt[j].finality = "FINALIZED"
    BY <1>3
  <2> QED
    BY <2>1, <2>2, <1>9
<1>12. /\ correlation[j] # None /\ correlation[j].attempt = 1 /\ correlation[j].hash = hash[j]
       /\ correlation[j].lifecycle = "CORRELATED"
  BY <1>4, <1>8, <1>9
<1> QED
  BY <1>1, <1>6, <1>7, <1>9, <1>10, <1>11, <1>12 DEF SettledAtFirst

LEMMA StartPristine ==
  ASSUME NEW k \in Kinds, StartOf(k), NEW j \in Kinds, j # k, j \notin Before[k]
  PROVE  Pristine(j)
<1>1. stage[j] = "NOT_STARTED" /\ rpc[j] = "NONE" /\ released[j] = 0
  BY DEF StartOf
<1>2. prompt[j] = None /\ hash[j] = None /\ receipt[j] = None
  BY DEF StartOf
<1>3. correlation[j] = None /\ statusText[j] = None
  BY DEF StartOf
<1>4. attempts[j] = << >>
  BY DEF StartOf
<1> QED
  BY <1>1, <1>2, <1>3, <1>4 DEF Pristine

\* It is a state the run can be in.
LEMMA StartHolds ==
  ASSUME NEW k \in Kinds, StartOf(k), k = "TOKENIZE" \/ Scope = "LEGACY_FULL"
  PROVE  RunInv
<1>1. TypeOK
  BY StartIsTyped
<1>2. /\ phase = PhaseOf[k] /\ schema = "4.0" /\ status = "BROADCAST_RECORDED"
      /\ outcome = None /\ eligible = FALSE /\ pollStep = 0
  BY DEF StartOf
<1>3. \A j \in Kinds : j = k \/ (j \in Before[k] /\ j # k) \/ (j \notin Before[k] /\ j # k)
  OBVIOUS
<1>5. \A j \in Kinds : Shape(j)
  <2>1. TAKE j \in Kinds
  <2>2. CASE j = k
    <3>1. WalletShape(j)
      BY <1>2, <2>2, StartTracked DEF WalletShape, AttemptFitsStage, PromptStages,
         ReleasedStages, PreparationStages
    <3>2. ChainShape(j) /\ CorrelationShape(j)
      BY <2>2, StartTracked DEF ChainShape, ReceiptStages, ReleasedStages, CorrelationShape,
         CorrelationStages
    <3> QED
      BY <3>1, <3>2 DEF Shape
  <2>3. CASE j \in Before[k] /\ j # k
    BY <2>3, StartVerified, SettledHolds
  <2>4. CASE j \notin Before[k] /\ j # k
    BY <2>4, StartPristine, PristineHolds
  <2> QED
    BY <1>3, <2>2, <2>3, <2>4
<1>6. PhaseShape /\ SchemaShape
  <2>1. \A j \in Kinds : j # k =>
            IF j \in Before[k] THEN stage[j] = "READ_BACK_VERIFIED" ELSE Pristine(j)
    BY StartVerified, StartPristine DEF SettledAtFirst
  <2> QED
    BY <1>2, <2>1 DEF Before, PhaseShape, SchemaShape, PhaseOf, Kinds
<1>7. TokenShape
  <2>1. k = "TOKENIZE" => tokenIdentity = None /\ stage["TOKENIZE"] = "BROADCAST_HASH_PERSISTED"
    BY StartTracked DEF StartOf
  <2>2. k # "TOKENIZE" => /\ tokenIdentity = hash["TOKENIZE"] /\ hash["TOKENIZE"] # None
                         /\ stage["TOKENIZE"] = "READ_BACK_VERIFIED"
    <3>1. k # "TOKENIZE" => "TOKENIZE" \in Before[k] /\ "TOKENIZE" \in Kinds
      BY DEF Before, Kinds
    <3>2. k # "TOKENIZE" => tokenIdentity = (CHOOSE x \in Hashes : TRUE)
                            /\ hash["TOKENIZE"] = (CHOOSE x \in Hashes : TRUE)
      BY <3>1 DEF StartOf
    <3>3. k # "TOKENIZE" => SettledAtFirst("TOKENIZE")
      BY <3>1, StartVerified
    <3>4. k # "TOKENIZE" =>
              hash["TOKENIZE"] # None /\ stage["TOKENIZE"] = "READ_BACK_VERIFIED"
      BY <3>3 DEF SettledAtFirst
    <3> QED
      BY <3>1, <3>2, <3>4
  <2> QED
    BY <2>1, <2>2 DEF TokenShape
<1>8. SuccessInv /\ BlockedInv
  <2>1. phase # "VERIFICATION"
    BY <1>2 DEF PhaseOf, Kinds
  <2>2. \A j \in Kinds : ~Ambiguous(j)
    <3>1. TAKE j \in Kinds
    <3>2. j # k => (j \in Before[k] /\ SettledAtFirst(j)) \/ Pristine(j)
      BY StartVerified, StartPristine
    <3> QED
      BY <3>2, StartTracked DEF SettledAtFirst, Pristine, Ambiguous
  <2> QED
    BY <1>2, <2>1, <2>2 DEF SuccessInv, SuccessMeansVerified, OutcomeShape, BlockedInv, EndedShape,
       WorkShape, AmbiguityShape, Ambiguous, Blocked
<1> QED
  BY <1>1, <1>5, <1>6, <1>7, <1>8 DEF RunInv, IInv, Shape

LEMMA TrackingStarts == ASSUME TrackingInit PROVE RunInv /\ TrackInv
<1>1. truth \in Truths /\ Op = truth.operation
  BY DEF TrackingInit, Op
<1>2. Op \in Kinds
  BY <1>1, TruthsAssumption
<1>3. RunInv
  BY <1>2, StartHolds DEF TrackingInit
<1>4. outcome = None /\ rpc[Op] = "NONE" /\ receipt[Op] = None
      /\ stage[Op] = "BROADCAST_HASH_PERSISTED"
  BY <1>2 DEF TrackingInit, StartOf, Before, Kinds
<1>5. NoPoll \in PollStates /\ PollOK(NoPoll)
  BY DEF NoPoll, PollStates, PollOK
<1>6. poll \in [Pollers -> PollStates] /\ \A p \in Pollers : PollOK(poll[p])
  BY <1>5 DEF TrackingInit
<1>7. None \notin Outcomes
  BY NoneAssumption
<1> QED
  BY <1>1, <1>3, <1>4, <1>6, <1>7 DEF TrackingInit, TrackInv, WorldOK, ComparedTruly,
     FinalityIsFinal, ReceiptIsFinal, GivenUpIsFinal, VerifiedIsTrue, SoundIsNotGivenUp, Outcomes

-----------------------------------------------------------------------------
(* Polls: what one remembers still fits the row after every step *)

Polls == poll \in [Pollers -> PollStates] /\ \A p \in Pollers : PollOK(poll[p])

\* A poll that writes makes the others stale, so only what it goes on as matters.
LEMMA OvertakeKeeps ==
  ASSUME Polls, NEW p \in Pollers, NEW s \in PollStates, Overtake(p, s), PollOK(s)'
  PROVE  Polls'
<1>1. Stale \in PollStates /\ Stale.step = "stale"
  BY DEF Stale, NoPoll, PollStates
<1>2. poll' \in [Pollers -> PollStates]
  BY <1>1 DEF Polls, Overtake
<1>3. ASSUME NEW q \in Pollers
      PROVE  PollOK(poll[q])'
  <2>1. CASE q = p
    <3>1. poll'[q] = s
      BY <2>1 DEF Overtake
    <3> QED
      BY <3>1 DEF PollOK, MayWrite
  <2>2. CASE q # p
    <3>1. poll'[q] \in PollStates /\ poll'[q].step \in {"idle", "stale"}
      BY <1>1, <2>2 DEF Polls, Overtake, Working
    <3> QED
      BY <3>1 DEF PollOK
  <2> QED
    BY <2>1, <2>2
<1> QED
  BY <1>2, <1>3 DEF Polls

\* What a poll may do is a matter of the row and of whose row it is.
LEMMA RowDecides ==
  ASSUME UNCHANGED vars, truth' = truth, NEW s
  PROVE  PollOK(s)' <=> PollOK(s)
BY DEF PollOK, MayWrite, Trackable, ActiveV4, Active, Blocked, Op, vars, runVars, walletVars,
   chainVars

\* A poll that does not write leaves the others where they are.
LEMMA ProceedKeeps ==
  ASSUME Polls, NEW p \in Pollers, NEW s \in PollStates, Proceed(p, s), PollOK(s)
  PROVE  Polls'
<1>1. UNCHANGED vars /\ truth' = truth /\ poll' = [poll EXCEPT ![p] = s]
  BY DEF Proceed, runState, worldVars
<1>2. poll' \in [Pollers -> PollStates]
  BY <1>1 DEF Polls
<1>3. ASSUME NEW q \in Pollers
      PROVE  PollOK(poll[q])'
  <2>1. PollOK(poll'[q])
    BY <1>1 DEF Polls
  <2>2. PICK t : t = poll'[q]
    OBVIOUS
  <2>3. PollOK(t)'
    BY <1>1, <2>1, <2>2, RowDecides
  <2> QED
    BY <2>2, <2>3 DEF PollOK, MayWrite
<1> QED
  BY <1>2, <1>3 DEF Polls

LEMMA QuietKeeps ==
  ASSUME Polls, UNCHANGED vars, truth' = truth, poll' = poll
  PROVE  Polls'
<1>1. ASSUME NEW q \in Pollers
      PROVE  PollOK(poll[q])'
  <2>1. PICK t : t = poll[q]
    OBVIOUS
  <2>2. PollOK(t)'
    BY <2>1, RowDecides DEF Polls
  <2> QED
    BY <2>1, <2>2 DEF PollOK, MayWrite
<1> QED
  BY <1>1 DEF Polls

LEMMA IdleIsOK == NoPoll \in PollStates /\ PollOK(NoPoll) /\ PollOK(NoPoll)'
BY DEF NoPoll, PollStates, PollOK

LEMMA BetweenSteps ==
  ASSUME NEW n \in 0..5
  PROVE  Between(n) \in PollStates /\ Between(n).step = "pipeline" /\ Between(n).done = n
BY DEF Between, PollStates

\* A poll that did step n without writing goes on; it was entitled to write before.
LEMMA GoesOn ==
  ASSUME Polls, NEW p \in Pollers, NEW n \in 1..5, Working(p), poll[p].step # "asking",
         poll[p].done < n, Proceed(p, Between(n))
  PROVE  Polls'
<1>1. PollOK(poll[p]) /\ MayWrite(poll[p])
  BY DEF Polls, PollOK, Working
<1>2. 1..poll[p].done \subseteq 1..n
  BY <1>1 DEF PollOK, PollStates
<1>3. PollOK(Between(n))
  BY <1>1, <1>2, BetweenSteps DEF PollOK, MayWrite
<1> QED
  BY <1>3, BetweenSteps, ProceedKeeps

\* A poll that did step n with a write made the row what it is.
LEMMA GoesOnWriting ==
  ASSUME Polls, NEW p \in Pollers, NEW n \in 1..5, Overtake(p, Between(n)), pollStep' = n
  PROVE  Polls'
<1>1. PICK s : s = Between(n)
  OBVIOUS
<1>2. s \in PollStates /\ s.step = "pipeline" /\ s.done = n
  BY <1>1, BetweenSteps
<1>3. n \in 1..s.done
  BY <1>2
<1>4. PollOK(s)'
  BY <1>2, <1>3 DEF PollOK, MayWrite
<1> QED
  BY <1>1, <1>2, <1>4, OvertakeKeeps

LEMMA JudgeKeepsPolls ==
  ASSUME Polls, NEW p \in Pollers, NEW r, poll[p].step \in {"canonical", "finality"}, Judge(p, r)
  PROVE  Polls'
<1>1. CASE RecordReceipt(Op, r) /\ Overtake(p, Between(2))
  BY <1>1, GoesOnWriting DEF RecordReceipt, EvidenceStep, PollStep
<1>2. CASE Proceed(p, Between(2))
  BY <1>2, GoesOn DEF Polls, PollOK, Working
<1>3. CASE Proceed(p, NoPoll)
  BY <1>3, IdleIsOK, ProceedKeeps
<1> QED
  BY <1>1, <1>2, <1>3 DEF Judge

LEMMA ConcludeKeepsPolls ==
  ASSUME Polls, NEW p \in Pollers, NEW r, Conclude(p, r)
  PROVE  Polls'
<1>1. Overtake(p, NoPoll) \/ Proceed(p, NoPoll)
  BY DEF Conclude
<1> QED
  BY <1>1, IdleIsOK, OvertakeKeeps, ProceedKeeps

LEMMA EnterKeepsPolls ==
  ASSUME Polls, NEW p \in Pollers, Enter(p) \/ Track(p)
  PROVE  Polls'
<1>1. Started \in PollStates /\ Started.step = "pipeline" /\ Started.done = 0
  BY BetweenSteps DEF Started
<1>2. CASE Enter(p)
  <2>1. PollOK(Started)
    BY <1>1, <1>2 DEF Enter, PollOK, MayWrite
  <2> QED
    BY <1>1, <1>2, <2>1, ProceedKeeps DEF Enter
<1>3. CASE ReserveTracking(Op) /\ Write(p, Started)
  <2>1. Trackable(Op)'
    BY <1>3 DEF ReserveTracking, Trackable, ActiveV4, Active, Blocked, Op, Write, worldVars,
       runVars, walletVars, chainVars
  <2>2. PollOK(Started)'
    BY <1>1, <2>1 DEF PollOK, MayWrite
  <2> QED
    BY <1>1, <1>3, <2>2, OvertakeKeeps DEF Write, Started, Between
<1>4. CASE Write(p, NoPoll)
  BY <1>4, IdleIsOK, OvertakeKeeps DEF Write
<1> QED
  BY <1>2, <1>3, <1>4 DEF Track

LEMMA ObserveKeepsPolls ==
  ASSUME Polls, WorldOK, NEW p \in Pollers, Observe(p)
  PROVE  Polls'
<1>0. PollOK(poll[p]) /\ poll[p] \in PollStates
  BY DEF Polls
<1>1. CASE Verify(p)
  BY <1>1, GoesOnWriting DEF Verify, Write, VerifyTransaction, EvidenceStep, PollStep
<1>2. CASE NotFound(p)
  BY <1>2, IdleIsOK, ProceedKeeps DEF NotFound
<1>3. CASE ReadReceipt(p)
  <2> DEFINE s == [poll[p] EXCEPT !.step = "canonical", !.seen = chain]
  <2>1. s \in PollStates /\ s.step = "canonical" /\ s.done = poll[p].done /\ s.seen = chain
    BY <1>0, <1>3 DEF PollStates, WorldOK
  <2>2. chain \in Blocks /\ poll[p].done < 2 /\ poll[p].step = "pipeline"
    BY <1>3 DEF ReadReceipt, At, WorldOK
  <2>3. PollOK(s)
    BY <1>0, <2>1, <2>2 DEF PollOK, MayWrite
  <2> QED
    BY <1>3, <2>1, <2>3, ProceedKeeps DEF ReadReceipt
<1>4. CASE NoReceipt(p)
  BY <1>4, GoesOn DEF NoReceipt, At, Working
<1>5. CASE Canonical(p)
  <2> DEFINE s == [poll[p] EXCEPT !.step = "finality"]
  <2>1. s \in PollStates /\ s.step = "finality" /\ s.done = poll[p].done /\ s.seen = poll[p].seen
    BY <1>0 DEF PollStates
  <2>2. PollOK(s)
    BY <1>0, <1>5, <2>1 DEF Canonical, PollOK, MayWrite
  <2> QED
    BY <1>5, <2>1, <2>2, ProceedKeeps DEF Canonical
<1>6. CASE NotCanonical(p) \/ Finality(p)
  BY <1>6, JudgeKeepsPolls DEF NotCanonical, Finality
<1> QED
  BY <1>1, <1>2, <1>3, <1>4, <1>5, <1>6 DEF Observe

LEMMA CorrelateKeepsPolls ==
  ASSUME Polls, NEW p \in Pollers, Correlate(p)
  PROVE  Polls'
<1>0. PollOK(poll[p]) /\ poll[p] \in PollStates
  BY DEF Polls
<1>1. CASE AskBrickken(p)
  <2>1. PICK s : s = [poll[p] EXCEPT !.step = "asking"]
    OBVIOUS
  <2>2. s \in PollStates /\ s.step = "asking" /\ s.done < 3
    BY <1>0, <1>1, <2>1 DEF AskBrickken, At, PollStates
  <2>3. pollStep' = 3
    BY <1>1 DEF AskBrickken, BeginCorrelation, AuthorizeCorrelationRetry, CorrelationStep, PollStep
  <2>4. PollOK(s)'
    BY <2>2, <2>3 DEF PollOK, MayWrite
  <2> QED
    BY <1>1, <2>1, <2>2, <2>4, OvertakeKeeps DEF AskBrickken, Write
<1>2. CASE AskAgain(p)
  <2> DEFINE s == [poll[p] EXCEPT !.step = "asking"]
  <2>1. s \in PollStates /\ s.step = "asking" /\ s.done = poll[p].done
    BY <1>0 DEF PollStates
  <2>2. PollOK(s)
    BY <1>0, <1>2, <2>1 DEF AskAgain, At, PollOK, MayWrite
  <2> QED
    BY <1>2, <2>1, <2>2, ProceedKeeps DEF AskAgain
<1>3. CASE GiveUpCorrelation(p) \/ Answer(p)
  BY <1>3, GoesOnWriting DEF GiveUpCorrelation, Answer, Write, ExhaustCorrelation, RecordCorrelated,
     RecordCorrelationUncertain, RefuseCorrelation, CorrelationStep, PollStep
<1>4. CASE CheckStatus(p)
  BY <1>4, GoesOnWriting DEF CheckStatus, Write, RecordStatus, RecordStatusContradiction,
     EvidenceStep, PollStep
<1>5. CASE NoStatus(p)
  BY <1>5, GoesOn DEF NoStatus, At, Working
<1> QED
  BY <1>1, <1>2, <1>3, <1>4, <1>5 DEF Correlate

LEMMA PollsKept == ASSUME TrackInv, [TrackingNext]_trackVars PROVE Polls'
<1>0. Polls /\ WorldOK
  BY DEF TrackInv, Polls
<1>1. ASSUME NEW p \in Pollers, ReadBack(p) \/ Misread(p)
      PROVE  Polls'
  BY <1>0, <1>1, ConcludeKeepsPolls DEF ReadBack, Misread
<1>2. ASSUME NEW p \in Pollers, Leave(p) \/ Die(p)
      PROVE  Polls'
  BY <1>0, <1>2, IdleIsOK, ProceedKeeps DEF Leave, Die
<1>3. CASE Include \/ Reorganise \/ Finalize \/ UNCHANGED trackVars
  BY <1>0, <1>3, QuietKeeps DEF Include, Reorganise, Finalize, trackVars, worldVars, runState
<1> QED
  BY <1>0, <1>1, <1>2, <1>3, EnterKeepsPolls, ObserveKeepsPolls, CorrelateKeepsPolls
     DEF TrackingNext, Poll

-----------------------------------------------------------------------------
(* The chain, and what the row says of it *)

\* What is final stays final, and the transaction is what it is.
Frozen ==
    /\ truth' = truth
    /\ final => final' /\ chain' = chain
    /\ faults > 0 => faults' > 0

LEMMA WorldMoves ==
  ASSUME WorldOK, [TrackingNext]_trackVars
  PROVE  Frozen /\ WorldOK'
<1>1. \/ UNCHANGED <<worldVars, faults>>
      \/ UNCHANGED worldVars /\ faults' = faults + 1
      \/ Include \/ Reorganise \/ Finalize
  <2>1. ASSUME NEW p \in Pollers, Enter(p) \/ Track(p) \/ Leave(p) \/ Die(p)
        PROVE  UNCHANGED worldVars /\ (UNCHANGED faults \/ faults' = faults + 1)
    BY <2>1 DEF Enter, Track, Leave, Die, Proceed, Write
  <2>2. ASSUME NEW p \in Pollers, NEW r, Judge(p, r)
        PROVE  UNCHANGED worldVars
    BY <2>2 DEF Judge, Proceed
  <2>3. ASSUME NEW p \in Pollers, Observe(p)
        PROVE  UNCHANGED worldVars /\ (UNCHANGED faults \/ faults' = faults + 1)
    BY <2>2, <2>3 DEF Observe, Verify, NotFound, ReadReceipt, NoReceipt, Canonical, NotCanonical,
       Finality, Proceed, Write, Lagging
  <2>4. ASSUME NEW p \in Pollers, Correlate(p)
        PROVE  UNCHANGED <<worldVars, faults>>
    BY <2>4 DEF Correlate, AskBrickken, AskAgain, GiveUpCorrelation, Answer, CheckStatus, NoStatus,
       Proceed, Write
  <2>5. ASSUME NEW p \in Pollers, ReadBack(p) \/ Misread(p)
        PROVE  UNCHANGED worldVars /\ (UNCHANGED faults \/ faults' = faults + 1)
    BY <2>5 DEF ReadBack, Misread, Conclude, Proceed, Lagging
  <2> QED
    BY <2>1, <2>3, <2>4, <2>5 DEF TrackingNext, Poll, trackVars
<1>2. CASE UNCHANGED worldVars /\ (UNCHANGED faults \/ faults' = faults + 1)
  <2>1. chain' = chain /\ final' = final /\ truth' = truth
    BY <1>2 DEF worldVars
  <2>2. faults' \in Nat /\ (faults > 0 => faults' > 0)
    BY <1>2 DEF WorldOK
  <2> QED
    BY <2>1, <2>2 DEF Frozen, WorldOK
<1>3. CASE Include
  BY <1>3, ChainAssumption DEF Include, Frozen, WorldOK
<1>4. CASE Reorganise
  BY <1>4 DEF Reorganise, Frozen, WorldOK
<1>5. CASE Finalize
  BY <1>5 DEF Finalize, Frozen, WorldOK
<1> QED
  BY <1>1, <1>2, <1>3, <1>4, <1>5

\* What the row says of the chain.
Said == ComparedTruly /\ FinalityIsFinal /\ GivenUpIsFinal /\ VerifiedIsTrue /\ SoundIsNotGivenUp

\* A step that neither looks at the transaction nor concludes.
Harmless ==
    /\ rpc'[Op] = rpc[Op] /\ receipt'[Op] = receipt[Op]
    /\ stage'[Op] = "READ_BACK_VERIFIED" => stage[Op] = "READ_BACK_VERIFIED"
    /\ outcome' = "VERIFICATION_FAILED" => outcome = "VERIFICATION_FAILED"

\* Whether a transaction holds is settled once its receipt is final.
LEMMA FinalHolds ==
  ASSUME Said, Frozen, receipt'[Op] = receipt[Op], ReceiptIsFinal
  PROVE  final /\ chain' = chain /\ (Holds' <=> Holds)
BY DEF Said, FinalityIsFinal, Frozen, Holds, Binds, ExecutionIn, Op

LEMMA HarmlessKeeps == ASSUME Said, Frozen, Harmless PROVE Said'
<1>1. Op' = Op /\ truth' = truth
  BY DEF Frozen, Op
<1>2. ComparedTruly' /\ FinalityIsFinal' /\ GivenUpIsFinal'
  BY <1>1 DEF Said, Harmless, Frozen, ComparedTruly, FinalityIsFinal, GivenUpIsFinal, ReceiptIsFinal
<1>3. VerifiedIsTrue'
  BY <1>1 DEF Said, Harmless, Frozen, VerifiedIsTrue
<1>4. SoundIsNotGivenUp'
  <2>1. SUFFICES ASSUME outcome' = "VERIFICATION_FAILED"
                 PROVE  \/ ~Holds' \/ faults' > 0 \/ truth.registry = "CONTRADICTS"
                        \/ truth.registry = "OTHER" /\ Op = "MINT"
    BY <1>1 DEF SoundIsNotGivenUp
  <2>2. ReceiptIsFinal
    BY <2>1 DEF Said, Harmless, GivenUpIsFinal
  <2> QED
    <3>1. Holds' <=> Holds
      BY <2>2, FinalHolds DEF Harmless
    <3>2. \/ ~Holds \/ faults > 0 \/ truth.registry = "CONTRADICTS"
          \/ truth.registry = "OTHER" /\ Op = "MINT"
      BY <2>1 DEF Harmless, Said, SoundIsNotGivenUp
    <3>3. faults > 0 => faults' > 0
      BY DEF Frozen
    <3> QED
      BY <3>1, <3>2, <3>3
<1> QED
  BY <1>2, <1>3, <1>4 DEF Said

LEMMA UnchangedIsHarmless == ASSUME UNCHANGED vars PROVE Harmless
BY DEF Harmless, vars, runVars, walletVars, chainVars

\* Comparing the transaction says what it is.
LEMMA VerifyKeeps ==
  ASSUME RunInv, WorldOK, Said, Frozen, NEW p \in Pollers, Verify(p)
  PROVE  Said'
<1>1. Op \in Kinds /\ Op' = Op
  BY OpIsKind DEF Frozen, Op
<1>2. /\ stage[Op] = "BROADCAST_HASH_PERSISTED" /\ outcome' = outcome /\ receipt' = receipt
      /\ rpc'[Op] = truth.identity /\ stage'[Op] # "READ_BACK_VERIFIED"
  BY <1>1 DEF Verify, VerifyTransaction, RunInv, IInv, TypeOK
<1>3. rpc[Op] = "NONE" /\ receipt[Op] = None
  BY <1>1, <1>2 DEF RunInv, IInv, ChainShape, ReceiptStages
<1>4. outcome # "VERIFICATION_FAILED"
  BY <1>3 DEF Said, GivenUpIsFinal, ReceiptIsFinal
<1> QED
  BY <1>1, <1>2, <1>3, <1>4 DEF Said, Frozen, ComparedTruly, FinalityIsFinal, GivenUpIsFinal,
     ReceiptIsFinal, VerifiedIsTrue, SoundIsNotGivenUp

\* A receipt is recorded as final only of a chain that is.
LEMMA JudgeKeeps ==
  ASSUME RunInv, WorldOK, Said, Frozen, NEW p \in Pollers, NEW r, Judge(p, r),
         r.finality = "FINALIZED" => final
  PROVE  Said'
<1>1. Op \in Kinds /\ Op' = Op
  BY OpIsKind DEF Frozen, Op
<1>2. CASE UNCHANGED vars
  BY <1>2, UnchangedIsHarmless, HarmlessKeeps
<1>3. CASE RecordReceipt(Op, r)
  <2>1. /\ stage[Op] # "READ_BACK_VERIFIED" /\ stage' = stage /\ rpc' = rpc
        /\ receipt'[Op] = r /\ outcome' \in {outcome, "FAILED"} /\ ReceiptAccepted(Op, r)
    BY <1>1, <1>3 DEF RecordReceipt, ReceiptStages, RunInv, IInv, TypeOK
  <2>2. ~ReceiptIsFinal
    BY <2>1 DEF ReceiptAccepted, ReceiptIsFinal
  <2>3. outcome' # "VERIFICATION_FAILED"
    BY <2>1, <2>2 DEF Said, GivenUpIsFinal
  <2> QED
    BY <1>1, <2>1, <2>3 DEF Said, Frozen, ComparedTruly, FinalityIsFinal, GivenUpIsFinal,
       ReceiptIsFinal, VerifiedIsTrue, SoundIsNotGivenUp
<1> QED
  BY <1>2, <1>3 DEF Judge, Proceed, runState

LEMMA BrickkenIsHarmless ==
  ASSUME RunInv, WorldOK, NEW p \in Pollers, Correlate(p)
  PROVE  Harmless
<1>1. Op \in Kinds
  BY OpIsKind
<1>2. CASE AskAgain(p) \/ NoStatus(p)
  BY <1>2, UnchangedIsHarmless DEF AskAgain, NoStatus, Proceed, runState
<1>3. CASE AskBrickken(p) \/ GiveUpCorrelation(p) \/ Answer(p)
  <2>1. rpc' = rpc /\ receipt' = receipt /\ outcome' \in {outcome, None}
        /\ stage' \in {stage, [stage EXCEPT ![Op] = "BRICKKEN_CORRELATION_PENDING"],
                       [stage EXCEPT ![Op] = "BRICKKEN_CORRELATED"]}
    BY <1>3 DEF AskBrickken, GiveUpCorrelation, Answer, BeginCorrelation, AuthorizeCorrelationRetry,
       ExhaustCorrelation, RecordCorrelated, RecordCorrelationUncertain, RefuseCorrelation,
       CorrelationStep, chainVars
  <2>2. stage'[Op] = "READ_BACK_VERIFIED" => stage[Op] = "READ_BACK_VERIFIED"
    BY <1>1, <2>1 DEF RunInv, IInv, TypeOK
  <2>3. None # "VERIFICATION_FAILED"
    BY NoneAssumption DEF Outcomes
  <2> QED
    BY <2>1, <2>2, <2>3 DEF Harmless
<1>4. CASE CheckStatus(p)
  BY <1>4 DEF CheckStatus, RecordStatus, RecordStatusContradiction, Harmless
<1> QED
  BY <1>2, <1>3, <1>4 DEF Correlate

\* A poll concludes on a final receipt, from what nodes show of the chain it is on.
LEMMA ConcludeKeeps ==
  ASSUME RunInv, WorldOK, Said, Frozen, NEW p \in Pollers, At(p, 5),
         NEW r \in Honest \cup Garbled, r \in Honest \/ faults' > 0, Conclude(p, r)
  PROVE  Said'
<1>1. Op \in Kinds /\ Op' = Op /\ truth.registry \in Answers
  BY OpIsKind DEF Frozen, Op
<1>2. /\ ReadBackReady(Op) /\ ReceiptIsFinal /\ rpc[Op] = "WITHIN_ENVELOPE"
      /\ stage[Op] = "BRICKKEN_CORRELATED"
  BY DEF At, Wants, ReadBackReady, ReceiptIsFinal
<1>3. truth.identity = "WITHIN_ENVELOPE"
  BY <1>2 DEF Said, ComparedTruly
<1>4. PICK answer \in {"NONE", truth.registry} :
          \/ /\ Verdict(Op, r, answer) = "VERIFIED"
             /\ RecordTokenIdentity \/ RecordWhitelistReadBack \/ RecordMintReadBack
          \/ Verdict(Op, r, answer) = "MISMATCH" /\ RecordReadBackMismatch(Op)
          \/ UNCHANGED vars
  BY DEF Conclude, Proceed, runState
<1>5. CASE /\ Verdict(Op, r, answer) = "VERIFIED"
           /\ RecordTokenIdentity \/ RecordWhitelistReadBack \/ RecordMintReadBack
  <2>1. rpc' = rpc /\ receipt' = receipt /\ outcome' = outcome
    BY <1>5 DEF RecordTokenIdentity, RecordWhitelistReadBack, RecordMintReadBack, ReadBackStep,
       chainVars
  <2>2. Holds
    BY <1>1, <1>5, VerifiedHolds
  <2>3. final' /\ chain' = receipt'[Op].block /\ truth.result[chain'] = "EFFECTIVE"
    BY <1>2, <2>1, <2>2, FinalHolds DEF Holds, Binds, Frozen
  <2>4. VerifiedIsTrue'
    BY <1>1, <1>3, <2>3 DEF VerifiedIsTrue, Frozen
  <2>5. ComparedTruly' /\ FinalityIsFinal' /\ GivenUpIsFinal'
    BY <1>1, <2>1, <2>3 DEF Said, Frozen, ComparedTruly, FinalityIsFinal, GivenUpIsFinal, ReceiptIsFinal
  <2>6. SoundIsNotGivenUp'
    <3>1. Holds' /\ outcome' = outcome
      BY <1>2, <2>1, <2>2, FinalHolds
    <3>2. faults > 0 => faults' > 0
      BY DEF Frozen
    <3> QED
      BY <1>1, <2>2, <3>1, <3>2 DEF Said, SoundIsNotGivenUp, Frozen
  <2> QED
    BY <2>4, <2>5, <2>6 DEF Said
<1>6. CASE Verdict(Op, r, answer) = "MISMATCH" /\ RecordReadBackMismatch(Op)
  <2>1. rpc' = rpc /\ receipt' = receipt /\ stage' = stage
    BY <1>6 DEF RecordReadBackMismatch, chainVars, walletVars
  <2>2. VerifiedIsTrue'
    BY <1>1, <1>2, <2>1 DEF VerifiedIsTrue
  <2>3. ComparedTruly' /\ FinalityIsFinal' /\ GivenUpIsFinal'
    BY <1>1, <1>2, <2>1 DEF Said, Frozen, ComparedTruly, FinalityIsFinal, GivenUpIsFinal, ReceiptIsFinal
  <2>4. SoundIsNotGivenUp'
    <3>1. CASE faults' > 0
      BY <3>1 DEF SoundIsNotGivenUp
    <3>2. CASE r \in Honest /\ Holds
      <4>1. truth.registry = "CONTRADICTS" \/ (truth.registry = "OTHER" /\ Op = "MINT")
        BY <1>1, <1>6, <3>2, RefusedByRegistry
      <4> QED
        BY <1>1, <4>1 DEF SoundIsNotGivenUp, Frozen
    <3>3. CASE ~Holds
      BY <1>2, <2>1, <3>3, FinalHolds DEF SoundIsNotGivenUp
    <3> QED
      BY <3>1, <3>2, <3>3
  <2> QED
    BY <2>2, <2>3, <2>4 DEF Said
<1>7. CASE UNCHANGED vars
  BY <1>7, UnchangedIsHarmless, HarmlessKeeps
<1> QED
  BY <1>4, <1>5, <1>6, <1>7

-----------------------------------------------------------------------------
(* The theorems *)

LEMMA SaidKept ==
  ASSUME RunInv, TrackInv, [TrackingNext]_trackVars
  PROVE  Said'
<1>0. WorldOK /\ Said /\ Frozen
  BY WorldMoves DEF TrackInv, Said
<1>1. ASSUME NEW p \in Pollers, Enter(p) \/ Leave(p) \/ Die(p)
      PROVE  Said'
  BY <1>0, <1>1, UnchangedIsHarmless, HarmlessKeeps DEF Enter, Leave, Die, Proceed, runState
<1>2. ASSUME NEW p \in Pollers, Track(p)
      PROVE  Said'
  <2>1. CASE Enter(p)
    BY <1>1, <2>1
  <2>2. CASE ReserveTracking(Op) \/ ExhaustTracking(Op)
    <3>1. Harmless
      BY <2>2 DEF ReserveTracking, ExhaustTracking, Harmless, runVars, walletVars, chainVars
    <3> QED
      BY <1>0, <3>1, HarmlessKeeps
  <2> QED
    BY <1>2, <2>1, <2>2 DEF Track
<1>3. ASSUME NEW p \in Pollers, Observe(p)
      PROVE  Said'
  <2>1. CASE NotFound(p) \/ ReadReceipt(p) \/ NoReceipt(p) \/ Canonical(p)
    BY <1>0, <2>1, UnchangedIsHarmless, HarmlessKeeps
       DEF NotFound, ReadReceipt, NoReceipt, Canonical, Proceed, runState
  <2>2. CASE Verify(p)
    BY <1>0, <2>2, VerifyKeeps
  <2>3. CASE NotCanonical(p)
    BY <1>0, <2>3, JudgeKeeps DEF NotCanonical, ReceiptSeen
  <2>4. CASE Finality(p)
    BY <1>0, <2>4, JudgeKeeps DEF Finality, ReceiptSeen
  <2> QED
    BY <1>3, <2>1, <2>2, <2>3, <2>4 DEF Observe
<1>4. ASSUME NEW p \in Pollers, Correlate(p)
      PROVE  Said'
  BY <1>0, <1>4, BrickkenIsHarmless, HarmlessKeeps
<1>5. ASSUME NEW p \in Pollers, ReadBack(p)
      PROVE  Said'
  BY <1>0, <1>5, ConcludeKeeps DEF ReadBack
<1>6. ASSUME NEW p \in Pollers, Misread(p)
      PROVE  Said'
  <2>1. faults' > 0
    BY <1>0, <1>6 DEF Misread, Lagging, WorldOK
  <2> QED
    BY <1>0, <1>6, <2>1, ConcludeKeeps DEF Misread
<1>7. CASE Include \/ Reorganise \/ Finalize \/ UNCHANGED trackVars
  BY <1>0, <1>7, UnchangedIsHarmless, HarmlessKeeps DEF Include, Reorganise, Finalize, trackVars,
     runState
<1> QED
  BY <1>1, <1>2, <1>3, <1>4, <1>5, <1>6, <1>7 DEF TrackingNext, Poll

LEMMA TrackStep ==
  ASSUME RunInv, TrackInv, [TrackingNext]_trackVars
  PROVE  RunInv' /\ TrackInv' /\ [Next]_vars
<1>1. [Next]_vars
  BY TrackingIsRun
<1>2. RunInv'
  BY <1>1, RunInvKept
<1>3. Polls' /\ WorldOK' /\ Said'
  BY PollsKept, WorldMoves, SaidKept DEF TrackInv
<1> QED
  BY <1>1, <1>2, <1>3 DEF TrackInv, Polls, Said

\* However many polls there are, whatever they read and whenever they die: the run
\* takes only the steps ExecutionRun describes, and stays in its invariant.
THEOREM TrackingRuns == TrackingSpec => [](RunInv /\ TrackInv) /\ [][Next]_vars
<1>1. TrackingInit => RunInv /\ TrackInv
  BY TrackingStarts
<1>2. (RunInv /\ TrackInv) /\ [TrackingNext]_trackVars => (RunInv /\ TrackInv)' /\ [Next]_vars
  BY TrackStep
<1> QED
  BY <1>1, <1>2, PTL DEF TrackingSpec

\* A verified operation really is final in the recorded block, and had its effect
\* there, wherever the chain reorganised between two reads of a poll.
THEOREM VerifiedOnChain == TrackingSpec => []VerifiedIsTrue
<1>1. TrackInv => VerifiedIsTrue
  BY DEF TrackInv
<1> QED
  BY <1>1, TrackingRuns, PTL

\* What a poll checks on entry is enough for every write it makes later.
THEOREM EntrySuffices == TrackingSpec => []EntryGuardSuffices
<1>1. TrackInv => EntryGuardSuffices
  BY DEF TrackInv, PollOK, MayWrite, EntryGuardSuffices, Working
<1> QED
  BY <1>1, TrackingRuns, PTL

\* What is final and had its effect is given up only after a failed read, or because
\* Brickken contradicts it.
THEOREM SoundSurvives == TrackingSpec => []SoundIsNotGivenUp
<1>1. TrackInv => SoundIsNotGivenUp
  BY DEF TrackInv
<1> QED
  BY <1>1, TrackingRuns, PTL

=============================================================================
