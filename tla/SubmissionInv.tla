---------------------------- MODULE SubmissionInv ----------------------------
(***************************************************************************)
(* The inductive invariant of Submission, relative to that of the run.  An *)
(* envelope is a token: it exists in one place only, an answer on its way  *)
(* or a tab that holds it, and as long as it does nothing was sent and     *)
(* nobody has anything to report.  A preparation in flight is a token too, *)
(* which the stage of the operation stands for.                            *)
(***************************************************************************)
EXTENDS Submission, ExecutionRunInv

RequestSteps ==
    {"idle", "begin", "askFirst", "askLifecycle", "askAgain", "release", "report",
     "ok", "error", "stale", "threw", "envelope"}

TabSteps ==
    {"idle", "asking", "holding", "sending", "hash", "unknown", "reportingHash",
     "reportingUnknown"}

RequestStates ==
    [step : RequestSteps, route : Routes \cup {"none", "execute", "hash", "unknown"},
     tab : Tabs \cup {None}, fresh : BOOLEAN, hash : Hashes \cup {None}]

TabStates == [step : TabSteps, fresh : BOOLEAN, hash : Hashes \cup {None}]

\* The run is on its first or its second operation all the time.
ActorTypes ==
    /\ request \in [Requests -> RequestStates]
    /\ tab \in [Tabs -> TabStates]
    /\ phase \in {"TOKENIZATION", "WHITELIST"}

\* What the wallet did, and what it was entitled to.
WalletOK ==
    /\ sent \in [Kinds -> Nat]
    /\ \A k \in Kinds : sent[k] <= released[k]
    /\ broadcast \in [Kinds -> SUBSET Hashes]
    /\ \A k \in Kinds : broadcast[k] = {} \/ \E h \in Hashes : broadcast[k] = {h}

\* Somebody called the wallet, or is not sure to have called it.
Reporting ==
    \/ \E t \in Tabs : tab[t].step \in {"sending", "hash", "unknown", "reportingHash",
                                        "reportingUnknown"}
    \/ \E r \in Requests : request[r].step = "report"

ReportsAreDue == Reporting => released[Op] = 1

\* Authority was given and nothing came of it yet.
Unspent == HoldsAuthority(Op) /\ sent[Op] = 0 /\ ~Reporting

\* There is one envelope, on its way or held.
EnvelopeIsOne ==
    /\ \A r \in Requests : request[r].step = "envelope" =>
           /\ Unspent
           /\ \A q \in Requests : request[q].step = "envelope" => q = r
           /\ \A t \in Tabs : tab[t].step # "holding"
    /\ \A t \in Tabs : tab[t].step = "holding" =>
           /\ Unspent
           /\ \A u \in Tabs : tab[u].step = "holding" => u = t

\* What is reported as a hash is one the wallet broadcast.
HashIsBroadcast ==
    /\ \A t \in Tabs : tab[t].step = "hash" => tab[t].hash \in broadcast[Op]
    /\ \A r \in Requests : request[r].step = "report" /\ request[r].route = "hash" =>
           request[r].hash \in broadcast[Op]

IntentOf == [askFirst |-> "PREPARE_INTENT", askAgain |-> "REPREPARE_INTENT"]

\* A request that asks under an intent is the only one, and the intent stays as long
\* as it asks, even if the run was cancelled meanwhile.
IntentIsHeld ==
    \A r \in Requests : request[r].step \in {"askFirst", "askAgain"} =>
        /\ stage[Op] = IntentOf[request[r].step]
        /\ \A q \in Requests : request[q].step \in {"askFirst", "askAgain"} => q = r

SubmissionInv ==
    /\ ActorTypes
    /\ WalletOK
    /\ ReportsAreDue
    /\ EnvelopeIsOne
    /\ HashIsBroadcast
    /\ IntentIsHeld

=============================================================================
