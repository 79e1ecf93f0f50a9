---------------------------- MODULE TrackingInv -----------------------------
(***************************************************************************)
(* The inductive invariant of Tracking, relative to that of the run.  What *)
(* a poll remembers from before an await, and what the row remembers of the*)
(* chain, hold only because of relations to what cannot change any more.   *)
(***************************************************************************)
EXTENDS Tracking, ExecutionRunInv

PollStates ==
    [step : {"idle", "stale", "pipeline", "canonical", "finality", "asking"},
     done : 0..5, seen : Blocks \cup {None}]

\* The poll may still write: it entered on this very row, or wrote it.
MayWrite(s) ==
    \/ Trackable(Op)
    \/ pollStep \in 1..s.done
    \/ s.step = "asking" /\ pollStep = 3

\* A poll looks at the receipt before it does any later step, and asks Brickken before
\* it checks a status, so a write of step n is never followed by a step up to n.
PollOK(s) ==
    /\ s \in PollStates
    /\ s.step \in {"canonical", "finality"} => s.seen \in Blocks /\ s.done < 2
    /\ s.step = "asking" => s.done < 3
    /\ s.step \notin {"idle", "stale"} => MayWrite(s)

WorldOK ==
    /\ truth \in Truths
    /\ chain \in Blocks \cup {None}
    /\ final \in BOOLEAN /\ (final => chain # None)
    /\ faults \in Nat

\* The comparison on record is that of the transaction.
ComparedTruly == rpc[Op] \in {"NONE", truth.identity}

ReceiptIsFinal == receipt[Op] # None /\ receipt[Op].finality = "FINALIZED"

\* A receipt is final only if the chain is, in this block or another: neither moves
\* any more.
FinalityIsFinal == ReceiptIsFinal => final

\* A read-back is given up only on a final receipt.
GivenUpIsFinal == outcome = "VERIFICATION_FAILED" => ReceiptIsFinal

TrackInv ==
    /\ poll \in [Pollers -> PollStates] /\ \A p \in Pollers : PollOK(poll[p])
    /\ WorldOK
    /\ ComparedTruly
    /\ FinalityIsFinal
    /\ GivenUpIsFinal
    /\ VerifiedIsTrue
    /\ SoundIsNotGivenUp

=============================================================================
