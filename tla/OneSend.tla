------------------------------- MODULE OneSend -------------------------------
(***************************************************************************)
(* What Edict promises about the transaction of one operation, seen from   *)
(* outside: the wallet is asked to send at most once, only after the run   *)
(* durably gave it the authority, and what the run then says about the     *)
(* transaction is either a hash the wallet really broadcast or, for good,  *)
(* that it does not know.                                                  *)
(***************************************************************************)
CONSTANTS
    Kinds,     \* the operations of a run
    Hashes,    \* transaction hashes
    Nothing,   \* the run says nothing about the transaction yet
    Ambiguous  \* the run says it cannot know

VARIABLES
    authority,  \* withheld, granted or spent, for each operation
    onChain,    \* hashes the wallet broadcast for it
    known       \* what the run says: Nothing, Ambiguous or a hash

vars == <<authority, onChain, known>>

\* Each operation is untouched, or was settled before.
Init ==
    /\ authority \in [Kinds -> {"withheld", "spent"}]
    /\ known \in [Kinds -> Hashes \cup {Nothing}]
    /\ \A k \in Kinds : known[k] = Nothing <=> authority[k] = "withheld"
    /\ onChain = [k \in Kinds |-> {known[k]} \ {Nothing}]

Grant(k) ==
    /\ authority[k] = "withheld" /\ known[k] = Nothing
    /\ authority' = [authority EXCEPT ![k] = "granted"]
    /\ UNCHANGED <<onChain, known>>

Spend(k) ==
    /\ authority[k] = "granted" /\ known[k] = Nothing
    /\ authority' = [authority EXCEPT ![k] = "spent"]
    /\ UNCHANGED <<onChain, known>>

\* The user may confirm long after the page stopped waiting for the wallet.
Broadcast(k, h) ==
    /\ authority[k] = "spent" /\ onChain[k] = {}
    /\ onChain' = [onChain EXCEPT ![k] = {h}]
    /\ UNCHANGED <<authority, known>>

Learn(k, h) ==
    /\ known[k] = Nothing /\ h \in onChain[k]
    /\ known' = [known EXCEPT ![k] = h]
    /\ UNCHANGED <<authority, onChain>>

Doubt(k) ==
    /\ authority[k] # "withheld" /\ known[k] = Nothing
    /\ known' = [known EXCEPT ![k] = Ambiguous]
    /\ UNCHANGED <<authority, onChain>>

Next ==
    \E k \in Kinds :
        \/ Grant(k) \/ Spend(k) \/ Doubt(k)
        \/ \E h \in Hashes : Broadcast(k, h) \/ Learn(k, h)

Spec == Init /\ [][Next]_vars

=============================================================================
