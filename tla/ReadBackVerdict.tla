--------------------------- MODULE ReadBackVerdict ---------------------------
(***************************************************************************)
(* What a read-back concludes from the calls it makes about a final        *)
(* transaction: recordTokenIdentityFromReadBack for TOKENIZE,              *)
(* recordLifecycleReadBack for WHITELIST and MINT.                         *)
(*                                                                         *)
(* A reading gives every call, and every question put to the receipt, an   *)
(* answer: GOOD is what an operation with its effect shows, BAD is any     *)
(* other answer, FAILED none.  The decimals of MINT are not in it: a call  *)
(* that fails is replaced by 18, which is what the reviewed implementation *)
(* has.                                                                    *)
(*                                                                         *)
(* Brickken's answer is about the token (AGREES, CONTRADICTS), about       *)
(* an older token of the same symbol (OTHER), or not there in time (NONE). *)
(***************************************************************************)
EXTENDS Naturals, Sequences

ReadsOf(k) ==
    CASE k = "TOKENIZE" ->
             {"receipt", "implementation", "event", "code", "escrowCode", "decimals"}
      [] k = "WHITELIST" -> {"receipt", "recipient", "role", "log"}
      [] k = "MINT" -> {"receipt", "recipient", "balance"}

\* Questions to the receipt, which is there; the others are calls of their own.
OfTheReceipt == {"event", "recipient", "log"}

Answers == {"NONE", "AGREES", "OTHER", "CONTRADICTS"}

Checked(passed) == IF passed THEN "VERIFIED" ELSE "MISMATCH"

\* A call that fails counts like a wrong answer: READ_BACK_BINDING_UNRESOLVED.
Required(answer) == Checked(answer = "GOOD")

\* A call that fails is tried again by a later poll: READ_BACK_FAILED.
Retried(answer) == IF answer = "FAILED" THEN "RETRY" ELSE Required(answer)

\* The first check that does not pass decides.
InOrder(checks) ==
    LET open == {i \in DOMAIN checks : checks[i] # "VERIFIED"}
    IN IF open = {} THEN "VERIFIED" ELSE checks[CHOOSE i \in open : \A j \in open : i <= j]

TokenVerdictFaultRefusesOther(r, answer) ==
    InOrder(<<Retried(r["receipt"]), Retried(r["implementation"]), Required(r["event"]),
              Retried(r["code"]), Retried(r["escrowCode"]), Required(r["decimals"]),
              Checked(answer \in {"NONE", "AGREES"})>>)

\* Brickken may be late, or still have an older token of the same symbol.
TokenVerdict(r, answer) ==
    InOrder(<<Retried(r["receipt"]), Retried(r["implementation"]), Required(r["event"]),
              Retried(r["code"]), Retried(r["escrowCode"]), Required(r["decimals"]),
              Checked(answer # "CONTRADICTS")>>)

\* The role is held, or the receipt logs that it was granted.  Of Brickken's answer
\* only the symbol and the address are read, which an older token shares.
WhitelistVerdict(r, answer) ==
    InOrder(<<Retried(r["receipt"]), Required(r["recipient"]),
              Checked("GOOD" \in {r["role"], r["log"]}),
              Checked(answer # "CONTRADICTS")>>)

\* Here Brickken's answer is about the address of the token.
MintVerdict(r, answer) ==
    InOrder(<<Retried(r["receipt"]), Required(r["recipient"]), Required(r["balance"]),
              Checked(answer \in {"NONE", "AGREES"})>>)

\* VERIFIED, MISMATCH (the run ends) or RETRY.
Verdict(k, r, answer) ==
    CASE k = "TOKENIZE" -> TokenVerdict(r, answer)
      [] k = "WHITELIST" -> WhitelistVerdict(r, answer)
      [] k = "MINT" -> MintVerdict(r, answer)

=============================================================================
