------------------------ MODULE PaymentVerification ------------------------
(***************************************************************************)
(* What one settled Stellar transaction authorises: utils/payments.py and  *)
(* utils/memo.py, reduced to the facts a verdict depends on.               *)
(*                                                                         *)
(* A memo is a digest, so it is modelled by the tuple it commits to: two   *)
(* memos are equal exactly when their preimages are.                       *)
(***************************************************************************)
EXTENDS ProposalRows

CONSTANTS
  Payments,           \* transactions that may settle on the network
  PaymentOf,          \* the transaction a hash names; a fee-bumped one has two hashes
  PaymentInfo,        \* [successful, operations, memo] of every transaction
  ProposedBy,         \* the owner account of every proposal
  AssetOf,            \* the asset contract of an asset proposal, NULL for GENERAL
  TitleOf, TextOf,    \* the two halves of a content
  LegacyMemoAccepted  \* settings.PROPOSAL_LEGACY_MEMO_ACCEPTED

ASSUME PaymentOfAssumption == PaymentOf \in [Hashes -> Payments]

(* The exact amount a transition costs: PROPOSAL_SUBMIT_COST for a submit, *)
(* PROPOSAL_CREATE_OR_UPDATE_COST otherwise.                               *)
Cost(t) == IF t.action = "TO_SUBMIT" THEN "SUBMIT_COST" ELSE "CREATE_OR_UPDATE_COST"

IsAsset(p) == AssetOf[p] # NULL

(* create_memo_payload, update_memo_payload and submit_memo_payload: a     *)
(* creation is named by its owner, the others by the proposal id.          *)
CanonicalMemo(t) ==
  CASE t.action = "TO_CREATE" -> <<"CREATE", ProposedBy[t.proposal], IsAsset(t.proposal), t.content>>
    [] t.action = "TO_UPDATE" -> <<"UPDATE", t.proposal, t.content>>
    [] t.action = "TO_SUBMIT" -> <<"SUBMIT", t.proposal, t.window>>

(* legacy_memo_digest: the text and nothing else, so one legacy payment    *)
(* matches several transitions.                                            *)
LegacyMemo(text) == <<"LEGACY", text>>

(* match_memo over MemoExpectation.accepted. *)
MemoMatches(t, memo) ==
  \/ memo = CanonicalMemo(t)
  \/ /\ LegacyMemoAccepted
     /\ t.content # NULL
     /\ memo = LegacyMemo(TextOf[t.content])

(* _find_matching_payment_operation: one operation burns the exact amount  *)
(* from the proposal's owner.                                              *)
PaysFor(t, info) == [from |-> ProposedBy[t.proposal], amount |-> Cost(t)] \in info.operations

(* The terminal verdict on a transaction Horizon has found, in the order   *)
(* verify_payment reaches it.                                              *)
Verdict(t) ==
  LET info == PaymentInfo[PaymentOf[t.hash]]
  IN  CASE ~info.successful -> "FAILED_TRANSACTION"
        [] info.successful /\ ~PaysFor(t, info) -> "INVALID_PAYMENT"
        [] info.successful /\ PaysFor(t, info) /\ ~MemoMatches(t, info.memo) -> "BAD_MEMO"
        [] OTHER -> "FINE"

(* The transition is one its payment was made for. *)
Authorised(t) == t.hash \in Hashes /\ Verdict(t) = "FINE"

(* verify_payment's answers: PaymentStatus, with HORIZON_ERROR split by    *)
(* its reason.                                                             *)
Answers == TerminalStatus \cup {"FINE", "NOT_FOUND", "UNREACHABLE"}

(* What Horizon may answer about t while the transactions in settled are   *)
(* on chain.  An outage can hide any of them, and the operations of one    *)
(* that was found may be unknown by the time they are asked for.           *)
HorizonAnswers(t, settled) ==
  LET pay == PaymentOf[t.hash]
  IN  {"UNREACHABLE"}
        \cup (IF pay \in settled THEN {Verdict(t)} ELSE {})
        \cup (IF pay \in settled /\ ~PaymentInfo[pay].successful THEN {} ELSE {"NOT_FOUND"})

(* Faulty variant: the twin hash of a fee-bumped payment is forgotten. *)
PresentedHashOnly(hash) == {hash}

(* _resolved_hashes: every hash under which Horizon resolves the payment. *)
ResolvedHashes(hash) == {h \in Hashes : PaymentOf[h] = PaymentOf[hash]}
=============================================================================
