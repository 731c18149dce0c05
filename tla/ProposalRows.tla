---------------------------- MODULE ProposalRows ----------------------------
(***************************************************************************)
(* The Proposal table row and the column writes the code performs on it.   *)
(*                                                                         *)
(* Every operator here is one write of governance/models.py:Proposal as a  *)
(* request, a promotion or a verdict performs it; which write happens, and *)
(* when, is the business of the modules that have variables.               *)
(***************************************************************************)
EXTENDS Naturals

CONSTANTS
  Proposals,   \* primary keys, numbers: the payment sweep runs in id order
  Hashes,      \* canonical transaction hashes a client may present
  Contents,    \* (title, text) pairs
  Weeks,       \* voting windows, named by the number of their week
  MaxTime,     \* the clock runs over 0..MaxTime
  NULL,        \* SQL NULL
  NoHash       \* the empty string in payment_check_rejected_hash

ASSUME ProposalsAssumption == Proposals \subseteq Nat
ASSUME WeeksAssumption     == Weeks \subseteq Nat
ASSUME MaxTimeAssumption   == MaxTime \in Nat
ASSUME NullAssumption      == NULL \notin Hashes \cup Contents \cup Weeks \cup {NoHash}

Time == 0..MaxTime

ProposalStatus == {"DISCUSSION", "QUEUED", "VOTING", "VOTED", "EXPIRED"}
PendingAction  == {"TO_CREATE", "TO_UPDATE", "TO_SUBMIT"}
Action         == PendingAction \cup {"NONE"}
TerminalStatus == {"INVALID_PAYMENT", "BAD_MEMO", "FAILED_TRANSACTION"}
PaymentStatus  == TerminalStatus \cup {"FINE", "HORIZON_ERROR"}

(* The columns the promotion and the queue read or write.  title and text  *)
(* are one content; start_at and end_at are one window.                    *)
Row ==
  [proposal_status             : ProposalStatus,
   action                      : Action,
   draft                       : BOOLEAN,
   hide                        : BOOLEAN,
   payment_status              : PaymentStatus,
   payment_check_rejected_hash : Hashes \cup {NULL, NoHash},
   payment_not_found_since     : Time \cup {NULL},
   transaction_hash            : Hashes \cup {NULL},
   new_transaction_hash        : Hashes \cup {NULL},
   content                     : Contents \cup {NULL},
   new_content                 : Contents \cup {NULL},
   window                      : Weeks \cup {NULL},
   new_window                  : Weeks \cup {NULL},
   last_updated_at             : Time]

(* A resolved transition: what transitions.py freezes from a row before    *)
(* the Horizon round trip.  For TO_SUBMIT content is legacy_text_html.     *)
Transition ==
  [action   : PendingAction,
   proposal : Proposals,
   hash     : Hashes \cup {NULL},
   content  : Contents \cup {NULL},
   window   : Weeks \cup {NULL}]

-----------------------------------------------------------------------------
(* CreateTransition.from_proposal, UpdateTransition.resolve and            *)
(* SubmitTransition.resolve, picked by _dispatch on the row's action.      *)
Resolve(p, row) ==
  [action   |-> row.action,
   proposal |-> p,
   hash     |-> IF row.action = "TO_CREATE" THEN row.transaction_hash
                                            ELSE row.new_transaction_hash,
   content  |-> IF row.action = "TO_UPDATE" THEN row.new_content ELSE row.content,
   window   |-> IF row.action = "TO_SUBMIT" THEN row.new_window ELSE NULL]

(* matches_locked / matches_staged: the fingerprint of the transition is   *)
(* still the one the row stages.  A submit compares its window only.       *)
Matches(t, row) ==
  LET now == Resolve(t.proposal, [row EXCEPT !.action = t.action])
  IN  /\ t.hash = now.hash
      /\ t.window = now.window
      /\ t.action # "TO_SUBMIT" => t.content = now.content

-----------------------------------------------------------------------------
(* Staging.  advisory is the payment status inspect_envelope reads off the *)
(* unsigned envelope the client sent.                                      *)

(* ProposalCreateSerializer.create and AssetProposalCreateSerializer.create. *)
Draft(t, advisory, now) ==
  [proposal_status             |-> "DISCUSSION",
   action                      |-> "TO_CREATE",
   draft                       |-> TRUE,
   hide                        |-> FALSE,
   payment_status              |-> advisory,
   payment_check_rejected_hash |-> NULL,
   payment_not_found_since     |-> NULL,
   transaction_hash            |-> t.hash,
   new_transaction_hash        |-> NULL,
   content                     |-> t.content,
   new_content                 |-> NULL,
   window                      |-> NULL,
   new_window                  |-> NULL,
   last_updated_at             |-> now]

(* Faulty variant: the new content is published by the request. *)
StagedUpdatePublishes(row, t, advisory) ==
  [row EXCEPT !.action = "TO_UPDATE",
              !.payment_status = advisory,
              !.payment_check_rejected_hash = NULL,
              !.payment_not_found_since = NULL,
              !.new_transaction_hash = t.hash,
              !.content = t.content,
              !.new_content = t.content]

(* ProposalUpdateSerializer.update: the staged columns over the instance   *)
(* the request read, every column of which is then saved.                  *)
StagedUpdate(row, t, advisory) ==
  [row EXCEPT !.action = "TO_UPDATE",
              !.payment_status = advisory,
              !.payment_check_rejected_hash = NULL,
              !.payment_not_found_since = NULL,
              !.new_transaction_hash = t.hash,
              !.new_content = t.content]

(* Faulty variant: the window is booked by the request that stages it. *)
StagedSubmitBooks(row, t, advisory) ==
  [row EXCEPT !.action = "TO_SUBMIT",
              !.payment_status = advisory,
              !.payment_check_rejected_hash = NULL,
              !.payment_not_found_since = NULL,
              !.new_transaction_hash = t.hash,
              !.window = t.window,
              !.new_window = t.window]

(* SubmitSerializer.update, over the row it re-read under the lock.        *)
StagedSubmit(row, t, advisory) ==
  [row EXCEPT !.action = "TO_SUBMIT",
              !.payment_status = advisory,
              !.payment_check_rejected_hash = NULL,
              !.payment_not_found_since = NULL,
              !.new_transaction_hash = t.hash,
              !.new_window = t.window]

-----------------------------------------------------------------------------
(* Promotion.                                                              *)

(* The create branches: an asset proposal also moves last_updated_at.      *)
ConfirmedCreate(row, isAsset, now) ==
  [row EXCEPT !.draft = FALSE,
              !.action = "NONE",
              !.payment_status = "FINE",
              !.payment_check_rejected_hash = NULL,
              !.payment_not_found_since = NULL,
              !.last_updated_at = IF isAsset THEN now ELSE @]

(* _apply_update_confirmation. *)
ConfirmedUpdate(row, t, now) ==
  [row EXCEPT !.payment_status = "FINE",
              !.payment_check_rejected_hash = NULL,
              !.payment_not_found_since = NULL,
              !.last_updated_at = now,
              !.content = t.content,
              !.transaction_hash = t.hash,
              !.action = "NONE",
              !.new_content = NULL,
              !.new_transaction_hash = NULL]

(* _apply_submit_confirmation. *)
ConfirmedSubmit(row, t, status, now) ==
  [row EXCEPT !.payment_status = "FINE",
              !.payment_check_rejected_hash = NULL,
              !.payment_not_found_since = NULL,
              !.window = t.window,
              !.proposal_status = status,
              !.last_updated_at = now,
              !.transaction_hash = t.hash,
              !.action = "NONE",
              !.new_window = NULL,
              !.new_transaction_hash = NULL]

-----------------------------------------------------------------------------
(* Verdicts that apply nothing.                                            *)

(* _rejection_marker: a missing hash is recorded as the empty string.      *)
RejectionMarker(hash) == IF hash = NULL THEN NoHash ELSE hash

(* Faulty variant: the retired row stays visible. *)
RetiredInSight(row) == [row EXCEPT !.draft = FALSE, !.action = "NONE"]

(* _terminal_create_fields: a rejected creation is retired. *)
Retired(row) == [row EXCEPT !.draft = FALSE, !.action = "NONE", !.hide = TRUE]

(* Faulty variant: the UPDATE is not filtered on the expected action. *)
VerdictLandsAnywhere(row, t) == row.payment_check_rejected_hash # RejectionMarker(t.hash)

(* The row count of the conditional UPDATE in _persist_terminal_verdict.   *)
(* Its exclude() keeps a row whose marker is NULL.                         *)
VerdictLands(row, t) ==
  /\ row.action = t.action
  /\ row.payment_check_rejected_hash # RejectionMarker(t.hash)

(* _persist_terminal_verdict, with the extra fields of a creation. *)
WithTerminalVerdict(row, t, status) ==
  LET rejected == [row EXCEPT !.payment_status = status,
                              !.payment_check_rejected_hash = RejectionMarker(t.hash)]
  IN  IF ~VerdictLands(row, t) THEN row
      ELSE IF t.action = "TO_CREATE" THEN Retired(rejected)
      ELSE rejected

(* Faulty variant: the reason is stored in place of the status. *)
WithRetryableReason(row, t, notFound, now) ==
  IF row.action # t.action THEN row
  ELSE [row EXCEPT !.payment_status = IF notFound THEN "NOT_FOUND" ELSE "HORIZON_ERROR",
                   !.payment_not_found_since = IF notFound /\ @ = NULL THEN now ELSE @]

(* _persist_retryable_verdict: "not found" starts the clock once. *)
WithRetryableVerdict(row, t, notFound, now) ==
  IF row.action # t.action THEN row
  ELSE [row EXCEPT !.payment_status = "HORIZON_ERROR",
                   !.payment_not_found_since = IF notFound /\ @ = NULL THEN now ELSE @]

(* _mark_submit_retry_state, and the asset-conflict branch of a creation:  *)
(* the payment is confirmed but cannot be applied yet.                     *)
AwaitingRetry(row) ==
  [row EXCEPT !.payment_status = "FINE", !.payment_not_found_since = NULL]

(* rearm_proposal_payment_check, by an operator's hand. *)
Rearmed(row, action, unhide) ==
  [row EXCEPT !.action = action,
              !.payment_status = "FINE",
              !.payment_check_rejected_hash = NULL,
              !.payment_not_found_since = NULL,
              !.hide = IF unhide THEN FALSE ELSE @]
=============================================================================
