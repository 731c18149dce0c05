---------------------------- MODULE ExecutionRows ----------------------------
(***************************************************************************)
(* The on-chain columns of an asset proposal, the registry row of its      *)
(* token, and the writes the finalizer, the sender and the poller make to  *)
(* them.                                                                   *)
(***************************************************************************)
EXTENDS Naturals

CONSTANTS
  Proposals,    \* asset proposals; a number is a primary key
  Tokens,       \* AssetToken rows
  TokenOf,      \* Proposal.asset_token
  Adds,         \* the ADD_ASSET proposals; the others are REMOVE_ASSET
  Tally,        \* results of counting votes
  Supply,       \* answers of the ICE supply endpoint
  Passing,      \* <<tally, supply>>: a majority for, and a quorum
  MaxTx,        \* bound on transactions sent
  MaxPolls,     \* settings.ONCHAIN_TX_MAX_POLLS
  NULL

ASSUME RowsAssumption ==
  /\ Proposals \subseteq Nat
  /\ TokenOf \in [Proposals -> Tokens]
  /\ Adds \subseteq Proposals
  /\ Passing \subseteq Tally \X Supply
  /\ MaxTx \in Nat
  /\ MaxPolls \in Nat \ {0}

(* A column without a value holds no number. *)
ASSUME NullAssumption == NULL \notin Nat

Tx == 1..MaxTx

ExecutionStatus ==
  {"PENDING", "IN_PROGRESS", "SUBMITTED", "SUCCESS", "FAILED", "REQUIRES_REVIEW", "SKIPPED"}

(* onchain_execution_started_at is kept as far as the lease is concerned;  *)
(* onchain_execution_submitted_at is set and cleared with tx_hash.         *)
Execution ==
  [status  : ExecutionStatus,
   tx_hash : Tx \cup {NULL},
   started : {NULL, "within lease", "lease over"},
   polls   : 0..MaxPolls]

TokenRow ==
  [whitelisted : BOOLEAN,
   sync        : {"SYNCED", "PENDING", "FAILED", "REQUIRES_REVIEW"},
   sync_tx     : Tx \cup {NULL}]

Result == [tally : Tally, frozen : BOOLEAN, supply : Supply]

Passes(result) == <<result.tally, result.supply>> \in Passing

-----------------------------------------------------------------------------
(* The finalizer. *)

Fresh(status) == [status |-> status, tx_hash |-> NULL, started |-> NULL, polls |-> 0]

(* Faulty variant: a proposal that is being sent counts as undecided. *)
DecidedButSending(exec) == exec.status \in {"SUCCESS", "SUBMITTED", "REQUIRES_REVIEW"}

(* A decision has been taken already, or its execution is under way. *)
Decided(exec) == exec.status \in {"SUCCESS", "IN_PROGRESS", "SUBMITTED", "REQUIRES_REVIEW"}

Untouched(exec) ==
  /\ exec.status \in {"PENDING", "FAILED", "SKIPPED"}
  /\ exec.tx_hash = NULL
  /\ exec.started = NULL
  /\ exec.polls = 0

(* Faulty variant: the token stays in sync with a contract it has left. *)
WithResultOnly(token, p) == [token EXCEPT !.whitelisted = p \in Adds]

WithResult(token, p) ==
  [token EXCEPT !.whitelisted = p \in Adds, !.sync = "PENDING", !.sync_tx = NULL]

HeldToken(token) == IF token.sync_tx = NULL THEN [token EXCEPT !.sync = "REQUIRES_REVIEW"] ELSE token

-----------------------------------------------------------------------------
(* The sender. *)

Claimable(exec) == exec.status = "PENDING" /\ exec.tx_hash = NULL

Claimed(exec) == [exec EXCEPT !.status = "IN_PROGRESS", !.started = "within lease", !.polls = 0]

Submitted(exec, tx) == [exec EXCEPT !.status = "SUBMITTED", !.tx_hash = tx, !.polls = 0]

SendFailed(exec) == [exec EXCEPT !.status = "FAILED", !.tx_hash = NULL, !.polls = 0]

LeaseOver(exec) == exec.status = "IN_PROGRESS" /\ exec.tx_hash = NULL /\ exec.started = "lease over"

InReview(exec) == [exec EXCEPT !.status = "REQUIRES_REVIEW"]

-----------------------------------------------------------------------------
(* The poller, which knows the count it read before it asked. *)

(* Faulty variant: one poll more than the setting allows. *)
ExhaustedBeyond(polls) == polls + 1 > MaxPolls

Exhausted(polls) == polls + 1 >= MaxPolls

PollFailed(exec, polls) == [exec EXCEPT !.status = "FAILED", !.polls = polls + 1]

Polled(exec, polls) ==
  [exec EXCEPT !.polls = polls + 1,
               !.status = IF Exhausted(polls) THEN "REQUIRES_REVIEW" ELSE @]
=============================================================================
