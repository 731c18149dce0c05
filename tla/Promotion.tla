----------------------------- MODULE Promotion -----------------------------
(***************************************************************************)
(* Staging a paid transition, checking its payment and applying it.        *)
(*                                                                         *)
(* Web requests and the beat sweep are processes.  Each database           *)
(* transaction of the code is one action, because it holds the row (and on *)
(* the submit and asset paths the advisory lock) from its first read to    *)
(* its commit; a step ends where the code leaves the database: to answer   *)
(* the client, to ask Horizon, or to open a further transaction.           *)
(***************************************************************************)
EXTENDS PaymentVerification, QueueSlots, Sequences

CONSTANTS
  Web,               \* web workers
  Sweep,             \* the beat process of task_check_pending_proposal_payments
  DiscussionTime,    \* settings.DISCUSSION_TIME in ticks
  NotFoundTimeout,   \* settings.PROPOSAL_PAYMENT_NOT_FOUND_TIMEOUT in ticks
  Genesis,           \* creations confirmed before the model starts
  Endpoints,         \* the staging endpoints clients use, a set of actions
  Advisory,          \* what inspect_envelope says of the envelopes they send
  RearmActions       \* <<action, unhide>> pairs an operator re-arms with

ASSUME SweepAssumption   == Sweep \notin Web
ASSUME TimesAssumption   == DiscussionTime \in Nat /\ NotFoundTimeout \in Nat
ASSUME InputsAssumption  ==
  /\ Endpoints \subseteq PendingAction
  /\ Advisory \subseteq {"FINE", "INVALID_PAYMENT", "BAD_MEMO"}
  /\ RearmActions \subseteq Action \X BOOLEAN
ASSUME GenesisAssumption ==
  /\ Genesis \in Seq(Transition)
  /\ \A i \in 1..Len(Genesis) : Genesis[i].action = "TO_CREATE" /\ Authorised(Genesis[i])
  /\ \A i, j \in 1..Len(Genesis) : i # j =>
       /\ Genesis[i].proposal # Genesis[j].proposal
       /\ PaymentOf[Genesis[i].hash] # PaymentOf[Genesis[j].hash]

VARIABLES
  existing,  \* the proposals INSERTed so far
  rows,      \* the Proposal table
  slots,     \* the ProposalQueueSlot table
  history,   \* HistoryProposal.transaction_hash, a unique column
  ledger,    \* ConsumedTransaction.transaction_hash, a unique column
  settled,   \* the payments on chain
  now,
  jobs,      \* what every process is doing
  applied    \* history variable: the transitions applied, in order

tables == <<existing, rows, slots, history, ledger, applied>>
vars   == <<existing, rows, slots, history, ledger, settled, now, jobs, applied>>

Processes == Web \cup {Sweep}

(* A process between two steps.  row is the instance an update request     *)
(* read; todo are the transitions of the rows the sweep has yet to check.  *)
Job ==
  [pc      : {"idle", "staging", "verifying", "applying", "refusing"},
   current : Transition \cup {NULL},
   todo    : SUBSET Transition,
   answer  : Answers \cup {NULL},
   retried : BOOLEAN,
   row     : Row \cup {NULL}]

IdleJob ==
  [pc |-> "idle", current |-> NULL, todo |-> {}, answer |-> NULL, retried |-> FALSE, row |-> NULL]

StagingJob(t, row) == [IdleJob EXCEPT !.pc = "staging", !.current = t, !.row = row]
CheckJob(t, rest)  == [IdleJob EXCEPT !.pc = "verifying", !.current = t, !.todo = rest]

AbsentRow == Draft([hash |-> NULL, content |-> NULL], "FINE", 0)

GenesisRow(t) == ConfirmedCreate(Draft(t, "FINE", 0), FALSE, 0)

Init ==
  /\ existing = {Genesis[i].proposal : i \in 1..Len(Genesis)}
  /\ rows = [p \in Proposals |->
               IF p \in existing
               THEN GenesisRow(CHOOSE t \in {Genesis[i] : i \in 1..Len(Genesis)} : t.proposal = p)
               ELSE AbsentRow]
  /\ slots = [p \in Proposals |-> NULL]
  /\ history = {}
  /\ ledger = UNION {ResolvedHashes(Genesis[i].hash) : i \in 1..Len(Genesis)}
  /\ settled = {PaymentOf[h] : h \in ledger}
  /\ now = 0
  /\ jobs = [w \in Processes |-> IdleJob]
  /\ applied = Genesis

-----------------------------------------------------------------------------
(* The world: payments settle, time passes.                                *)

Settle(pay) ==
  /\ pay \notin settled
  /\ settled' = settled \cup {pay}
  /\ UNCHANGED <<tables, now, jobs>>

Tick ==
  /\ now < MaxTime
  /\ now' = now + 1
  /\ UNCHANGED <<tables, settled, jobs>>

-----------------------------------------------------------------------------
(* Staging requests.  The validators read without a lock, so a request is  *)
(* two steps: the reads, and the write.                                    *)

HashInUse(h, p)    == \E q \in existing \ {p} : rows[q].transaction_hash = h
NewHashInUse(h, p) == \E q \in existing \ {p} : rows[q].new_transaction_hash = h

(* _hash_unique_validator on the hash column and _reject_hash_already_seen *)
(* on the other column, whose lookup spans the proposal's own row.         *)
HashUnseen(h, p) ==
  /\ ~NewHashInUse(h, p)
  /\ \A q \in existing : rows[q].transaction_hash # h
  /\ h \notin ledger

(* validate_no_matching_pending_create. *)
PendingTwin(p, c) ==
  \E q \in existing :
    /\ ProposedBy[q] = ProposedBy[p]
    /\ IsAsset(q) = IsAsset(p)
    /\ TitleOf[rows[q].content] = TitleOf[c]
    /\ rows[q].draft /\ ~rows[q].hide
    /\ rows[q].action = "TO_CREATE"
    /\ rows[q].payment_status = "FINE"

Start(w, job) ==
  /\ jobs[w] = IdleJob
  /\ jobs' = [jobs EXCEPT ![w] = job]
  /\ UNCHANGED <<tables, settled, now>>

BeginCreate(w, p, h, c) ==
  /\ "TO_CREATE" \in Endpoints
  /\ p \notin existing
  /\ \A v \in Web : jobs[v].pc = "staging" => jobs[v].current.proposal # p
  /\ HashUnseen(h, p)
  /\ ~PendingTwin(p, c)
  /\ ~AssetConflict(rows, existing, AssetOf, p)
  /\ Start(w, StagingJob([action |-> "TO_CREATE", proposal |-> p, hash |-> h,
                          content |-> c, window |-> NULL], NULL))

(* ProposalViewSet.get_queryset for a request that writes. *)
Editable(p) ==
  /\ p \in existing
  /\ ~rows[p].hide
  /\ ~rows[p].draft
  /\ rows[p].proposal_status = "DISCUSSION"

BeginUpdate(w, p, h, c) ==
  /\ "TO_UPDATE" \in Endpoints
  /\ Editable(p)
  /\ HashUnseen(h, p)
  /\ Start(w, StagingJob([action |-> "TO_UPDATE", proposal |-> p, hash |-> h,
                          content |-> c, window |-> NULL], rows[p]))

BeginSubmit(w, p, h, window) ==
  /\ "TO_SUBMIT" \in Endpoints
  /\ Editable(p)
  /\ rows[p].action = "TO_SUBMIT" \/ rows[p].last_updated_at + DiscussionTime <= now
  /\ HashUnseen(h, p)
  /\ ValidWindow(window, now, FALSE)
  /\ ~AssetConflict(rows, existing, AssetOf, p)
  /\ ~SlotConflict(rows, slots, window, p)
  /\ Start(w, StagingJob([action |-> "TO_SUBMIT", proposal |-> p, hash |-> h,
                          content |-> NULL, window |-> window], NULL))

(* The process has nothing left of this request. *)
Drop(w) == jobs' = [jobs EXCEPT ![w] = IdleJob]

(* The INSERT, or an IntegrityError when the hash was taken meanwhile. *)
CommitCreate(w) ==
  LET t == jobs[w].current
  IN  /\ jobs[w].pc = "staging"
      /\ t.action = "TO_CREATE"
      /\ IF HashInUse(t.hash, t.proposal)
         THEN UNCHANGED <<existing, rows>>
         ELSE /\ existing' = existing \cup {t.proposal}
              /\ \E advisory \in Advisory :
                   rows' = [rows EXCEPT ![t.proposal] = Draft(t, advisory, now)]
      /\ Drop(w)
      /\ UNCHANGED <<slots, history, ledger, settled, now, applied>>

(* instance.save() writes every column of the instance read by the first   *)
(* step, the ones this request did not stage included.                     *)
CommitUpdate(w) ==
  LET t == jobs[w].current
  IN  /\ jobs[w].pc = "staging"
      /\ t.action = "TO_UPDATE"
      /\ IF \/ NewHashInUse(t.hash, t.proposal)
            \/ HashInUse(jobs[w].row.transaction_hash, t.proposal)
         THEN UNCHANGED rows
         ELSE \E advisory \in Advisory :
                rows' = [rows EXCEPT ![t.proposal] = StagedUpdate(jobs[w].row, t, advisory)]
      /\ Drop(w)
      /\ UNCHANGED <<existing, slots, history, ledger, settled, now, applied>>

(* Under the advisory lock and the row lock the conflicts are checked      *)
(* again; proposal_status and action are not.                              *)
CommitSubmit(w) ==
  LET t == jobs[w].current
  IN  /\ jobs[w].pc = "staging"
      /\ t.action = "TO_SUBMIT"
      /\ IF \/ AssetConflict(rows, existing, AssetOf, t.proposal)
            \/ SlotConflict(rows, slots, t.window, t.proposal)
            \/ NewHashInUse(t.hash, t.proposal)
         THEN UNCHANGED rows
         ELSE \E advisory \in Advisory :
                rows' = [rows EXCEPT ![t.proposal] = StagedSubmit(@, t, advisory)]
      /\ Drop(w)
      /\ UNCHANGED <<existing, slots, history, ledger, settled, now, applied>>

-----------------------------------------------------------------------------
(* Checking a payment.                                                     *)

(* check_proposal_payment: any visible pending row, drafts included. *)
StartCheck(w, p) ==
  /\ p \in existing
  /\ ~rows[p].hide
  /\ rows[p].proposal_status # "EXPIRED"
  /\ rows[p].action # "NONE"
  /\ Start(w, CheckJob(Resolve(p, rows[p]), {}))

(* Faulty variant: SQL compares a row that was never rejected to NULL and  *)
(* leaves it out.                                                          *)
SweepRejectedOnly(p) ==
  /\ p \in existing
  /\ ~rows[p].hide
  /\ rows[p].action # "NONE"
  /\ rows[p].payment_check_rejected_hash # NULL

(* The sweep's query. *)
SweepEligible(p) ==
  LET row == rows[p]
      pending == IF row.action = "TO_CREATE" THEN row.transaction_hash
                                             ELSE row.new_transaction_hash
  IN  /\ p \in existing
      /\ ~row.hide
      /\ row.action # "NONE"
      /\ pending = NULL \/ pending # row.payment_check_rejected_hash
      /\ row.payment_not_found_since = NULL \/ row.payment_not_found_since + NotFoundTimeout > now

IsFirst(t, todo) == t \in todo /\ \A u \in todo : t.proposal <= u.proposal

(* One sweep at a time, because of the session lock; it reads its rows     *)
(* once, at the start.                                                     *)
StartSweep ==
  LET found == {Resolve(p, rows[p]) : p \in {q \in existing : SweepEligible(q)}}
  IN  \E t \in found : IsFirst(t, found) /\ Start(Sweep, CheckJob(t, found \ {t}))

(* check_transaction returned or raised: the sweep goes on to its next row. *)
Finish(w) ==
  IF jobs[w].todo = {} THEN Drop(w)
  ELSE \E t \in jobs[w].todo :
         /\ IsFirst(t, jobs[w].todo)
         /\ jobs' = [jobs EXCEPT ![w] = CheckJob(t, @.todo \ {t})]

(* verify_payment. *)
AskHorizon(w) ==
  /\ jobs[w].pc = "verifying"
  /\ jobs[w].current.hash # NULL
  /\ \E answer \in HorizonAnswers(jobs[w].current, settled) :
       jobs' = [jobs EXCEPT ![w].pc = "applying", ![w].answer = answer]
  /\ UNCHANGED <<tables, settled, now>>

(* A write to the row of t that applies no transition. *)
WriteVerdict(w, row) ==
  /\ rows' = [rows EXCEPT ![jobs[w].current.proposal] = row]
  /\ Finish(w)
  /\ UNCHANGED <<existing, slots, history, ledger, settled, now, applied>>

(* _reject_unusable_transaction_hash: no hash, so Horizon is not asked. *)
RejectUnusableHash(w) ==
  LET t == jobs[w].current
  IN  /\ jobs[w].pc = "verifying"
      /\ t.hash = NULL
      /\ WriteVerdict(w, WithTerminalVerdict(rows[t.proposal], t, "INVALID_PAYMENT"))

Answered(w, answers) == jobs[w].pc = "applying" /\ jobs[w].answer \in answers

(* _reject_payment: one UPDATE, filtered on the action alone. *)
RejectPayment(w) ==
  LET t == jobs[w].current
      row == rows[t.proposal]
      answer == jobs[w].answer
  IN  \/ /\ Answered(w, {"NOT_FOUND", "UNREACHABLE"})
         /\ WriteVerdict(w, WithRetryableVerdict(row, t, answer = "NOT_FOUND", now))
      \/ /\ Answered(w, TerminalStatus)
         /\ ~(t.action = "TO_CREATE" /\ IsAsset(t.proposal))
         /\ WriteVerdict(w, WithTerminalVerdict(row, t, answer))

(* Faulty variant: I-5 without the fingerprint. *)
StillPending(t) == rows[t.proposal].action = t.action

(* The row still awaits exactly the transition that was verified. *)
StillStaged(t) == rows[t.proposal].action = t.action /\ Matches(t, rows[t.proposal])

(* _apply_asset_create_transaction with a terminal verdict: under the row  *)
(* lock, and only on the copy that was verified.                           *)
RejectAssetCreate(w) ==
  LET t == jobs[w].current
      row == rows[t.proposal]
  IN  /\ Answered(w, TerminalStatus)
      /\ t.action = "TO_CREATE"
      /\ IsAsset(t.proposal)
      /\ WriteVerdict(w,
           IF StillStaged(t)
           THEN [Retired(row) EXCEPT !.last_updated_at = now,
                                     !.payment_check_rejected_hash = RejectionMarker(t.hash),
                                     !.payment_status = jobs[w].answer]
           ELSE row)

-----------------------------------------------------------------------------
(* Applying a confirmed transition.                                        *)

(* The window closed during its own last second: the submit is applied as  *)
(* EXPIRED and books nothing.                                              *)
WindowOver(t) == EndAt(t.window) <= now

(* Faulty variant: a submit asks for its week again, not for its asset.    *)
MustWaitForSlot(t) ==
  CASE t.action = "TO_CREATE" -> AssetConflict(rows, existing, AssetOf, t.proposal)
    [] t.action = "TO_UPDATE" -> FALSE
    [] t.action = "TO_SUBMIT" ->
         \/ ~ValidWindow(t.window, now, TRUE)
         \/ ~WindowOver(t) /\ SlotConflict(rows, slots, t.window, t.proposal)

(* A confirmed payment that cannot be applied yet. *)
MustWait(t) ==
  CASE t.action = "TO_CREATE" -> AssetConflict(rows, existing, AssetOf, t.proposal)
    [] t.action = "TO_UPDATE" -> FALSE
    [] t.action = "TO_SUBMIT" ->
         \/ ~ValidWindow(t.window, now, TRUE)
         \/ /\ ~WindowOver(t)
            /\ \/ AssetConflict(rows, existing, AssetOf, t.proposal)
               \/ SlotConflict(rows, slots, t.window, t.proposal)

(* Faulty variant: the claim is made before the row is checked again, and  *)
(* commits.                                                                *)
SkipButBurn(w) ==
  LET t == jobs[w].current
  IN  /\ Answered(w, {"FINE"})
      /\ ~StillStaged(t) \/ (t.action = "TO_SUBMIT" /\ t.window = NULL)
      /\ Finish(w)
      /\ ledger' = ledger \cup ResolvedHashes(t.hash)
      /\ UNCHANGED <<existing, rows, slots, history, applied, settled, now>>

(* "skipped", "stale_transition" and "missing_submit_window": nothing is   *)
(* written.                                                                *)
SkipPromotion(w) ==
  LET t == jobs[w].current
  IN  /\ Answered(w, {"FINE"})
      /\ ~StillStaged(t) \/ (t.action = "TO_SUBMIT" /\ t.window = NULL)
      /\ Finish(w)
      /\ UNCHANGED <<tables, settled, now>>

Confirmed(w) ==
  LET t == jobs[w].current
  IN  /\ Answered(w, {"FINE"})
      /\ StillStaged(t)
      /\ t.action = "TO_SUBMIT" => t.window # NULL

DeferPromotion(w) ==
  LET t == jobs[w].current
  IN  /\ Confirmed(w)
      /\ MustWait(t)
      /\ WriteVerdict(w, AwaitingRetry(rows[t.proposal]))

(* The writes of t would break a unique column: the history row's hash, or *)
(* the hash the promotion moves into transaction_hash.                     *)
BreaksUniqueness(t) ==
  /\ t.action # "TO_CREATE"
  /\ \/ rows[t.proposal].transaction_hash \in history
     \/ HashInUse(t.hash, t.proposal)

Writable(w) ==
  LET t == jobs[w].current IN Confirmed(w) /\ ~MustWait(t) /\ ~BreaksUniqueness(t)

(* IntegrityError: everything rolls back, an operator is alerted and the   *)
(* row stays pending.                                                      *)
FailPromotion(w) ==
  LET t == jobs[w].current
  IN  /\ Confirmed(w)
      /\ ~MustWait(t)
      /\ BreaksUniqueness(t)
      /\ Finish(w)
      /\ UNCHANGED <<tables, settled, now>>

(* Faulty variant: staging is trusted to have refused spent payments. *)
TrustedUnspent(t) == TRUE

(* claim_transaction_hashes finds none of them in the ledger. *)
Unspent(t) == ResolvedHashes(t.hash) \cap ledger = {}

(* The claim, the last statement of the promoting transaction. *)
Claim(t) ==
  /\ ledger' = ledger \cup ResolvedHashes(t.hash)
  /\ applied' = Append(applied, t)

(* Faulty variant: no history row is written. *)
NothingArchived(t) == {}

(* The hash a confirmed update or submit moves to the history table. *)
Archived(t) == {rows[t.proposal].transaction_hash} \ {NULL}

ApplyCreate(t) ==
  /\ t.action = "TO_CREATE"
  /\ rows' = [rows EXCEPT ![t.proposal] = ConfirmedCreate(@, IsAsset(t.proposal), now)]
  /\ UNCHANGED <<slots, history>>

ApplyUpdate(t) ==
  /\ t.action = "TO_UPDATE"
  /\ history' = history \cup Archived(t)
  /\ rows' = [rows EXCEPT ![t.proposal] = ConfirmedUpdate(@, t, now)]
  /\ UNCHANGED slots

(* _resolve_submit_proposal_status. *)
SubmitStatus(t) ==
  IF WindowOver(t) THEN "EXPIRED" ELSE IF StartAt(t.window) > now THEN "QUEUED" ELSE "VOTING"

ApplySubmit(t) ==
  LET row == ConfirmedSubmit(rows[t.proposal], t, SubmitStatus(t), now)
  IN  /\ t.action = "TO_SUBMIT"
      /\ history' = history \cup Archived(t)
      /\ rows' = [rows EXCEPT ![t.proposal] = row]
      /\ slots' = IF WindowOver(t) THEN slots ELSE SyncQueueSlot(rows', slots, t.proposal)

Promoted(w) ==
  /\ Writable(w)
  /\ Unspent(jobs[w].current)
  /\ Claim(jobs[w].current)
  /\ Finish(w)
  /\ UNCHANGED <<existing, settled, now>>

PromoteCreate(w) == Promoted(w) /\ ApplyCreate(jobs[w].current)
PromoteUpdate(w) == Promoted(w) /\ ApplyUpdate(jobs[w].current)
PromoteSubmit(w) == Promoted(w) /\ ApplySubmit(jobs[w].current)

(* TransactionAlreadyConsumedError.  A create or an update has rolled back *)
(* before it records the refusal, in a transaction of its own; a submit    *)
(* records it inside the transaction that holds the locks.                 *)
RollBackSpent(w) ==
  LET t == jobs[w].current
  IN  /\ Writable(w)
      /\ t.action # "TO_SUBMIT"
      /\ ~Unspent(t)
      /\ jobs' = [jobs EXCEPT ![w].pc = "refusing"]
      /\ UNCHANGED <<tables, settled, now>>

RefuseSpent(w) ==
  LET t == jobs[w].current
  IN  /\ \/ jobs[w].pc = "refusing"
         \/ Writable(w) /\ t.action = "TO_SUBMIT" /\ ~Unspent(t)
      /\ WriteVerdict(w, WithTerminalVerdict(rows[t.proposal], t, "INVALID_PAYMENT"))

-----------------------------------------------------------------------------
(* Failures.                                                               *)

(* Faulty variant: the retry reads the row again but keeps the verdict. *)
DeadlockRereads(w) ==
  LET p == jobs[w].current.proposal
  IN  /\ Answered(w, {"FINE"})
      /\ rows[p].action # "NONE"
      /\ IF jobs[w].retried
         THEN Finish(w)
         ELSE jobs' = [jobs EXCEPT ![w].current = Resolve(p, rows[p]), ![w].retried = TRUE]
      /\ UNCHANGED <<tables, settled, now>>

(* A deadlock kills a promoting transaction.  check_transaction dispatches *)
(* the same instance once more, and lets a second deadlock escape.         *)
Deadlock(w) ==
  /\ Answered(w, {"FINE"})
  /\ IF jobs[w].retried
     THEN Finish(w)
     ELSE jobs' = [jobs EXCEPT ![w].pc = "verifying", ![w].answer = NULL, ![w].retried = TRUE]
  /\ UNCHANGED <<tables, settled, now>>

(* The process dies between two steps; the sweep's session lock goes with  *)
(* its session.                                                            *)
Crash(w) ==
  /\ jobs[w] # IdleJob
  /\ Drop(w)
  /\ UNCHANGED <<tables, settled, now>>

(* rearm_proposal_payment_check. *)
Rearm(p, action, unhide) ==
  /\ p \in existing
  /\ rows' = [rows EXCEPT ![p] = Rearmed(@, action, unhide)]
  /\ UNCHANGED <<existing, slots, history, ledger, settled, now, jobs, applied>>

-----------------------------------------------------------------------------
Stage(w) ==
  \/ \E p \in Proposals, h \in Hashes, c \in Contents :
       BeginCreate(w, p, h, c) \/ BeginUpdate(w, p, h, c)
  \/ \E p \in Proposals, h \in Hashes, window \in Weeks : BeginSubmit(w, p, h, window)
  \/ CommitCreate(w)
  \/ CommitUpdate(w)
  \/ CommitSubmit(w)

Promote(w) ==
  \/ PromoteCreate(w)
  \/ PromoteUpdate(w)
  \/ PromoteSubmit(w)

Check(w) ==
  \/ AskHorizon(w)
  \/ RejectUnusableHash(w)
  \/ RejectPayment(w)
  \/ RejectAssetCreate(w)
  \/ SkipPromotion(w)
  \/ DeferPromotion(w)
  \/ FailPromotion(w)
  \/ Promote(w)
  \/ RollBackSpent(w)
  \/ RefuseSpent(w)

Next ==
  \/ \E pay \in Payments : Settle(pay)
  \/ Tick
  \/ \E w \in Web : Stage(w)
  \/ \E w \in Web, p \in Proposals : StartCheck(w, p)
  \/ StartSweep
  \/ \E w \in Processes : Check(w) \/ Deadlock(w) \/ Crash(w)
  \/ \E p \in Proposals, r \in RearmActions : Rearm(p, r[1], r[2])

Spec == Init /\ [][Next]_vars

(* Celery beat starts a sweep every minute, and a sweep runs on unless it  *)
(* is interrupted: its process dies, its transaction deadlocks, or Horizon *)
(* cannot be reached or does not know a settled payment in full.  That may *)
(* happen any number of times, but not forever.  Web clients, operators    *)
(* and the clock owe nothing.                                              *)
Interrupted ==
  \/ (Crash(Sweep) \/ Deadlock(Sweep)) /\ ~Check(Sweep)
  \/ /\ AskHorizon(Sweep)
     /\ \/ jobs'[Sweep].answer = "UNREACHABLE"
        \/ jobs'[Sweep].answer = "NOT_FOUND" /\ PaymentOf[jobs[Sweep].current.hash] \in settled

Fairness ==
  /\ WF_vars(StartSweep)
  /\ WF_vars(Check(Sweep))
  /\ <>[][~Interrupted]_vars

FairSpec == Spec /\ Fairness

-----------------------------------------------------------------------------
(* Properties.                                                             *)

(* Every variable ranges over the values the tables and the workers hold.  *)
TypeOK ==
  /\ existing \subseteq Proposals
  /\ rows \in [Proposals -> Row]
  /\ slots \in [Proposals -> Weeks \cup {NULL}]
  /\ history \subseteq Hashes
  /\ ledger \subseteq Hashes
  /\ settled \subseteq Payments
  /\ now \in Time
  /\ jobs \in [Processes -> Job]
  /\ applied \in Seq(Transition)

(* One payment authorises one transition, whichever of its hashes, rows,   *)
(* purposes or workers it is presented through.                            *)
SingleUse ==
  \A i, j \in DOMAIN applied :
    PaymentOf[applied[i].hash] = PaymentOf[applied[j].hash] => i = j

(* I-2: the ledger holds exactly the hashes under which the payments of    *)
(* the applied transitions resolve.  A refusal, a rollback, a crash or a   *)
(* stale verdict burns nothing.                                            *)
BurnedIffApplied == ledger = UNION {ResolvedHashes(applied[i].hash) : i \in DOMAIN applied}

(* What was applied is what was paid for: the settled payment verifies     *)
(* against the very values the promotion wrote.                            *)
AppliedAuthorised ==
  \A i \in DOMAIN applied :
    Authorised(applied[i]) /\ PaymentOf[applied[i].hash] \in settled

(* I-4': a row on which nothing is pending carries no verdict of a worker  *)
(* that lost the race for it, or the public API would report a failed      *)
(* payment for a published proposal.                                       *)
PromotedIsClean ==
  \A p \in existing :
    rows[p].action = "NONE" /\ ~rows[p].hide =>
      /\ rows[p].payment_status = "FINE"
      /\ rows[p].payment_check_rejected_hash = NULL
      /\ rows[p].payment_not_found_since = NULL

(* The public part of a row - its hash, its text and its voting window -   *)
(* was written by applied transitions of that very proposal.               *)
PublishedWasPaid ==
  \A p \in existing :
    LET row == rows[p]
        Paid(actions, column) ==
          \E i \in DOMAIN applied :
            /\ applied[i].proposal = p
            /\ applied[i].action \in actions
            /\ applied[i][column] = row[IF column = "hash" THEN "transaction_hash" ELSE column]
    IN  ~row.hide /\ ~row.draft =>
          /\ Paid(PendingAction, "hash")
          /\ Paid({"TO_CREATE", "TO_UPDATE"}, "content")
          /\ row.window # NULL => Paid({"TO_SUBMIT"}, "window")

(* A promotion consumes the staged copy it verified and no other: a copy   *)
(* the owner staged meanwhile is not wiped out with it.                    *)
OnlyOwnCopyConsumed ==
  [][\A p \in existing :
       (rows[p].new_transaction_hash # NULL /\ rows'[p].new_transaction_hash = NULL) =>
         /\ Len(applied') = Len(applied) + 1
         /\ applied'[Len(applied')].proposal = p
         /\ applied'[Len(applied')].hash = rows[p].new_transaction_hash]_vars

(* Authorization is the payment and nothing else: what the public sees of  *)
(* a proposal changes only in the step that spends a payment on it.        *)
Public(p) == <<rows[p].transaction_hash, rows[p].content, rows[p].window, rows[p].proposal_status>>

NoUnpaidChange ==
  [][\A p \in existing :
       (~rows[p].draft /\ Public(p)' # Public(p)) =>
         /\ Len(applied') = Len(applied) + 1
         /\ applied'[Len(applied')].proposal = p]_vars

(* No week is booked twice, and the unique start_at of the slot table is   *)
(* never what stops it.                                                    *)
NoDoubleBooking ==
  \A p, q \in existing : p # q =>
    /\ UsesQueueSlot(rows[p]) /\ UsesQueueSlot(rows[q]) => rows[p].window # rows[q].window
    /\ slots[p] # NULL => slots[p] # slots[q]

(* At most one proposal about an asset is queued or being voted on.        *)
OneActivePerAsset ==
  LET Active(p) == ~rows[p].hide /\ rows[p].proposal_status \in {"QUEUED", "VOTING"}
  IN  \A p, q \in existing :
        p # q /\ Active(p) /\ Active(q) => AssetOf[p] = NULL \/ AssetOf[p] # AssetOf[q]

(* The lemma consumed_transaction_backfill.py rests on: a consumed hash is *)
(* in Proposal.transaction_hash or in HistoryProposal.transaction_hash.    *)
BurnedHashIsRecorded ==
  \A i \in DOMAIN applied :
    \/ applied[i].hash \in history
    \/ \E p \in existing : rows[p].transaction_hash = applied[i].hash

(* What task_check_pending_proposal_payments says of the rows it leaves    *)
(* out: the hash they wait for "can never resolve differently".            *)
SweepExclusionSound ==
  \A p \in existing :
    LET t == Resolve(p, rows[p])
    IN  /\ rows[p].action # "NONE"
        /\ t.hash # NULL
        /\ t.hash = rows[p].payment_check_rejected_hash
        => ~(Authorised(t) /\ Unspent(t))

(* The transitions some payment was made for. *)
Mandates == {t \in Transition : Authorised(t) /\ (t.action = "TO_SUBMIT" => t.window # NULL)}

(* Those of them a row can stage: see Resolve. *)
Stageable == {t \in Mandates : t.content # NULL /\ (t.action # "TO_SUBMIT" => t.window = NULL)}

(* The row of t waits for a settled payment that authorises it, nothing    *)
(* stands in its way, and the sweep has not been told to leave it alone.   *)
PaidAndPending(t) ==
  /\ SweepEligible(t.proposal)
  /\ t = Resolve(t.proposal, rows[t.proposal])
  /\ PaymentOf[t.hash] \in settled
  /\ Unspent(t)
  /\ ~MustWait(t)
  /\ ~BreaksUniqueness(t)

(* The row stages something else now. *)
Superseded(t) == rows[t.proposal].action # "NONE" /\ ~StillStaged(t)

(* A payment that could be applied does not wait forever: without any      *)
(* client polling, the sweep spends it, unless the owner stages something  *)
(* else or the booking meets a conflict.                                   *)
PaidIsPromoted ==
  \A t \in Stageable : PaidAndPending(t) ~> ~Unspent(t) \/ Superseded(t) \/ MustWait(t)

(* The abstract ledger this machinery implements.                          *)
PaidBy(t) == PaymentOf[t.hash]

Ledger == INSTANCE PaymentLedger
            WITH Opening <- Genesis, spent <- {PaymentOf[h] : h \in ledger}, log <- applied

(* Every step spends at most one payment, on a transition it was made for, *)
(* and never unspends one.                                                 *)
ImplementsLedger == Ledger!Spec
=============================================================================
