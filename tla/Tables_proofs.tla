----------------------------- MODULE Tables_proofs -----------------------------
(***************************************************************************)
(* What the steps of Promotion do to the rows and to the requests under    *)
(* way, the ground on which the theorems about bookings and publication    *)
(* stand.                                                                  *)
(***************************************************************************)
EXTENDS Promotion_proofs

-----------------------------------------------------------------------------
(* Verdicts.                                                               *)

(* The columns a verdict leaves alone. *)
SameOffer(old, new) ==
  /\ new.proposal_status = old.proposal_status
  /\ new.action = old.action
  /\ new.draft = old.draft
  /\ new.hide = old.hide
  /\ new.transaction_hash = old.transaction_hash
  /\ new.new_transaction_hash = old.new_transaction_hash
  /\ new.content = old.content
  /\ new.window = old.window

(* The columns a retired creation keeps, too: what is published, and the   *)
(* hash of a staged copy.                                                  *)
SamePublic(old, new) ==
  /\ new.transaction_hash = old.transaction_hash
  /\ new.content = old.content
  /\ new.window = old.window
  /\ new.proposal_status = old.proposal_status

SameColumns(old, new) ==
  SamePublic(old, new) /\ new.new_transaction_hash = old.new_transaction_hash

(* What a verdict may make of a row: nothing, a remark on a row that waits *)
(* for a payment, or a row out of sight.                                   *)
VerdictWrite(old, new) ==
  \/ new = old
  \/ old.action # "NONE" /\ SameOffer(old, new)
  \/ new.hide /\ ~new.draft /\ new.action = "NONE" /\ SameColumns(old, new)

(* Whatever the verdict, the published columns stay. *)
LEMMA VerdictKeepsColumns ==
  ASSUME NEW old, NEW new, VerdictWrite(old, new)
  PROVE  SameColumns(old, new)
  BY DEF VerdictWrite, SameOffer, SameColumns, SamePublic

(* A terminal verdict is such a write. *)
LEMMA TerminalVerdictWrites ==
  ASSUME NEW row \in Row, NEW t \in Transition, NEW status \in TerminalStatus
  PROVE  VerdictWrite(row, WithTerminalVerdict(row, t, status))
<1> DEFINE rejected == [row EXCEPT !.payment_status = status,
                                   !.payment_check_rejected_hash = RejectionMarker(t.hash)]
<1>1. CASE ~VerdictLands(row, t)
  BY <1>1 DEF VerdictWrite, WithTerminalVerdict
<1>2. CASE VerdictLands(row, t) /\ t.action = "TO_CREATE"
  <2>1. WithTerminalVerdict(row, t, status) = Retired(rejected)
    BY <1>2 DEF WithTerminalVerdict
  <2>2. /\ Retired(rejected).hide /\ ~Retired(rejected).draft /\ Retired(rejected).action = "NONE"
        /\ SameColumns(row, Retired(rejected))
    BY DEF Retired, Row, SameColumns, SamePublic
  <2>3. QED
    BY <2>1, <2>2 DEF VerdictWrite
<1>3. CASE VerdictLands(row, t) /\ t.action # "TO_CREATE"
  <2>1. WithTerminalVerdict(row, t, status) = rejected
    BY <1>3 DEF WithTerminalVerdict
  <2>2. SameOffer(row, rejected)
    BY DEF SameOffer, Row
  <2>3. row.action # "NONE"
    BY <1>3 DEF VerdictLands, Transition, PendingAction
  <2>4. QED
    BY <2>1, <2>2, <2>3 DEF VerdictWrite
<1>4. QED
  BY <1>1, <1>2, <1>3

(* So is a retryable one. *)
LEMMA RetryableVerdictWrites ==
  ASSUME NEW row \in Row, NEW t \in Transition, NEW notFound, NEW at
  PROVE  VerdictWrite(row, WithRetryableVerdict(row, t, notFound, at))
<1> DEFINE clock == IF notFound /\ row.payment_not_found_since = NULL
                      THEN at ELSE row.payment_not_found_since
           waiting == [row EXCEPT !.payment_status = "HORIZON_ERROR", !.payment_not_found_since = clock]
<1>1. CASE row.action # t.action
  BY <1>1 DEF VerdictWrite, WithRetryableVerdict
<1>2. CASE row.action = t.action
  <2>1. WithRetryableVerdict(row, t, notFound, at) = waiting
    BY <1>2 DEF WithRetryableVerdict
  <2>2. SameOffer(row, waiting)
    <3> HIDE DEF clock
    <3> QED
      BY DEF SameOffer, Row
  <2>3. row.action # "NONE"
    BY <1>2 DEF Transition, PendingAction
  <2>4. QED
    BY <2>1, <2>2, <2>3 DEF VerdictWrite
<1>3. QED
  BY <1>1, <1>2

(* The steps of a check that apply nothing. *)
NoPromotion(w) ==
  \/ AskHorizon(w) \/ RejectUnusableHash(w) \/ RejectPayment(w) \/ RejectAssetCreate(w)
  \/ SkipPromotion(w) \/ DeferPromotion(w) \/ FailPromotion(w)
  \/ RollBackSpent(w) \/ RefuseSpent(w)

(* They write verdicts and nothing else. *)
LEMMA NoPromotionWrites ==
  ASSUME TypeInv, NEW w \in Processes, NoPromotion(w)
  PROVE  /\ UNCHANGED <<existing, slots, applied>>
         /\ \A p \in Proposals : VerdictWrite(rows[p], rows'[p])
<1> DEFINE t == jobs[w].current
           row == rows[t.proposal]
<1>1. t \in Transition /\ t.proposal \in Proposals /\ row \in Row
  BY CurrentType DEF NoPromotion, AskHorizon, RejectUnusableHash, RejectPayment, RejectAssetCreate,
     SkipPromotion, DeferPromotion, FailPromotion, RollBackSpent, RefuseSpent,
     Answered, Confirmed, Writable
<1>2. ASSUME UNCHANGED tables
      PROVE  /\ UNCHANGED <<existing, slots, applied>>
             /\ \A p \in Proposals : VerdictWrite(rows[p], rows'[p])
  BY <1>2 DEF tables, VerdictWrite
<1>3. ASSUME NEW new, VerdictWrite(row, new), WriteVerdict(w, new)
      PROVE  /\ UNCHANGED <<existing, slots, applied>>
             /\ \A p \in Proposals : VerdictWrite(rows[p], rows'[p])
  <2>1. rows' = [rows EXCEPT ![t.proposal] = new]
    BY <1>3 DEF WriteVerdict
  <2>2. \A p \in Proposals : rows'[p] = IF p = t.proposal THEN new ELSE rows[p]
    BY <2>1 DEF TypeInv, TypeOK
  <2>3. \A p \in Proposals : VerdictWrite(rows[p], rows'[p])
    BY <1>3, <2>2 DEF VerdictWrite
  <2>4. QED
    BY <1>3, <2>3 DEF WriteVerdict
<1>4. CASE AskHorizon(w) \/ SkipPromotion(w) \/ FailPromotion(w) \/ RollBackSpent(w)
  BY <1>2, <1>4 DEF AskHorizon, SkipPromotion, FailPromotion, RollBackSpent
<1>5. CASE RejectUnusableHash(w) \/ RefuseSpent(w)
  <2>1. VerdictWrite(row, WithTerminalVerdict(row, t, "INVALID_PAYMENT"))
    BY <1>1, TerminalVerdictWrites DEF TerminalStatus
  <2>2. WriteVerdict(w, WithTerminalVerdict(row, t, "INVALID_PAYMENT"))
    BY <1>5 DEF RejectUnusableHash, RefuseSpent
  <2>3. QED
    BY <1>3, <2>1, <2>2
<1>6. CASE RejectPayment(w)
  <2> DEFINE answer == jobs[w].answer
  <2>1. \/ WriteVerdict(w, WithRetryableVerdict(row, t, answer = "NOT_FOUND", now))
        \/ answer \in TerminalStatus /\ WriteVerdict(w, WithTerminalVerdict(row, t, answer))
    BY <1>6 DEF RejectPayment, Answered
  <2>2. VerdictWrite(row, WithRetryableVerdict(row, t, answer = "NOT_FOUND", now))
    BY <1>1, RetryableVerdictWrites
  <2>3. answer \in TerminalStatus => VerdictWrite(row, WithTerminalVerdict(row, t, answer))
    BY <1>1, TerminalVerdictWrites
  <2>4. QED
    BY <1>3, <2>1, <2>2, <2>3
<1>7. CASE RejectAssetCreate(w)
  <2> DEFINE rejected == [Retired(row) EXCEPT !.last_updated_at = now,
                            !.payment_check_rejected_hash = RejectionMarker(t.hash),
                            !.payment_status = jobs[w].answer]
  <2>1. WriteVerdict(w, rejected) \/ WriteVerdict(w, row)
    BY <1>7 DEF RejectAssetCreate
  <2>2. /\ rejected.hide /\ ~rejected.draft /\ rejected.action = "NONE"
        /\ SameColumns(row, rejected)
    BY <1>1 DEF Retired, Row, SameColumns, SamePublic
  <2>3. VerdictWrite(row, rejected) /\ VerdictWrite(row, row)
    BY <2>2 DEF VerdictWrite
  <2>4. QED
    BY <1>3, <2>1, <2>3
<1>8. CASE DeferPromotion(w)
  <2>1. SameOffer(row, AwaitingRetry(row))
    BY <1>1 DEF SameOffer, AwaitingRetry, Row
  <2>2. row.action # "NONE"
    BY <1>1, <1>8 DEF DeferPromotion, Confirmed, StillStaged, Transition, PendingAction
  <2>3. VerdictWrite(row, AwaitingRetry(row))
    BY <2>1, <2>2 DEF VerdictWrite
  <2>4. QED
    BY <1>3, <1>8, <2>3 DEF DeferPromotion
<1>9. QED
  BY <1>4, <1>5, <1>6, <1>7, <1>8 DEF NoPromotion
(* A step that at most passes verdicts on rows. *)
VerdictStepOf(p) == VerdictWrite(rows[p], rows'[p])

OnlyVerdicts ==
  /\ UNCHANGED <<existing, slots, applied>>
  /\ \A p \in Proposals : VerdictStepOf(p)

Commit(w) == CommitCreate(w) \/ CommitUpdate(w) \/ CommitSubmit(w)

(* Every step passes verdicts, commits a staging request, promotes or      *)
(* re-arms.                                                                *)
LEMMA StepKinds ==
  ASSUME TypeInv, [Next]_vars
  PROVE  \/ OnlyVerdicts
         \/ \E w \in Web : Commit(w)
         \/ \E w \in Processes : Promote(w)
         \/ \E p \in Proposals, r \in RearmActions : Rearm(p, r[1], r[2])
<1>1. ASSUME UNCHANGED tables
      PROVE  OnlyVerdicts
  BY <1>1 DEF tables, OnlyVerdicts, VerdictStepOf, VerdictWrite
<1>2. CASE \/ \E pay \in Payments : Settle(pay)
           \/ Tick
           \/ StartSweep
           \/ \E w \in Web, p \in Proposals : StartCheck(w, p)
           \/ \E w \in Processes : Deadlock(w) \/ Crash(w)
           \/ UNCHANGED vars
  BY <1>1, <1>2 DEF Settle, Tick, StartSweep, StartCheck, Start, Deadlock, Crash, vars, tables
<1>3. ASSUME NEW w \in Web, Stage(w), ~Commit(w)
      PROVE  OnlyVerdicts
  BY <1>1, <1>3 DEF Stage, Commit, BeginCreate, BeginUpdate, BeginSubmit, Start
<1>4. ASSUME NEW w \in Processes, Check(w), ~Promote(w)
      PROVE  OnlyVerdicts
  BY <1>4, NoPromotionWrites DEF Check, NoPromotion, OnlyVerdicts, VerdictStepOf
<1>5. QED
  BY <1>2, <1>3, <1>4 DEF Next

-----------------------------------------------------------------------------
(* Staging requests between their two steps.                               *)

(* What the first step of a request read and its second step relies on:    *)
(* the id of a creation is its own, and the proposal of any other request  *)
(* is in the table and not a draft.                                        *)
StagingSound(w) ==
  LET t == jobs[w].current
  IN  jobs[w].pc = "staging" =>
        /\ w \in Web
        /\ t.action = "TO_CREATE" =>
             /\ t.proposal \notin existing
             /\ \A v \in Web \ {w} : jobs[v].pc = "staging" => jobs[v].current.proposal # t.proposal
        /\ t.action # "TO_CREATE" => t.proposal \in existing /\ ~rows[t.proposal].draft
        /\ t.action = "TO_UPDATE" =>
             ~jobs[w].row.draft /\ ~jobs[w].row.hide /\ jobs[w].row.proposal_status = "DISCUSSION"

StagingInv == \A w \in Processes : StagingSound(w)

Begin(w) ==
  \/ \E p \in Proposals, h \in Hashes, c \in Contents : BeginCreate(w, p, h, c) \/ BeginUpdate(w, p, h, c)
  \/ \E p \in Proposals, h \in Hashes, window \in Weeks : BeginSubmit(w, p, h, window)

(* A process that takes another job than a staging one. *)
LEMMA OtherJob ==
  ASSUME TypeInv, NEW w \in Processes, NEW job, job.pc # "staging",
         jobs' = [jobs EXCEPT ![w] = job],
         NEW v \in Processes, jobs'[v].pc = "staging"
  PROVE  jobs'[v] = jobs[v]
  BY DEF TypeInv, JobsOK

(* Going on to the next row, or to no row, is taking such a job. *)
LEMMA FinishedJob ==
  ASSUME TypeInv, NEW w \in Processes, Finish(w),
         NEW v \in Processes, jobs'[v].pc = "staging"
  PROVE  jobs'[v] = jobs[v]
<1>1. CASE jobs[w].todo = {}
  <2>1. IdleJob.pc # "staging"
    BY DEF IdleJob
  <2>2. QED
    BY <1>1, <2>1, OtherJob DEF Finish, Drop
<1>2. CASE jobs[w].todo # {}
  <2>1. PICK t \in jobs[w].todo : jobs' = [jobs EXCEPT ![w] = CheckJob(t, @.todo \ {t})]
    BY <1>2 DEF Finish
  <2>2. jobs' = [jobs EXCEPT ![w] = CheckJob(t, jobs[w].todo \ {t})]
    BY <2>1
  <2>3. CheckJob(t, jobs[w].todo \ {t}).pc # "staging"
    BY DEF CheckJob, IdleJob
  <2>4. QED
    BY <2>2, <2>3, OtherJob
<1>3. QED
  BY <1>1, <1>2

(* A request is staging only once it has begun, and is left alone by every *)
(* step but its own.                                                       *)
LEMMA StagingFrame ==
  ASSUME TypeInv, [Next]_vars, NEW v \in Processes, jobs'[v].pc = "staging",
         ~(v \in Web /\ Begin(v))
  PROVE  jobs'[v] = jobs[v]
<1>1. IdleJob.pc # "staging" /\ \A t, rest : CheckJob(t, rest).pc # "staging"
  BY DEF IdleJob, CheckJob
<1>2. CASE (\E pay \in Payments : Settle(pay)) \/ Tick \/ UNCHANGED vars
           \/ \E p \in Proposals, r \in RearmActions : Rearm(p, r[1], r[2])
  BY <1>2 DEF Settle, Tick, vars, Rearm
<1>3. ASSUME NEW w \in Web, Stage(w)
      PROVE  jobs'[v] = jobs[v]
  <2>1. CASE Commit(w)
    <3>1. Drop(w)
      BY <2>1 DEF Commit, CommitCreate, CommitUpdate, CommitSubmit
    <3>2. QED
      BY <3>1, <1>1, OtherJob DEF Drop, Processes
  <2>2. CASE ~Commit(w)
    <3>1. Begin(w) /\ w # v
      BY <1>3, <2>2 DEF Stage, Commit, Begin
    <3>2. \E job : jobs' = [jobs EXCEPT ![w] = job]
      BY <3>1 DEF Begin, BeginCreate, BeginUpdate, BeginSubmit, Start
    <3>3. QED
      BY <3>1, <3>2 DEF TypeInv, JobsOK
  <2>3. QED
    BY <2>1, <2>2
<1>4. CASE StartSweep \/ \E w \in Web, p \in Proposals : StartCheck(w, p)
  <2>1. PICK w \in Processes : \E t, rest : Start(w, CheckJob(t, rest))
    BY <1>4 DEF StartSweep, StartCheck, Processes
  <2>2. QED
    BY <1>1, <2>1, OtherJob DEF Start
<1>5. ASSUME NEW w \in Processes, AskHorizon(w)
      PROVE  jobs'[v] = jobs[v]
  <2>1. PICK answer : jobs' = [jobs EXCEPT ![w].pc = "applying", ![w].answer = answer]
    BY <1>5 DEF AskHorizon
  <2> DEFINE job == [jobs[w] EXCEPT !.pc = "applying", !.answer = answer]
  <2>2. jobs' = [jobs EXCEPT ![w] = job] /\ job.pc # "staging"
    BY <2>1 DEF TypeInv, JobsOK, Job
  <2>3. QED
    BY <2>2, OtherJob
<1>6. ASSUME NEW w \in Processes, RollBackSpent(w)
      PROVE  jobs'[v] = jobs[v]
  <2> DEFINE job == [jobs[w] EXCEPT !.pc = "refusing"]
  <2>1. jobs' = [jobs EXCEPT ![w] = job] /\ job.pc # "staging"
    BY <1>6 DEF RollBackSpent, TypeInv, JobsOK, Job
  <2>2. QED
    BY <2>1, OtherJob
<1>7. ASSUME NEW w \in Processes,
             \/ RejectUnusableHash(w) \/ RejectPayment(w) \/ RejectAssetCreate(w) \/ SkipPromotion(w)
             \/ DeferPromotion(w) \/ FailPromotion(w) \/ RefuseSpent(w) \/ Promote(w)
      PROVE  jobs'[v] = jobs[v]
  <2>1. Finish(w)
    BY <1>7, PromoteFacts DEF RejectUnusableHash, RejectPayment, RejectAssetCreate, SkipPromotion,
       DeferPromotion, FailPromotion, RefuseSpent, WriteVerdict
  <2>2. QED
    BY <2>1, FinishedJob
<1>8. ASSUME NEW w \in Processes, Deadlock(w)
      PROVE  jobs'[v] = jobs[v]
  <2> DEFINE job == [jobs[w] EXCEPT !.pc = "verifying", !.answer = NULL, !.retried = TRUE]
  <2>1. CASE jobs[w].retried
    BY <1>8, <2>1, FinishedJob DEF Deadlock
  <2>2. CASE ~jobs[w].retried
    <3>1. jobs' = [jobs EXCEPT ![w] = job] /\ job.pc # "staging"
      BY <1>8, <2>2 DEF Deadlock, TypeInv, JobsOK, Job
    <3>2. QED
      BY <3>1, OtherJob
  <2>3. QED
    BY <2>1, <2>2
<1>9. ASSUME NEW w \in Processes, Crash(w)
      PROVE  jobs'[v] = jobs[v]
  BY <1>9, <1>1, OtherJob DEF Crash, Drop
<1>10. QED
  BY <1>2, <1>3, <1>4, <1>5, <1>6, <1>7, <1>8, <1>9 DEF Next, Check

-----------------------------------------------------------------------------
(* The rows the other three kinds of step write.                           *)

(* The columns of a confirmed creation. *)
LEMMA ConfirmedCreateColumns ==
  ASSUME NEW row \in Row, NEW isAsset, NEW at
  PROVE  LET new == ConfirmedCreate(row, isAsset, at)
         IN  /\ ~new.draft /\ new.action = "NONE"
             /\ new.hide = row.hide /\ new.proposal_status = row.proposal_status
             /\ new.transaction_hash = row.transaction_hash
             /\ new.new_transaction_hash = row.new_transaction_hash
             /\ new.content = row.content /\ new.window = row.window
             /\ new.payment_status = "FINE" /\ new.payment_check_rejected_hash = NULL
             /\ new.payment_not_found_since = NULL
<1> DEFINE moved == IF isAsset THEN at ELSE row.last_updated_at
           new == [row EXCEPT !.draft = FALSE, !.action = "NONE", !.payment_status = "FINE",
                              !.payment_check_rejected_hash = NULL, !.payment_not_found_since = NULL,
                              !.last_updated_at = moved]
<1>1. ConfirmedCreate(row, isAsset, at) = new
  BY DEF ConfirmedCreate
<1>2. /\ ~new.draft /\ new.action = "NONE"
      /\ new.hide = row.hide /\ new.proposal_status = row.proposal_status
      /\ new.transaction_hash = row.transaction_hash
      /\ new.new_transaction_hash = row.new_transaction_hash
      /\ new.content = row.content /\ new.window = row.window
      /\ new.payment_status = "FINE" /\ new.payment_check_rejected_hash = NULL
      /\ new.payment_not_found_since = NULL
  <2> HIDE DEF moved
  <2> QED
    BY DEF Row
<1>3. QED
  BY <1>1, <1>2

(* The columns of a confirmed update. *)
LEMMA ConfirmedUpdateColumns ==
  ASSUME NEW row \in Row, NEW t, NEW at
  PROVE  LET new == ConfirmedUpdate(row, t, at)
         IN  /\ new.draft = row.draft /\ new.action = "NONE"
             /\ new.hide = row.hide /\ new.proposal_status = row.proposal_status
             /\ new.transaction_hash = t.hash
             /\ new.content = t.content /\ new.window = row.window
             /\ new.payment_status = "FINE" /\ new.payment_check_rejected_hash = NULL
             /\ new.payment_not_found_since = NULL
  BY DEF ConfirmedUpdate, Row

(* The columns of a confirmed submit. *)
LEMMA ConfirmedSubmitColumns ==
  ASSUME NEW row \in Row, NEW t, NEW status, NEW at
  PROVE  LET new == ConfirmedSubmit(row, t, status, at)
         IN  /\ new.draft = row.draft /\ new.action = "NONE"
             /\ new.hide = row.hide /\ new.proposal_status = status
             /\ new.transaction_hash = t.hash
             /\ new.content = row.content /\ new.window = t.window
             /\ new.payment_status = "FINE" /\ new.payment_check_rejected_hash = NULL
             /\ new.payment_not_found_since = NULL
  BY DEF ConfirmedSubmit, Row

(* A promotion writes one row, the one it found staged as it was verified. *)
LEMMA PromotedRow ==
  ASSUME TypeInv, NEW w \in Processes, Promote(w)
  PROVE  LET t == jobs[w].current
         IN  /\ t \in Transition /\ t.proposal \in Proposals /\ rows[t.proposal] \in Row
             /\ StillStaged(t) /\ ~MustWait(t)
             /\ existing' = existing
             /\ applied' = Append(applied, t)
             /\ \A q \in Proposals \ {t.proposal} : rows'[q] = rows[q]
             /\ \/ /\ t.action = "TO_CREATE"
                   /\ rows'[t.proposal] = ConfirmedCreate(rows[t.proposal], IsAsset(t.proposal), now)
                   /\ slots' = slots /\ history' = history
                \/ /\ t.action = "TO_UPDATE"
                   /\ rows'[t.proposal] = ConfirmedUpdate(rows[t.proposal], t, now)
                   /\ slots' = slots /\ history' = history \cup Archived(t)
                \/ /\ t.action = "TO_SUBMIT"
                   /\ rows'[t.proposal] = ConfirmedSubmit(rows[t.proposal], t, SubmitStatus(t), now)
                   /\ slots' = IF WindowOver(t) THEN slots ELSE SyncQueueSlot(rows', slots, t.proposal)
                   /\ history' = history \cup Archived(t)
<1> DEFINE t == jobs[w].current
<1>1. /\ t \in Transition /\ t.proposal \in Proposals /\ rows[t.proposal] \in Row
      /\ existing' = existing /\ applied' = Append(applied, t)
  BY PromoteFacts, CurrentType DEF Answered, Claim
<1>2. StillStaged(t) /\ ~MustWait(t)
  BY DEF Promote, PromoteCreate, PromoteUpdate, PromoteSubmit, Promoted, Writable, Confirmed
<1>3. rows \in [Proposals -> Row]
  BY DEF TypeInv, TypeOK
<1>4. CASE PromoteCreate(w)
  BY <1>1, <1>2, <1>3, <1>4 DEF PromoteCreate, ApplyCreate
<1>5. CASE PromoteUpdate(w)
  BY <1>1, <1>2, <1>3, <1>5 DEF PromoteUpdate, ApplyUpdate
<1>6. CASE PromoteSubmit(w)
  BY <1>1, <1>2, <1>3, <1>6 DEF PromoteSubmit, ApplySubmit
<1>7. QED
  BY <1>4, <1>5, <1>6 DEF Promote

(* A staging request writes one row, or none. *)
LEMMA CommittedRow ==
  ASSUME TypeInv, NEW w \in Web, Commit(w)
  PROVE  LET t == jobs[w].current
         IN  /\ jobs[w].pc = "staging"
             /\ t \in Transition /\ t.proposal \in Proposals /\ rows[t.proposal] \in Row
             /\ slots' = slots /\ applied' = applied
             /\ \A q \in Proposals \ {t.proposal} : rows'[q] = rows[q]
             /\ \/ existing' = existing /\ rows'[t.proposal] = rows[t.proposal]
                \/ /\ t.action = "TO_CREATE"
                   /\ existing' = existing \cup {t.proposal}
                   /\ \E advisory \in Advisory : rows'[t.proposal] = Draft(t, advisory, now)
                \/ /\ t.action = "TO_UPDATE"
                   /\ existing' = existing
                   /\ jobs[w].row \in Row
                   /\ \E advisory \in Advisory : rows'[t.proposal] = StagedUpdate(jobs[w].row, t, advisory)
                \/ /\ t.action = "TO_SUBMIT"
                   /\ existing' = existing
                   /\ \E advisory \in Advisory : rows'[t.proposal] = StagedSubmit(rows[t.proposal], t, advisory)
<1> DEFINE t == jobs[w].current
<1>1. jobs[w].pc = "staging"
  BY DEF Commit, CommitCreate, CommitUpdate, CommitSubmit
<1>2. /\ t \in Transition /\ t.proposal \in Proposals /\ rows[t.proposal] \in Row
      /\ t.action = "TO_UPDATE" => jobs[w].row \in Row
  BY <1>1, CurrentType DEF Processes, TypeInv, JobsOK, JobOK
<1>3. rows \in [Proposals -> Row]
  BY DEF TypeInv, TypeOK
<1>4. CASE CommitCreate(w)
  BY <1>1, <1>2, <1>3, <1>4 DEF CommitCreate
<1>5. CASE CommitUpdate(w)
  BY <1>1, <1>2, <1>3, <1>5 DEF CommitUpdate
<1>6. CASE CommitSubmit(w)
  BY <1>1, <1>2, <1>3, <1>6 DEF CommitSubmit
<1>7. QED
  BY <1>4, <1>5, <1>6 DEF Commit

(* Re-arming writes the row it is asked to. *)
LEMMA RearmedRow ==
  ASSUME TypeInv, NEW p \in Proposals, NEW r \in RearmActions, Rearm(p, r[1], r[2])
  PROVE  LET new == rows'[p]
         IN  /\ rows[p] \in Row
             /\ UNCHANGED <<existing, slots, applied, jobs>>
             /\ \A q \in Proposals \ {p} : rows'[q] = rows[q]
             /\ new.action = r[1] /\ new.draft = rows[p].draft
             /\ new.hide = IF r[2] THEN FALSE ELSE rows[p].hide
             /\ new.proposal_status = rows[p].proposal_status
             /\ new.transaction_hash = rows[p].transaction_hash
             /\ new.new_transaction_hash = rows[p].new_transaction_hash
             /\ new.content = rows[p].content /\ new.window = rows[p].window
             /\ new.payment_status = "FINE" /\ new.payment_check_rejected_hash = NULL
             /\ new.payment_not_found_since = NULL
<1> DEFINE hidden == IF r[2] THEN FALSE ELSE rows[p].hide
           new == [rows[p] EXCEPT !.action = r[1], !.payment_status = "FINE",
                                  !.payment_check_rejected_hash = NULL, !.payment_not_found_since = NULL,
                                  !.hide = hidden]
<1>1. rows \in [Proposals -> Row] /\ rows[p] \in Row
  BY DEF TypeInv, TypeOK
<1>2. rows' = [rows EXCEPT ![p] = new]
  BY DEF Rearm, Rearmed
<1>3. rows'[p] = new /\ \A q \in Proposals \ {p} : rows'[q] = rows[q]
  BY <1>1, <1>2
<1>4. /\ new.action = r[1] /\ new.draft = rows[p].draft /\ new.hide = hidden
      /\ new.proposal_status = rows[p].proposal_status
      /\ new.transaction_hash = rows[p].transaction_hash
      /\ new.new_transaction_hash = rows[p].new_transaction_hash
      /\ new.content = rows[p].content /\ new.window = rows[p].window
      /\ new.payment_status = "FINE" /\ new.payment_check_rejected_hash = NULL
      /\ new.payment_not_found_since = NULL
  <2> HIDE DEF hidden
  <2> QED
    BY <1>1 DEF Row
<1>5. QED
  BY <1>1, <1>3, <1>4 DEF Rearm

(* The columns of a staged creation. *)
LEMMA DraftColumns ==
  ASSUME NEW t, NEW advisory, NEW at
  PROVE  LET new == Draft(t, advisory, at)
         IN  /\ new.draft /\ new.action = "TO_CREATE" /\ new.proposal_status = "DISCUSSION"
             /\ new.window = NULL /\ new.new_transaction_hash = NULL
  BY DEF Draft

(* The columns of a staged update. *)
LEMMA StagedUpdateColumns ==
  ASSUME NEW row \in Row, NEW t, NEW advisory
  PROVE  LET new == StagedUpdate(row, t, advisory)
         IN  /\ new.action = "TO_UPDATE" /\ new.draft = row.draft /\ new.hide = row.hide
             /\ new.proposal_status = row.proposal_status
             /\ new.transaction_hash = row.transaction_hash
             /\ new.new_transaction_hash = t.hash
             /\ new.content = row.content /\ new.window = row.window
  BY DEF StagedUpdate, Row

(* The columns of a staged submit. *)
LEMMA StagedSubmitColumns ==
  ASSUME NEW row \in Row, NEW t, NEW advisory
  PROVE  LET new == StagedSubmit(row, t, advisory)
         IN  /\ new.action = "TO_SUBMIT" /\ new.draft = row.draft /\ new.hide = row.hide
             /\ new.proposal_status = row.proposal_status
             /\ new.transaction_hash = row.transaction_hash
             /\ new.new_transaction_hash = t.hash
             /\ new.content = row.content /\ new.window = row.window
  BY DEF StagedSubmit, Row

-----------------------------------------------------------------------------
(* Drafts.                                                                 *)

(* A published proposal is never a draft again, and no row is deleted.     *)
LEMMA PublishedForGood ==
  ASSUME TypeInv, StagingInv, [Next]_vars, NEW p \in existing
  PROVE  p \in existing' /\ (~rows[p].draft => ~rows'[p].draft)
<1>1. p \in Proposals
  BY DEF TypeInv, TypeOK
<1>2. CASE OnlyVerdicts
  BY <1>1, <1>2 DEF OnlyVerdicts, VerdictStepOf, VerdictWrite, SameOffer
<1>3. ASSUME NEW w \in Web, Commit(w)
      PROVE  p \in existing' /\ (~rows[p].draft => ~rows'[p].draft)
  <2> DEFINE t == jobs[w].current
  <2>1. StagingSound(w)
    BY DEF StagingInv, Processes
  <2>2. CASE p # t.proposal
    BY <1>1, <1>3, <2>2, CommittedRow
  <2>3. CASE p = t.proposal
    <3>1. t.action # "TO_CREATE"
      BY <1>3, <2>1, <2>3, CommittedRow DEF StagingSound
    <3>2. t.action = "TO_UPDATE" => ~jobs[w].row.draft
      BY <1>3, <2>1, CommittedRow DEF StagingSound
    <3>3. QED
      BY <1>3, <2>3, <3>1, <3>2, CommittedRow, StagedUpdateColumns, StagedSubmitColumns
  <2>4. QED
    BY <2>2, <2>3
<1>4. ASSUME NEW w \in Processes, Promote(w)
      PROVE  p \in existing' /\ (~rows[p].draft => ~rows'[p].draft)
  BY <1>1, <1>4, PromotedRow, ConfirmedCreateColumns, ConfirmedUpdateColumns, ConfirmedSubmitColumns
<1>5. ASSUME NEW q \in Proposals, NEW r \in RearmActions, Rearm(q, r[1], r[2])
      PROVE  p \in existing' /\ (~rows[p].draft => ~rows'[p].draft)
  BY <1>1, <1>5, RearmedRow
<1>6. QED
  BY <1>2, <1>3, <1>4, <1>5, StepKinds

(* Only a staged creation adds a row. *)
LEMMA NewRows ==
  ASSUME TypeInv, [Next]_vars, existing' # existing
  PROVE  \E w \in Web : /\ jobs[w].pc = "staging"
                        /\ jobs[w].current.action = "TO_CREATE"
                        /\ existing' = existing \cup {jobs[w].current.proposal}
                        /\ jobs'[w].pc # "staging"
<1>1. ~OnlyVerdicts
  BY DEF OnlyVerdicts
<1>2. \A w \in Processes : ~Promote(w)
  BY PromotedRow
<1>3. \A p \in Proposals, r \in RearmActions : ~Rearm(p, r[1], r[2])
  BY DEF Rearm
<1>4. PICK w \in Web : Commit(w)
  BY <1>1, <1>2, <1>3, StepKinds
<1>5. CommitCreate(w)
  BY <1>4 DEF Commit, CommitUpdate, CommitSubmit
<1>6. jobs'[w] = IdleJob
  BY <1>5 DEF CommitCreate, Drop, TypeInv, JobsOK, Processes
<1>7. QED
  BY <1>5, <1>6 DEF CommitCreate, IdleJob

(* No request is under way at first. *)
LEMMA StagingInit == Init => StagingInv
  BY DEF Init, StagingInv, StagingSound, IdleJob

(* Requests keep what they rely on.                                        *)
LEMMA StagingStep ==
  ASSUME TypeInv, StagingInv, [Next]_vars
  PROVE  StagingInv'
<1> SUFFICES ASSUME NEW v \in Processes, jobs'[v].pc = "staging"
             PROVE  StagingSound(v)'
  BY DEF StagingInv, StagingSound
<1>1. TypeInv'
  BY TypeStep
<1>2. CASE v \in Web /\ Begin(v)
  <2>1. \A w \in Processes \ {v} : jobs'[w] = jobs[w]
    BY <1>2 DEF Begin, BeginCreate, BeginUpdate, BeginSubmit, Start, TypeInv, JobsOK
  <2>2. existing' = existing /\ rows' = rows
    BY <1>2 DEF Begin, BeginCreate, BeginUpdate, BeginSubmit, Start, tables
  <2>3. ASSUME NEW p \in Proposals, NEW h \in Hashes, NEW c \in Contents, BeginCreate(v, p, h, c)
        PROVE  StagingSound(v)'
    <3>1. jobs'[v].current.proposal = p /\ jobs'[v].current.action = "TO_CREATE"
      BY <2>3 DEF BeginCreate, Start, StagingJob, IdleJob, TypeInv, JobsOK
    <3>2. p \notin existing /\ \A w \in Web : jobs[w].pc = "staging" => jobs[w].current.proposal # p
      BY <2>3 DEF BeginCreate
    <3>3. QED
      BY <1>2, <2>1, <2>2, <3>1, <3>2 DEF StagingSound, Processes
  <2>4. ASSUME NEW p \in Proposals, NEW h \in Hashes, NEW c \in Contents, BeginUpdate(v, p, h, c)
        PROVE  StagingSound(v)'
    <3>1. jobs'[v].current.proposal = p /\ jobs'[v].current.action = "TO_UPDATE" /\ jobs'[v].row = rows[p]
      BY <2>4 DEF BeginUpdate, Start, StagingJob, IdleJob, TypeInv, JobsOK
    <3>2. Editable(p)
      BY <2>4 DEF BeginUpdate
    <3>3. QED
      BY <1>2, <2>2, <3>1, <3>2 DEF StagingSound, Editable
  <2>5. ASSUME NEW p \in Proposals, NEW h \in Hashes, NEW window \in Weeks, BeginSubmit(v, p, h, window)
        PROVE  StagingSound(v)'
    <3>1. jobs'[v].current.proposal = p /\ jobs'[v].current.action = "TO_SUBMIT"
      BY <2>5 DEF BeginSubmit, Start, StagingJob, IdleJob, TypeInv, JobsOK
    <3>2. Editable(p)
      BY <2>5 DEF BeginSubmit
    <3>3. QED
      BY <1>2, <2>2, <3>1, <3>2 DEF StagingSound, Editable
  <2>6. QED
    BY <1>2, <2>3, <2>4, <2>5 DEF Begin
<1>3. CASE ~(v \in Web /\ Begin(v))
  <2> DEFINE t == jobs[v].current
  <2>1. jobs'[v] = jobs[v]
    BY <1>3, StagingFrame
  <2>2. StagingSound(v) /\ jobs[v].pc = "staging"
    BY <2>1 DEF StagingInv
  <2>3. t.action = "TO_CREATE" => t.proposal \notin existing'
    <3>1. CASE existing' = existing
      BY <2>2, <3>1 DEF StagingSound
    <3>2. CASE existing' # existing
      BY <2>1, <2>2, <3>2, NewRows DEF StagingSound
    <3>3. QED
      BY <3>1, <3>2
  <2>4. ASSUME t.action = "TO_CREATE", NEW u \in Web \ {v}, jobs'[u].pc = "staging"
        PROVE  jobs'[u].current.proposal # t.proposal
    <3>1. CASE Begin(u)
      <4>1. ASSUME NEW p \in Proposals, NEW h \in Hashes, NEW c \in Contents, BeginCreate(u, p, h, c)
            PROVE  jobs'[u].current.proposal # t.proposal
        <5>1. jobs'[u].current.proposal = p
          BY <4>1 DEF BeginCreate, Start, StagingJob, IdleJob, TypeInv, JobsOK, Processes
        <5>2. QED
          BY <2>2, <4>1, <5>1 DEF BeginCreate, StagingSound
      <4>2. ASSUME NEW p \in Proposals, NEW h \in Hashes, NEW c \in Contents, BeginUpdate(u, p, h, c)
            PROVE  jobs'[u].current.proposal # t.proposal
        <5>1. jobs'[u].current.proposal = p
          BY <4>2 DEF BeginUpdate, Start, StagingJob, IdleJob, TypeInv, JobsOK, Processes
        <5>2. QED
          BY <2>2, <2>4, <4>2, <5>1 DEF BeginUpdate, Editable, StagingSound
      <4>3. ASSUME NEW p \in Proposals, NEW h \in Hashes, NEW window \in Weeks, BeginSubmit(u, p, h, window)
            PROVE  jobs'[u].current.proposal # t.proposal
        <5>1. jobs'[u].current.proposal = p
          BY <4>3 DEF BeginSubmit, Start, StagingJob, IdleJob, TypeInv, JobsOK, Processes
        <5>2. QED
          BY <2>2, <2>4, <4>3, <5>1 DEF BeginSubmit, Editable, StagingSound
      <4>4. QED
        BY <3>1, <4>1, <4>2, <4>3 DEF Begin
    <3>2. CASE ~Begin(u)
      BY <2>2, <2>4, <3>2, StagingFrame DEF StagingSound, Processes
    <3>3. QED
      BY <3>1, <3>2
  <2>5. t.action # "TO_CREATE" => t.proposal \in existing' /\ ~rows'[t.proposal].draft
    BY <2>2, PublishedForGood DEF StagingSound
  <2>6. QED
    BY <2>1, <2>2, <2>3, <2>4, <2>5 DEF StagingSound
<1>4. QED
  BY <1>2, <1>3

-----------------------------------------------------------------------------
(* The table the model starts with.                                        *)

(* The columns of an opening creation. *)
LEMMA GenesisColumns ==
  ASSUME NEW t \in Transition
  PROVE  LET new == GenesisRow(t)
         IN  /\ ~new.draft /\ ~new.hide /\ new.action = "NONE" /\ new.proposal_status = "DISCUSSION"
             /\ new.transaction_hash = t.hash /\ new.content = t.content /\ new.window = NULL
             /\ new.payment_status = "FINE" /\ new.payment_check_rejected_hash = NULL
             /\ new.payment_not_found_since = NULL
<1> DEFINE staged == Draft(t, "FINE", 0)
<1>1. 0 \in Time
  BY MaxTimeAssumption DEF Time
<1>2. staged \in Row
  BY <1>1, DraftType DEF Transition, PaymentStatus
<1>3. /\ staged.proposal_status = "DISCUSSION" /\ staged.window = NULL /\ ~staged.hide
      /\ staged.transaction_hash = t.hash /\ staged.content = t.content
  BY DEF Draft
<1>4. GenesisRow(t) = [staged EXCEPT !.draft = FALSE, !.action = "NONE", !.payment_status = "FINE",
                                     !.payment_check_rejected_hash = NULL,
                                     !.payment_not_found_since = NULL,
                                     !.last_updated_at = staged.last_updated_at]
  BY DEF GenesisRow, ConfirmedCreate
<1> HIDE DEF staged
<1>5. QED
  BY <1>2, <1>3, <1>4 DEF Row

(* Every row is an opening creation or absent. *)
LEMMA OpeningRows ==
  ASSUME Init, NEW p \in Proposals
  PROVE  \/ /\ p \in existing
            /\ \E i \in 1..Len(Genesis) : /\ Genesis[i] \in Transition
                                          /\ Genesis[i].proposal = p
                                          /\ rows[p] = GenesisRow(Genesis[i])
         \/ p \notin existing /\ rows[p] = AbsentRow
<1>1. CASE p \in existing
  <2> DEFINE t0 == CHOOSE t \in {Genesis[i] : i \in 1..Len(Genesis)} : t.proposal = p
  <2>1. \E t \in {Genesis[i] : i \in 1..Len(Genesis)} : t.proposal = p
    BY <1>1 DEF Init
  <2>2. t0 \in {Genesis[i] : i \in 1..Len(Genesis)} /\ t0.proposal = p
    BY <2>1
  <2>3. rows[p] = GenesisRow(t0)
    BY <1>1 DEF Init
  <2>4. \A i \in 1..Len(Genesis) : Genesis[i] \in Transition
    BY GenesisAssumption
  <2> HIDE DEF t0
  <2>5. QED
    BY <1>1, <2>2, <2>3, <2>4
<1>2. CASE p \notin existing
  BY <1>2 DEF Init
<1>3. QED
  BY <1>1, <1>2
=============================================================================
