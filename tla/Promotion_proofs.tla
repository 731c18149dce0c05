--------------------------- MODULE Promotion_proofs ---------------------------
(***************************************************************************)
(* Theorems about Promotion, for every number of proposals, hashes,        *)
(* workers and weeks and every payment that may settle.                    *)
(***************************************************************************)
EXTENDS Promotion, TLAPS

-----------------------------------------------------------------------------
(* Every write of ProposalRows keeps a row a row.                          *)

(* A pending row resolves to a transition of its own proposal. *)
LEMMA ResolveType ==
  ASSUME NEW p \in Proposals, NEW row \in Row, row.action # "NONE"
  PROVE  /\ Resolve(p, row) \in Transition
         /\ Resolve(p, row).proposal = p
  BY DEF Resolve, Transition, Row, Action, PendingAction

(* A staged creation is a row. *)
LEMMA DraftType ==
  ASSUME NEW t, t.hash \in Hashes \cup {NULL}, t.content \in Contents \cup {NULL},
         NEW advisory \in PaymentStatus, NEW at \in Time
  PROVE  Draft(t, advisory, at) \in Row
  BY ZenonT(60) DEF Draft, Row, ProposalStatus, Action, PendingAction

(* The full-row save of an update request keeps the row typed. *)
LEMMA StagedUpdateType ==
  ASSUME NEW row \in Row, NEW t \in Transition, NEW advisory \in PaymentStatus
  PROVE  StagedUpdate(row, t, advisory) \in Row
  BY ZenonT(60) DEF StagedUpdate, Row, Transition, Action, PendingAction

(* The save of a submit request keeps the row typed. *)
LEMMA StagedSubmitType ==
  ASSUME NEW row \in Row, NEW t \in Transition, NEW advisory \in PaymentStatus
  PROVE  StagedSubmit(row, t, advisory) \in Row
  BY ZenonT(60) DEF StagedSubmit, Row, Transition, Action, PendingAction

(* Applying a creation keeps the row typed. *)
LEMMA ConfirmedCreateType ==
  ASSUME NEW row \in Row, NEW isAsset \in BOOLEAN, NEW at \in Time
  PROVE  ConfirmedCreate(row, isAsset, at) \in Row
<1> DEFINE moved == IF isAsset THEN at ELSE row.last_updated_at
<1>1. moved \in Time
  BY DEF Row
<1>2. [row EXCEPT !.draft = FALSE,
                  !.action = "NONE",
                  !.payment_status = "FINE",
                  !.payment_check_rejected_hash = NULL,
                  !.payment_not_found_since = NULL,
                  !.last_updated_at = moved] \in Row
  <2> HIDE DEF moved
  <2> QED
    BY <1>1, ZenonT(60) DEF Row, Action, PaymentStatus
<1>3. QED
  BY <1>2 DEF ConfirmedCreate

(* Applying an update keeps the row typed. *)
LEMMA ConfirmedUpdateType ==
  ASSUME NEW row \in Row, NEW t \in Transition, NEW at \in Time
  PROVE  ConfirmedUpdate(row, t, at) \in Row
  BY ZenonT(60) DEF ConfirmedUpdate, Row, Transition, Action, PaymentStatus

(* Applying a submit keeps the row typed. *)
LEMMA ConfirmedSubmitType ==
  ASSUME NEW row \in Row, NEW t \in Transition, NEW status \in ProposalStatus, NEW at \in Time
  PROVE  ConfirmedSubmit(row, t, status, at) \in Row
  BY ZenonT(60) DEF ConfirmedSubmit, Row, Transition, Action, PaymentStatus

(* Retiring a creation keeps the row typed. *)
LEMMA RetiredType ==
  ASSUME NEW row \in Row
  PROVE  Retired(row) \in Row
  BY ZenonT(60) DEF Retired, Row, Action

(* A terminal verdict, landed or not, keeps the row typed. *)
LEMMA WithTerminalVerdictType ==
  ASSUME NEW row \in Row, NEW t \in Transition, NEW status \in TerminalStatus
  PROVE  WithTerminalVerdict(row, t, status) \in Row
<1>1. RejectionMarker(t.hash) \in Hashes \cup {NULL, NoHash}
  BY DEF RejectionMarker, Transition
<1> DEFINE rejected == [row EXCEPT !.payment_status = status,
                                     !.payment_check_rejected_hash = RejectionMarker(t.hash)]
<1>2. rejected \in Row
  BY <1>1, ZenonT(60) DEF Row, PaymentStatus
<1>3. Retired(rejected) \in Row
  <2> HIDE DEF rejected
  <2> QED
    BY <1>2, RetiredType
<1>4. QED
  BY <1>2, <1>3 DEF WithTerminalVerdict

(* A retryable verdict keeps the row typed. *)
LEMMA WithRetryableVerdictType ==
  ASSUME NEW row \in Row, NEW t, NEW notFound \in BOOLEAN, NEW at \in Time
  PROVE  WithRetryableVerdict(row, t, notFound, at) \in Row
<1> DEFINE clock == IF notFound /\ row.payment_not_found_since = NULL
                      THEN at ELSE row.payment_not_found_since
<1>1. clock \in Time \cup {NULL}
  BY DEF Row
<1>2. [row EXCEPT !.payment_status = "HORIZON_ERROR", !.payment_not_found_since = clock] \in Row
  <2> HIDE DEF clock
  <2> QED
    BY <1>1, ZenonT(60) DEF Row, PaymentStatus
<1>3. QED
  BY <1>2 DEF WithRetryableVerdict

(* A deferred transition keeps the row typed. *)
LEMMA AwaitingRetryType ==
  ASSUME NEW row \in Row
  PROVE  AwaitingRetry(row) \in Row
  BY ZenonT(60) DEF AwaitingRetry, Row, PaymentStatus

(* Re-arming by hand keeps the row typed. *)
LEMMA RearmedType ==
  ASSUME NEW row \in Row, NEW action \in Action, NEW unhide \in BOOLEAN
  PROVE  Rearmed(row, action, unhide) \in Row
<1> DEFINE hidden == IF unhide THEN FALSE ELSE row.hide
<1>1. hidden \in BOOLEAN
  BY DEF Row
<1>2. [row EXCEPT !.action = action,
                  !.payment_status = "FINE",
                  !.payment_check_rejected_hash = NULL,
                  !.payment_not_found_since = NULL,
                  !.hide = hidden] \in Row
  <2> HIDE DEF hidden
  <2> QED
    BY <1>1, ZenonT(60) DEF Row, PaymentStatus
<1>3. QED
  BY <1>2 DEF Rearmed

-----------------------------------------------------------------------------
(* What every worker may rely on between two of its steps. *)
JobOK(job) ==
  /\ job \in Job
  /\ job.pc # "idle" => job.current \in Transition
  /\ job.pc = "staging" /\ job.current.action = "TO_UPDATE" => job.row \in Row

JobsOK == jobs \in [Processes -> Job] /\ \A w \in Processes : JobOK(jobs[w])

TypeInv == TypeOK /\ JobsOK

(* A worker with nothing to do is in order. *)
LEMMA IdleJobOK == JobOK(IdleJob)
  BY DEF JobOK, IdleJob, Job

(* So is one that starts to check a payment. *)
LEMMA CheckJobOK ==
  ASSUME NEW t \in Transition, NEW rest \in SUBSET Transition
  PROVE  JobOK(CheckJob(t, rest))
  BY DEF JobOK, CheckJob, IdleJob, Job

(* So is one that starts to stage a transition. *)
LEMMA StagingJobOK ==
  ASSUME NEW t \in Transition, NEW row \in Row \cup {NULL},
         t.action = "TO_UPDATE" => row \in Row
  PROVE  JobOK(StagingJob(t, row))
  BY DEF JobOK, StagingJob, IdleJob, Job

(* Replacing the job of one worker by a job in order keeps all in order. *)
LEMMA JobUpdate ==
  ASSUME JobsOK, NEW w \in Processes, NEW job, JobOK(job),
         jobs' = [jobs EXCEPT ![w] = job]
  PROVE  JobsOK'
  BY DEF JobsOK, JobOK

(* The process is done with this request. *)
LEMMA DropOK ==
  ASSUME JobsOK, NEW w \in Processes, Drop(w)
  PROVE  JobsOK'
  BY IdleJobOK, JobUpdate DEF Drop

(* The process is done with this row. *)
LEMMA FinishOK ==
  ASSUME JobsOK, NEW w \in Processes, Finish(w)
  PROVE  JobsOK'
<1>1. CASE jobs[w].todo = {}
  BY <1>1, DropOK DEF Finish
<1>2. CASE jobs[w].todo # {}
  <2>1. PICK t \in jobs[w].todo : jobs' = [jobs EXCEPT ![w] = CheckJob(t, @.todo \ {t})]
    BY <1>2 DEF Finish
  <2>2. jobs[w].todo \in SUBSET Transition
    BY DEF JobsOK, Job
  <2>3. JobOK(CheckJob(t, jobs[w].todo \ {t}))
    BY <2>2, CheckJobOK
  <2>4. jobs' = [jobs EXCEPT ![w] = CheckJob(t, jobs[w].todo \ {t})]
    BY <2>1
  <2>5. QED
    BY <2>3, <2>4, JobUpdate
<1>3. QED
  BY <1>1, <1>2

(* A request that starts. *)
LEMMA StartOK ==
  ASSUME TypeInv, NEW w \in Processes, NEW job, JobOK(job), Start(w, job)
  PROVE  TypeInv'
<1>1. JobsOK'
  BY JobUpdate DEF TypeInv, Start
<1>2. TypeOK'
  BY <1>1 DEF TypeInv, TypeOK, Start, tables, JobsOK
<1>3. QED
  BY <1>1, <1>2 DEF TypeInv

(* A worker that is not idle holds a transition of a proposal in the table. *)
LEMMA CurrentType ==
  ASSUME TypeInv, NEW w \in Processes, jobs[w].pc # "idle"
  PROVE  /\ jobs[w].current \in Transition
         /\ jobs[w].current.proposal \in Proposals
         /\ rows[jobs[w].current.proposal] \in Row
  BY DEF TypeInv, TypeOK, JobsOK, JobOK, Transition

(* A verdict written to one row. *)
LEMMA WriteVerdictOK ==
  ASSUME TypeInv, NEW w \in Processes, NEW row \in Row, WriteVerdict(w, row)
  PROVE  TypeInv'
<1>1. JobsOK'
  BY FinishOK DEF TypeInv, WriteVerdict
<1>2. rows' \in [Proposals -> Row]
  BY DEF TypeInv, TypeOK, WriteVerdict
<1>3. TypeOK'
  BY <1>1, <1>2 DEF TypeInv, TypeOK, WriteVerdict, JobsOK
<1>4. QED
  BY <1>1, <1>3 DEF TypeInv

(* Horizon's answers are the answers a job can hold. *)
LEMMA AnswersType ==
  ASSUME NEW t, NEW answer \in HorizonAnswers(t, settled)
  PROVE  answer \in Answers
  BY DEF HorizonAnswers, Answers, Verdict, TerminalStatus

(* The queue only ever holds weeks. *)
LEMMA SyncQueueSlotType ==
  ASSUME NEW table \in [Proposals -> Row], NEW held \in [Proposals -> Weeks \cup {NULL}],
         NEW p \in Proposals
  PROVE  SyncQueueSlot(table, held, p) \in [Proposals -> Weeks \cup {NULL}]
<1>1. table[p].window \in Weeks \cup {NULL}
  BY DEF Row
<1>2. QED
  BY <1>1 DEF SyncQueueSlot, SyncSlot

(* The tables the model starts with. *)
LEMMA TypeInit == Init => TypeInv
<1> SUFFICES ASSUME Init PROVE TypeInv
  OBVIOUS
<1>1. 0 \in Time
  BY MaxTimeAssumption DEF Time
<1>2. \A i \in 1..Len(Genesis) : Genesis[i] \in Transition
  BY GenesisAssumption
<1>3. existing \subseteq Proposals
  BY <1>2 DEF Init, Transition
<1>4. ASSUME NEW p \in existing
      PROVE  GenesisRow(CHOOSE t \in {Genesis[i] : i \in 1..Len(Genesis)} : t.proposal = p) \in Row
  <2> DEFINE t0 == CHOOSE t \in {Genesis[i] : i \in 1..Len(Genesis)} : t.proposal = p
  <2>1. \E t \in {Genesis[i] : i \in 1..Len(Genesis)} : t.proposal = p
    BY <1>4 DEF Init
  <2>2. t0 \in {Genesis[i] : i \in 1..Len(Genesis)}
    BY <2>1
  <2>3. t0 \in Transition
    BY <1>2, <2>2
  <2> HIDE DEF t0
  <2>4. Draft(t0, "FINE", 0) \in Row
    BY <1>1, <2>3, DraftType DEF Transition, PaymentStatus
  <2>5. GenesisRow(t0) \in Row
    BY <1>1, <2>4, ConfirmedCreateType DEF GenesisRow
  <2>6. QED
    BY <2>5 DEF t0
<1>5. AbsentRow \in Row
  BY <1>1, DraftType DEF AbsentRow, PaymentStatus
<1>6. rows \in [Proposals -> Row]
  BY <1>4, <1>5 DEF Init
<1>7. ledger \subseteq Hashes
  BY DEF Init, ResolvedHashes
<1>8. settled \subseteq Payments
  BY <1>7, PaymentOfAssumption DEF Init
<1>9. JobsOK
  BY IdleJobOK DEF Init, JobsOK, JobOK
<1>10. slots \in [Proposals -> Weeks \cup {NULL}] /\ history \subseteq Hashes
  BY DEF Init
<1>11. applied \in Seq(Transition)
  BY GenesisAssumption DEF Init
<1>12. now \in Time
  BY <1>1 DEF Init
<1>13. QED
  BY <1>3, <1>6, <1>7, <1>8, <1>9, <1>10, <1>11, <1>12 DEF TypeInv, TypeOK, JobsOK

-----------------------------------------------------------------------------
(* The steps of a staging request. *)
LEMMA StageType ==
  ASSUME TypeInv, NEW w \in Web, Stage(w)
  PROVE  TypeInv'
<1> USE DEF Processes
<1>1. ASSUME NEW p \in Proposals, NEW h \in Hashes, NEW c \in Contents, BeginCreate(w, p, h, c)
      PROVE  TypeInv'
  <2> DEFINE t == [action |-> "TO_CREATE", proposal |-> p, hash |-> h, content |-> c, window |-> NULL]
  <2>1. t \in Transition /\ t.action # "TO_UPDATE"
    BY DEF Transition, PendingAction
  <2>2. JobOK(StagingJob(t, NULL))
    BY <2>1, StagingJobOK
  <2>3. QED
    BY <1>1, <2>2, StartOK DEF BeginCreate
<1>2. ASSUME NEW p \in Proposals, NEW h \in Hashes, NEW c \in Contents, BeginUpdate(w, p, h, c)
      PROVE  TypeInv'
  <2> DEFINE t == [action |-> "TO_UPDATE", proposal |-> p, hash |-> h, content |-> c, window |-> NULL]
  <2>1. t \in Transition
    BY DEF Transition, PendingAction
  <2>2. rows[p] \in Row
    BY DEF TypeInv, TypeOK
  <2>3. JobOK(StagingJob(t, rows[p]))
    BY <2>1, <2>2, StagingJobOK
  <2>4. QED
    BY <1>2, <2>3, StartOK DEF BeginUpdate
<1>3. ASSUME NEW p \in Proposals, NEW h \in Hashes, NEW window \in Weeks, BeginSubmit(w, p, h, window)
      PROVE  TypeInv'
  <2> DEFINE t == [action |-> "TO_SUBMIT", proposal |-> p, hash |-> h, content |-> NULL, window |-> window]
  <2>1. t \in Transition /\ t.action # "TO_UPDATE"
    BY DEF Transition, PendingAction
  <2>2. JobOK(StagingJob(t, NULL))
    BY <2>1, StagingJobOK
  <2>3. QED
    BY <1>3, <2>2, StartOK DEF BeginSubmit
<1>4. ASSUME CommitCreate(w) \/ CommitUpdate(w) \/ CommitSubmit(w)
      PROVE  TypeInv'
  <2> DEFINE t == jobs[w].current
  <2>1. /\ t \in Transition
        /\ t.proposal \in Proposals
        /\ rows[t.proposal] \in Row
        /\ t.action = "TO_UPDATE" => jobs[w].row \in Row
    BY <1>4, CurrentType DEF TypeInv, JobsOK, JobOK, CommitCreate, CommitUpdate, CommitSubmit
  <2>2. Advisory \subseteq PaymentStatus
    BY InputsAssumption DEF PaymentStatus, TerminalStatus
  <2>3. JobsOK'
    BY <1>4, DropOK DEF TypeInv, CommitCreate, CommitUpdate, CommitSubmit
  <2>4. rows' \in [Proposals -> Row] /\ existing' \subseteq Proposals
    <3>1. CASE CommitCreate(w)
      <4>1. \A advisory \in Advisory : Draft(t, advisory, now) \in Row
        BY <2>1, <2>2, DraftType DEF TypeInv, TypeOK, Transition
      <4>2. QED
        BY <3>1, <2>1, <4>1 DEF CommitCreate, TypeInv, TypeOK
    <3>2. CASE CommitUpdate(w)
      <4>1. t.action = "TO_UPDATE"
        BY <3>2 DEF CommitUpdate
      <4>2. \A advisory \in Advisory : StagedUpdate(jobs[w].row, t, advisory) \in Row
        BY <2>1, <2>2, <4>1, StagedUpdateType
      <4>3. QED
        BY <3>2, <2>1, <4>2 DEF CommitUpdate, TypeInv, TypeOK
    <3>3. CASE CommitSubmit(w)
      <4>1. \A advisory \in Advisory : StagedSubmit(rows[t.proposal], t, advisory) \in Row
        BY <2>1, <2>2, StagedSubmitType
      <4>2. QED
        BY <3>3, <2>1, <4>1 DEF CommitSubmit, TypeInv, TypeOK
    <3>4. QED
      BY <1>4, <3>1, <3>2, <3>3
  <2>5. UNCHANGED <<slots, history, ledger, settled, now, applied>>
    BY <1>4 DEF CommitCreate, CommitUpdate, CommitSubmit
  <2>6. QED
    BY <2>3, <2>4, <2>5 DEF TypeInv, TypeOK, JobsOK
<1>5. QED
  BY <1>1, <1>2, <1>3, <1>4 DEF Stage

(* Starting to check a payment. *)
LEMMA StartType ==
  ASSUME TypeInv,
         StartSweep \/ \E w \in Web, p \in Proposals : StartCheck(w, p)
  PROVE  TypeInv'
<1>1. \A p \in existing : rows[p] \in Row
  BY DEF TypeInv, TypeOK
<1>2. ASSUME NEW w \in Web, NEW p \in Proposals, StartCheck(w, p)
      PROVE  TypeInv'
  <2>1. Resolve(p, rows[p]) \in Transition
    BY <1>1, <1>2, ResolveType DEF StartCheck
  <2>2. JobOK(CheckJob(Resolve(p, rows[p]), {}))
    BY <2>1, CheckJobOK
  <2>3. QED
    BY <1>2, <2>2, StartOK DEF StartCheck, Processes
<1>3. CASE StartSweep
  <2> DEFINE found == {Resolve(p, rows[p]) : p \in {q \in existing : SweepEligible(q)}}
  <2>1. \A p \in existing : SweepEligible(p) => Resolve(p, rows[p]) \in Transition
    BY <1>1, ResolveType DEF SweepEligible, TypeInv, TypeOK
  <2>2. found \subseteq Transition
    BY <2>1
  <2> HIDE DEF found
  <2>3. PICK t \in found : Start(Sweep, CheckJob(t, found \ {t}))
    BY <1>3 DEF StartSweep, found
  <2>4. JobOK(CheckJob(t, found \ {t}))
    BY <2>2, CheckJobOK
  <2>5. QED
    BY <2>3, <2>4, StartOK DEF Processes
<1>4. QED
  BY <1>2, <1>3

(* The steps that write no transition. *)
LEMMA VerdictType ==
  ASSUME TypeInv, NEW w \in Processes,
         \/ AskHorizon(w) \/ RejectUnusableHash(w) \/ RejectPayment(w) \/ RejectAssetCreate(w)
         \/ SkipPromotion(w) \/ DeferPromotion(w) \/ FailPromotion(w)
         \/ RollBackSpent(w) \/ RefuseSpent(w)
  PROVE  TypeInv'
<1> DEFINE t == jobs[w].current
           row == rows[t.proposal]
<1>1. t \in Transition /\ t.proposal \in Proposals /\ row \in Row
  BY CurrentType DEF AskHorizon, RejectUnusableHash, RejectPayment, RejectAssetCreate,
     SkipPromotion, DeferPromotion, FailPromotion, RollBackSpent, RefuseSpent,
     Answered, Confirmed, Writable
<1>2. now \in Time
  BY DEF TypeInv, TypeOK
<1>3. CASE AskHorizon(w)
  <2>1. PICK answer \in HorizonAnswers(t, settled) :
          jobs' = [jobs EXCEPT ![w].pc = "applying", ![w].answer = answer]
    BY <1>3 DEF AskHorizon
  <2>2. answer \in Answers
    BY AnswersType
  <2> DEFINE job == [jobs[w] EXCEPT !.pc = "applying", !.answer = answer]
  <2>3. JobOK(job)
    BY <2>2, <1>1 DEF JobOK, Job, TypeInv, JobsOK
  <2>4. jobs' = [jobs EXCEPT ![w] = job]
    BY <2>1
  <2>5. JobsOK'
    BY <2>3, <2>4, JobUpdate DEF TypeInv
  <2>6. QED
    BY <1>3, <2>5 DEF AskHorizon, TypeInv, TypeOK, JobsOK, tables
<1>4. CASE RejectUnusableHash(w)
  <2>1. WithTerminalVerdict(row, t, "INVALID_PAYMENT") \in Row
    BY <1>1, WithTerminalVerdictType DEF TerminalStatus
  <2>2. QED
    BY <1>4, <2>1, WriteVerdictOK DEF RejectUnusableHash
<1>5. CASE RejectPayment(w)
  <2> DEFINE answer == jobs[w].answer
  <2>1. WithRetryableVerdict(row, t, answer = "NOT_FOUND", now) \in Row
    BY <1>1, <1>2, WithRetryableVerdictType
  <2>2. answer \in TerminalStatus => WithTerminalVerdict(row, t, answer) \in Row
    BY <1>1, WithTerminalVerdictType
  <2>3. QED
    BY <1>5, <2>1, <2>2, WriteVerdictOK DEF RejectPayment, Answered
<1>6. CASE RejectAssetCreate(w)
  <2> DEFINE rejected == [Retired(row) EXCEPT !.last_updated_at = now,
                            !.payment_check_rejected_hash = RejectionMarker(t.hash),
                            !.payment_status = jobs[w].answer]
  <2>1. RejectionMarker(t.hash) \in Hashes \cup {NULL, NoHash}
    BY <1>1 DEF RejectionMarker, Transition
  <2>2. Retired(row) \in Row
    BY <1>1, RetiredType
  <2>3. jobs[w].answer \in PaymentStatus
    BY <1>6 DEF RejectAssetCreate, Answered, PaymentStatus
  <2>4. rejected \in Row
    BY <1>2, <2>1, <2>2, <2>3, ZenonT(60) DEF Row
  <2>5. QED
    BY <1>1, <1>6, <2>4, WriteVerdictOK DEF RejectAssetCreate
<1>7. CASE SkipPromotion(w) \/ FailPromotion(w)
  <2>1. JobsOK'
    BY <1>7, FinishOK DEF SkipPromotion, FailPromotion, TypeInv
  <2>2. QED
    BY <1>7, <2>1 DEF SkipPromotion, FailPromotion, TypeInv, TypeOK, JobsOK, tables
<1>8. CASE DeferPromotion(w)
  <2>1. AwaitingRetry(row) \in Row
    BY <1>1, AwaitingRetryType
  <2>2. QED
    BY <1>8, <2>1, WriteVerdictOK DEF DeferPromotion
<1>9. CASE RollBackSpent(w)
  <2> DEFINE job == [jobs[w] EXCEPT !.pc = "refusing"]
  <2>1. JobOK(job)
    BY <1>1 DEF JobOK, Job, TypeInv, JobsOK
  <2>2. JobsOK'
    BY <1>9, <2>1, JobUpdate DEF RollBackSpent, TypeInv
  <2>3. QED
    BY <1>9, <2>2 DEF RollBackSpent, TypeInv, TypeOK, JobsOK, tables
<1>10. CASE RefuseSpent(w)
  <2>1. WithTerminalVerdict(row, t, "INVALID_PAYMENT") \in Row
    BY <1>1, WithTerminalVerdictType DEF TerminalStatus
  <2>2. QED
    BY <1>10, <2>1, WriteVerdictOK DEF RefuseSpent
<1>11. QED
  BY <1>3, <1>4, <1>5, <1>6, <1>7, <1>8, <1>9, <1>10

(* What a promotion has checked by the time it writes. *)
LEMMA PromoteFacts ==
  ASSUME TypeInv, NEW w \in Processes, Promote(w)
  PROVE  /\ jobs[w].current \in Transition
         /\ Answered(w, {"FINE"})
         /\ Unspent(jobs[w].current)
         /\ Claim(jobs[w].current)
         /\ Finish(w)
         /\ UNCHANGED <<existing, settled, now>>
<1>1. Answered(w, {"FINE"})
  BY DEF Promote, PromoteCreate, PromoteUpdate, PromoteSubmit, Promoted, Writable, Confirmed
<1>2. jobs[w].current \in Transition
  BY <1>1, CurrentType DEF Answered
<1>3. QED
  BY <1>1, <1>2 DEF Promote, PromoteCreate, PromoteUpdate, PromoteSubmit, Promoted,
    ApplyCreate, ApplyUpdate, ApplySubmit

(* The steps that write one. *)
LEMMA PromoteType ==
  ASSUME TypeInv, NEW w \in Processes, Promote(w)
  PROVE  TypeInv'
<1> DEFINE t == jobs[w].current
           row == rows[t.proposal]
<1>1. t \in Transition /\ t.proposal \in Proposals /\ row \in Row
  BY PromoteFacts, CurrentType DEF Answered
<1>2. now \in Time
  BY DEF TypeInv, TypeOK
<1>3. JobsOK'
  BY PromoteFacts, FinishOK DEF TypeInv
<1>4. ledger' \subseteq Hashes /\ applied' \in Seq(Transition)
  <2>1. ResolvedHashes(t.hash) \subseteq Hashes
    BY DEF ResolvedHashes
  <2>2. QED
    BY <1>1, <2>1, PromoteFacts DEF Claim, TypeInv, TypeOK
<1>5. Archived(t) \subseteq Hashes
  BY <1>1 DEF Archived, Row
<1>6. /\ rows' \in [Proposals -> Row]
      /\ history' \subseteq Hashes
      /\ slots' \in [Proposals -> Weeks \cup {NULL}]
  <2>1. CASE PromoteCreate(w)
    <3>1. ConfirmedCreate(row, IsAsset(t.proposal), now) \in Row
      BY <1>1, <1>2, ConfirmedCreateType DEF IsAsset
    <3>2. QED
      BY <2>1, <3>1, <1>1 DEF PromoteCreate, ApplyCreate, TypeInv, TypeOK
  <2>2. CASE PromoteUpdate(w)
    <3>1. ConfirmedUpdate(row, t, now) \in Row
      BY <1>1, <1>2, ConfirmedUpdateType
    <3>2. QED
      BY <2>2, <3>1, <1>1, <1>5 DEF PromoteUpdate, ApplyUpdate, TypeInv, TypeOK
  <2>3. CASE PromoteSubmit(w)
    <3>1. SubmitStatus(t) \in ProposalStatus
      BY DEF SubmitStatus, ProposalStatus
    <3>2. ConfirmedSubmit(row, t, SubmitStatus(t), now) \in Row
      BY <1>1, <1>2, <3>1, ConfirmedSubmitType
    <3>3. rows' \in [Proposals -> Row]
      BY <2>3, <3>2, <1>1 DEF PromoteSubmit, ApplySubmit, TypeInv, TypeOK
    <3>4. SyncQueueSlot(rows', slots, t.proposal) \in [Proposals -> Weeks \cup {NULL}]
      BY <1>1, <3>3, SyncQueueSlotType DEF TypeInv, TypeOK
    <3>5. QED
      BY <2>3, <3>3, <3>4, <1>5 DEF PromoteSubmit, ApplySubmit, TypeInv, TypeOK
  <2>4. QED
    BY <2>1, <2>2, <2>3 DEF Promote
<1>7. QED
  BY <1>3, <1>4, <1>6, PromoteFacts DEF TypeInv, TypeOK, JobsOK

(* No step leaves the types. *)
LEMMA TypeStep == TypeInv /\ [Next]_vars => TypeInv'
<1> SUFFICES ASSUME TypeInv, [Next]_vars PROVE TypeInv'
  OBVIOUS
<1>1. CASE \E pay \in Payments : Settle(pay)
  BY <1>1 DEF Settle, TypeInv, TypeOK, JobsOK, tables
<1>2. CASE Tick
  <2>1. now' \in Time
    BY <1>2, MaxTimeAssumption DEF Tick, Time, TypeInv, TypeOK
  <2>2. QED
    BY <1>2, <2>1 DEF Tick, TypeInv, TypeOK, JobsOK, tables
<1>3. CASE \E w \in Web : Stage(w)
  BY <1>3, StageType
<1>4. CASE StartSweep \/ \E w \in Web, p \in Proposals : StartCheck(w, p)
  BY <1>4, StartType
<1>5. ASSUME NEW w \in Processes, Check(w)
      PROVE  TypeInv'
  BY <1>5, VerdictType, PromoteType DEF Check
<1>6. ASSUME NEW w \in Processes, Deadlock(w)
      PROVE  TypeInv'
  <2> DEFINE job == [jobs[w] EXCEPT !.pc = "verifying", !.answer = NULL, !.retried = TRUE]
  <2>1. jobs[w].current \in Transition
    BY <1>6, CurrentType DEF Deadlock, Answered
  <2>2. JobOK(job)
    BY <2>1 DEF JobOK, Job, TypeInv, JobsOK
  <2>3. JobsOK'
    <3>1. CASE jobs[w].retried
      BY <1>6, <3>1, FinishOK DEF Deadlock, TypeInv
    <3>2. CASE ~jobs[w].retried
      <4>1. jobs' = [jobs EXCEPT ![w] = job]
        BY <1>6, <3>2 DEF Deadlock
      <4>2. QED
        BY <2>2, <4>1, JobUpdate DEF TypeInv
    <3>3. QED
      BY <3>1, <3>2
  <2>4. QED
    BY <1>6, <2>3 DEF Deadlock, TypeInv, TypeOK, JobsOK, tables
<1>7. ASSUME NEW w \in Processes, Crash(w)
      PROVE  TypeInv'
  <2>1. JobsOK'
    BY <1>7, DropOK DEF Crash, TypeInv
  <2>2. QED
    BY <1>7, <2>1 DEF Crash, TypeInv, TypeOK, JobsOK, tables
<1>8. ASSUME NEW p \in Proposals, NEW r \in RearmActions, Rearm(p, r[1], r[2])
      PROVE  TypeInv'
  <2>1. r[1] \in Action /\ r[2] \in BOOLEAN
    BY InputsAssumption
  <2>2. rows[p] \in Row
    BY DEF TypeInv, TypeOK
  <2>3. Rearmed(rows[p], r[1], r[2]) \in Row
    BY <2>1, <2>2, RearmedType
  <2>4. QED
    BY <1>8, <2>3 DEF Rearm, TypeInv, TypeOK, JobsOK, JobOK
<1>9. CASE UNCHANGED vars
  BY <1>9 DEF vars, TypeInv, TypeOK, JobsOK
<1>10. QED
  BY <1>1, <1>2, <1>3, <1>4, <1>5, <1>6, <1>7, <1>8, <1>9 DEF Next

(* The tables and the workers always hold what their columns allow. *)
THEOREM TypeCorrect == Spec => []TypeOK
<1>1. TypeInv => TypeOK
  BY DEF TypeInv
<1>2. QED
  BY <1>1, TypeInit, TypeStep, PTL DEF Spec

-----------------------------------------------------------------------------
(* The ledger.  BurnedIffApplied, AppliedAuthorised and SingleUse are not  *)
(* inductive alone: a promotion may only spend what its worker verified,   *)
(* so the verdicts workers hold are part of the invariant.                 *)

(* A worker about to apply a transition holds it together with the verdict *)
(* on that very transition, about a payment that has settled.              *)
VerdictSound ==
  \A w \in Processes : Answered(w, {"FINE"}) =>
    /\ Authorised(jobs[w].current)
    /\ PaymentOf[jobs[w].current.hash] \in settled

LedgerInv == TypeInv /\ VerdictSound /\ AppliedAuthorised /\ BurnedIffApplied /\ SingleUse

(* A worker that goes on with anything but an answer keeps verdicts sound. *)
LEMMA VerdictKept ==
  ASSUME TypeInv, VerdictSound, NEW w \in Processes, NEW job, job.pc # "applying",
         jobs' = [jobs EXCEPT ![w] = job], settled' = settled
  PROVE  VerdictSound'
<1>1. \A v \in Processes : jobs'[v] = IF v = w THEN job ELSE jobs[v]
  BY DEF TypeInv, JobsOK
<1>2. QED
  BY <1>1 DEF VerdictSound, Answered

(* Going on to the next row, or to no row, is such a step. *)
LEMMA VerdictFinished ==
  ASSUME TypeInv, VerdictSound, NEW w \in Processes, Finish(w), settled' = settled
  PROVE  VerdictSound'
<1>1. CASE jobs[w].todo = {}
  <2>1. IdleJob.pc # "applying"
    BY DEF IdleJob
  <2>2. QED
    BY <1>1, <2>1, VerdictKept DEF Finish, Drop
<1>2. CASE jobs[w].todo # {}
  <2>1. PICK t \in jobs[w].todo : jobs' = [jobs EXCEPT ![w] = CheckJob(t, @.todo \ {t})]
    BY <1>2 DEF Finish
  <2>2. jobs' = [jobs EXCEPT ![w] = CheckJob(t, jobs[w].todo \ {t})]
    BY <2>1
  <2>3. CheckJob(t, jobs[w].todo \ {t}).pc # "applying"
    BY DEF CheckJob, IdleJob
  <2>4. QED
    BY <2>2, <2>3, VerdictKept
<1>3. QED
  BY <1>1, <1>2

(* Horizon's FINE is about a settled payment made for this transition. *)
LEMMA FineIsAuthorised ==
  ASSUME NEW t \in Transition, t.hash # NULL, "FINE" \in HorizonAnswers(t, settled)
  PROVE  Authorised(t) /\ PaymentOf[t.hash] \in settled
  BY DEF HorizonAnswers, Authorised, Transition

(* Verdicts stay sound in every step. *)
LEMMA VerdictStep == TypeInv /\ VerdictSound /\ [Next]_vars => VerdictSound'
<1> SUFFICES ASSUME TypeInv, VerdictSound, [Next]_vars PROVE VerdictSound'
  OBVIOUS
<1>1. CASE \E pay \in Payments : Settle(pay)
  BY <1>1 DEF Settle, VerdictSound, Answered
<1>2. CASE Tick \/ \E p \in Proposals, r \in RearmActions : Rearm(p, r[1], r[2])
  BY <1>2 DEF Tick, Rearm, VerdictSound, Answered
<1>3. ASSUME NEW w \in Processes, NEW job, Start(w, job), job.pc # "applying"
      PROVE  VerdictSound'
  BY <1>3, VerdictKept DEF Start
<1>4. ASSUME NEW w \in Web, Stage(w)
      PROVE  VerdictSound'
  <2>1. CASE CommitCreate(w) \/ CommitUpdate(w) \/ CommitSubmit(w)
    <3>1. IdleJob.pc # "applying"
      BY DEF IdleJob
    <3>2. QED
      BY <2>1, <3>1, VerdictKept DEF CommitCreate, CommitUpdate, CommitSubmit, Drop, Processes
  <2>2. CASE ~(CommitCreate(w) \/ CommitUpdate(w) \/ CommitSubmit(w))
    <3>1. \E t, row : Start(w, StagingJob(t, row))
      BY <1>4, <2>2 DEF Stage, BeginCreate, BeginUpdate, BeginSubmit
    <3>2. \A t, row : StagingJob(t, row).pc # "applying"
      BY DEF StagingJob, IdleJob
    <3>3. QED
      BY <1>3, <3>1, <3>2 DEF Processes
  <2>3. QED
    BY <2>1, <2>2
<1>5. CASE StartSweep \/ \E w \in Web, p \in Proposals : StartCheck(w, p)
  <2>1. \E w \in Processes : \E t, rest : Start(w, CheckJob(t, rest))
    BY <1>5 DEF StartSweep, StartCheck, Processes
  <2>2. \A t, rest : CheckJob(t, rest).pc # "applying"
    BY DEF CheckJob, IdleJob
  <2>3. QED
    BY <1>3, <2>1, <2>2
<1>6. ASSUME NEW w \in Processes, AskHorizon(w)
      PROVE  VerdictSound'
  <2> DEFINE t == jobs[w].current
  <2>1. PICK answer \in HorizonAnswers(t, settled) :
          jobs' = [jobs EXCEPT ![w].pc = "applying", ![w].answer = answer]
    BY <1>6 DEF AskHorizon
  <2>2. t \in Transition /\ t.hash # NULL
    BY <1>6, CurrentType DEF AskHorizon
  <2>3. answer = "FINE" => Authorised(t) /\ PaymentOf[t.hash] \in settled
    BY <2>2, FineIsAuthorised
  <2>4. \A v \in Processes : jobs'[v] = IF v = w THEN [jobs[w] EXCEPT !.pc = "applying", !.answer = answer]
                                                 ELSE jobs[v]
    BY <2>1 DEF TypeInv, JobsOK
  <2>5. jobs[w] \in Job
    BY DEF TypeInv, JobsOK
  <2>6. jobs'[w].current = t /\ jobs'[w].answer = answer
    BY <2>4, <2>5 DEF Job
  <2>7. settled' = settled
    BY <1>6 DEF AskHorizon
  <2>8. QED
    BY <2>3, <2>4, <2>6, <2>7 DEF VerdictSound, Answered
<1>7. ASSUME NEW w \in Processes, RollBackSpent(w)
      PROVE  VerdictSound'
  <2> DEFINE job == [jobs[w] EXCEPT !.pc = "refusing"]
  <2>1. job.pc # "applying"
    BY DEF TypeInv, JobsOK, Job
  <2>2. jobs' = [jobs EXCEPT ![w] = job] /\ settled' = settled
    BY <1>7 DEF RollBackSpent
  <2>3. QED
    BY <2>1, <2>2, VerdictKept
<1>8. ASSUME NEW w \in Processes,
             \/ RejectUnusableHash(w) \/ RejectPayment(w) \/ RejectAssetCreate(w) \/ SkipPromotion(w)
             \/ DeferPromotion(w) \/ FailPromotion(w) \/ RefuseSpent(w) \/ Promote(w)
      PROVE  VerdictSound'
  <2>1. Finish(w) /\ settled' = settled
    BY <1>8, PromoteFacts DEF RejectUnusableHash, RejectPayment, RejectAssetCreate, SkipPromotion,
       DeferPromotion, FailPromotion, RefuseSpent, WriteVerdict
  <2>2. QED
    BY <2>1, VerdictFinished
<1>9. ASSUME NEW w \in Processes, Deadlock(w)
      PROVE  VerdictSound'
  <2> DEFINE job == [jobs[w] EXCEPT !.pc = "verifying", !.answer = NULL, !.retried = TRUE]
  <2>1. settled' = settled
    BY <1>9 DEF Deadlock
  <2>2. CASE jobs[w].retried
    BY <1>9, <2>1, <2>2, VerdictFinished DEF Deadlock
  <2>3. CASE ~jobs[w].retried
    <3>1. jobs' = [jobs EXCEPT ![w] = job]
      BY <1>9, <2>3 DEF Deadlock
    <3>2. job.pc # "applying"
      BY DEF TypeInv, JobsOK, Job
    <3>3. QED
      BY <2>1, <3>1, <3>2, VerdictKept
  <2>4. QED
    BY <2>2, <2>3
<1>10. ASSUME NEW w \in Processes, Crash(w)
       PROVE  VerdictSound'
  <2>1. IdleJob.pc # "applying"
    BY DEF IdleJob
  <2>2. QED
    BY <1>10, <2>1, VerdictKept DEF Crash, Drop
<1>11. CASE UNCHANGED vars
  BY <1>11 DEF vars, VerdictSound, Answered
<1>12. QED
  BY <1>1, <1>2, <1>4, <1>5, <1>6, <1>7, <1>8, <1>9, <1>10, <1>11 DEF Next, Check, Processes

(* Only a promotion touches the ledger and the history table, and a       *)
(* settled payment stays so.                                               *)
LEMMA LedgerFrame ==
  ASSUME TypeInv, [Next]_vars
  PROVE  /\ settled \subseteq settled'
         /\ (\E w \in Processes : Promote(w)) \/ UNCHANGED <<history, ledger, applied>>
<1>1. CASE \E pay \in Payments : Settle(pay)
  BY <1>1 DEF Settle, tables
<1>2. CASE Tick \/ \E p \in Proposals, r \in RearmActions : Rearm(p, r[1], r[2])
  BY <1>2 DEF Tick, Rearm, tables
<1>3. ASSUME NEW w \in Web, Stage(w)
      PROVE  UNCHANGED <<history, ledger, applied, settled>>
  BY <1>3 DEF Stage, BeginCreate, BeginUpdate, BeginSubmit, Start, CommitCreate, CommitUpdate,
     CommitSubmit, tables
<1>4. CASE StartSweep \/ \E w \in Web, p \in Proposals : StartCheck(w, p)
  BY <1>4 DEF StartSweep, StartCheck, Start, tables
<1>5. ASSUME NEW w \in Processes, Check(w), ~Promote(w)
      PROVE  UNCHANGED <<history, ledger, applied, settled>>
  BY <1>5 DEF Check, AskHorizon, RejectUnusableHash, RejectPayment, RejectAssetCreate, SkipPromotion,
     DeferPromotion, FailPromotion, RollBackSpent, RefuseSpent, WriteVerdict, tables
<1>6. ASSUME NEW w \in Processes, Promote(w)
      PROVE  UNCHANGED settled
  BY <1>6, PromoteFacts
<1>7. ASSUME NEW w \in Processes, Deadlock(w) \/ Crash(w)
      PROVE  UNCHANGED <<history, ledger, applied, settled>>
  BY <1>7 DEF Deadlock, Crash, tables
<1>8. CASE UNCHANGED vars
  BY <1>8 DEF vars
<1>9. QED
  BY <1>1, <1>2, <1>3, <1>4, <1>5, <1>6, <1>7, <1>8 DEF Next

(* The payment of a claimed hash is the payment of every hash claimed with *)
(* it, and a paid hash is among the hashes its payment resolves under.     *)
LEMMA Resolution ==
  /\ \A hash \in Hashes : hash \in ResolvedHashes(hash)
  /\ \A hash, h : h \in ResolvedHashes(hash) => h \in Hashes /\ PaymentOf[h] = PaymentOf[hash]
  /\ \A hash, h : h \in Hashes /\ PaymentOf[h] = PaymentOf[hash] => h \in ResolvedHashes(hash)
  BY DEF ResolvedHashes

(* The opening creations satisfy the ledger's invariant. *)
LEMMA LedgerInit == Init => LedgerInv
<1> SUFFICES ASSUME Init PROVE LedgerInv
  OBVIOUS
<1>1. TypeInv
  BY TypeInit
<1>2. /\ applied = Genesis
      /\ DOMAIN applied = 1..Len(Genesis)
      /\ Genesis \in Seq(Transition)
  BY GenesisAssumption DEF Init
<1>3. BurnedIffApplied
  BY <1>2 DEF Init, BurnedIffApplied
<1>4. VerdictSound
  BY DEF Init, VerdictSound, Answered, IdleJob
<1>5. \A i \in DOMAIN applied : Authorised(applied[i])
  BY <1>2, GenesisAssumption
<1>6. AppliedAuthorised
  <2>1. ASSUME NEW i \in DOMAIN applied
        PROVE  PaymentOf[applied[i].hash] \in settled
    <3>1. applied[i].hash \in ResolvedHashes(applied[i].hash)
      BY <1>5, Resolution DEF Authorised
    <3>2. applied[i].hash \in ledger
      BY <1>3, <3>1 DEF BurnedIffApplied
    <3>3. QED
      BY <3>2 DEF Init
  <2>2. QED
    BY <1>5, <2>1 DEF AppliedAuthorised
<1>7. SingleUse
  BY <1>2, GenesisAssumption DEF SingleUse
<1>8. QED
  BY <1>1, <1>3, <1>4, <1>6, <1>7 DEF LedgerInv

(* The log after one promotion. *)
LEMMA AppendedLog ==
  ASSUME TypeInv, NEW t \in Transition, applied' = Append(applied, t)
  PROVE  /\ DOMAIN applied' = DOMAIN applied \cup {Len(applied) + 1}
         /\ Len(applied) + 1 \notin DOMAIN applied
         /\ Len(applied') = Len(applied) + 1
         /\ \A i \in DOMAIN applied : applied'[i] = applied[i]
         /\ applied'[Len(applied) + 1] = t
<1>1. applied \in Seq(Transition)
  BY DEF TypeInv, TypeOK
<1>2. QED
  BY <1>1

(* The payment of a promoted transition was unspent before. *)
LEMMA PromotedPaymentIsNew ==
  ASSUME LedgerInv, NEW w \in Processes, Promote(w)
  PROVE  /\ Authorised(jobs[w].current)
         /\ PaymentOf[jobs[w].current.hash] \in settled
         /\ \A h \in ledger : PaymentOf[h] # PaymentOf[jobs[w].current.hash]
         /\ \A i \in DOMAIN applied : PaymentOf[applied[i].hash] # PaymentOf[jobs[w].current.hash]
<1> DEFINE t == jobs[w].current
<1>1. Answered(w, {"FINE"}) /\ Unspent(t)
  BY PromoteFacts DEF LedgerInv
<1>2. Authorised(t) /\ PaymentOf[t.hash] \in settled
  BY <1>1 DEF LedgerInv, VerdictSound
<1>3. ASSUME NEW h \in ledger
      PROVE  PaymentOf[h] # PaymentOf[t.hash]
  <2>1. h \in Hashes
    BY DEF LedgerInv, TypeInv, TypeOK
  <2>2. h \notin ResolvedHashes(t.hash)
    BY <1>1 DEF Unspent
  <2>3. QED
    BY <2>1, <2>2, Resolution
<1>4. ASSUME NEW i \in DOMAIN applied
      PROVE  PaymentOf[applied[i].hash] # PaymentOf[t.hash]
  <2>1. applied[i].hash \in ResolvedHashes(applied[i].hash)
    BY Resolution DEF LedgerInv, AppliedAuthorised, Authorised
  <2>2. applied[i].hash \in ledger
    BY <2>1 DEF LedgerInv, BurnedIffApplied
  <2>3. QED
    BY <1>3, <2>2
<1>5. QED
  BY <1>2, <1>3, <1>4

(* A promotion keeps the ledger's invariant, and nothing else touches it. *)
LEMMA LedgerStep == LedgerInv /\ [Next]_vars => LedgerInv'
<1> SUFFICES ASSUME LedgerInv, [Next]_vars PROVE LedgerInv'
  OBVIOUS
<1>1. TypeInv' /\ VerdictSound'
  BY TypeStep, VerdictStep DEF LedgerInv
<1>2. settled \subseteq settled'
  BY LedgerFrame DEF LedgerInv
<1>3. CASE UNCHANGED <<ledger, applied>>
  <2>1. AppliedAuthorised'
    BY <1>2, <1>3 DEF LedgerInv, AppliedAuthorised
  <2>2. BurnedIffApplied' /\ SingleUse'
    BY <1>3 DEF LedgerInv, BurnedIffApplied, SingleUse
  <2>3. QED
    BY <1>1, <2>1, <2>2 DEF LedgerInv
<1>4. ASSUME NEW w \in Processes, Promote(w)
      PROVE  LedgerInv'
  <2> DEFINE t == jobs[w].current
             n == Len(applied) + 1
  <2>1. t \in Transition /\ Claim(t)
    BY <1>4, PromoteFacts DEF LedgerInv
  <2>2. /\ DOMAIN applied' = DOMAIN applied \cup {n}
        /\ n \notin DOMAIN applied
        /\ \A i \in DOMAIN applied : applied'[i] = applied[i]
        /\ applied'[n] = t
    BY <2>1, AppendedLog DEF Claim, LedgerInv
  <2>3. /\ Authorised(t)
        /\ PaymentOf[t.hash] \in settled
        /\ \A i \in DOMAIN applied : PaymentOf[applied[i].hash] # PaymentOf[t.hash]
    BY <1>4, PromotedPaymentIsNew
  <2> HIDE DEF t, n
  <2>4. AppliedAuthorised'
    BY <1>2, <2>2, <2>3 DEF LedgerInv, AppliedAuthorised
  <2>5. BurnedIffApplied'
    BY <2>1, <2>2 DEF LedgerInv, BurnedIffApplied, Claim
  <2>6. SingleUse'
    BY <2>2, <2>3 DEF LedgerInv, SingleUse
  <2>7. QED
    BY <1>1, <2>4, <2>5, <2>6 DEF LedgerInv
<1>5. QED
  BY <1>3, <1>4, LedgerFrame DEF LedgerInv

(* However many workers, hashes and purposes a payment is presented        *)
(* through, check_transaction applies at most one transition for it.       *)
THEOREM PaymentUsedOnce == Spec => []SingleUse
<1>1. LedgerInv => SingleUse
  BY DEF LedgerInv
<1>2. QED
  BY <1>1, LedgerInit, LedgerStep, PTL DEF Spec

(* I-2: ConsumedTransaction holds the hashes of the applied transitions,   *)
(* all of them and no others.                                              *)
THEOREM BurnedExactly == Spec => []BurnedIffApplied
<1>1. LedgerInv => BurnedIffApplied
  BY DEF LedgerInv
<1>2. QED
  BY <1>1, LedgerInit, LedgerStep, PTL DEF Spec

(* Every transition check_transaction applied was verified, with the very  *)
(* values it wrote, against a payment that had settled.                    *)
THEOREM AppliedWasPaid == Spec => []AppliedAuthorised
<1>1. LedgerInv => AppliedAuthorised
  BY DEF LedgerInv
<1>2. QED
  BY <1>1, LedgerInit, LedgerStep, PTL DEF Spec

-----------------------------------------------------------------------------
(* Refinement.                                                             *)

(* A fresh state is a fresh ledger. *)
LEMMA LedgerRefinesInit == Init => Ledger!Init
<1> SUFFICES ASSUME Init PROVE Ledger!Init
  OBVIOUS
<1>1. applied = Genesis /\ DOMAIN Genesis = 1..Len(Genesis)
  BY GenesisAssumption DEF Init
<1>2. ledger = UNION {ResolvedHashes(Genesis[i].hash) : i \in DOMAIN Genesis}
  BY <1>1 DEF Init
<1>3. \A i \in DOMAIN Genesis : Genesis[i].hash \in Hashes
  BY <1>1, GenesisAssumption DEF Authorised
<1>4. {PaymentOf[h] : h \in ledger} = {PaymentOf[Genesis[i].hash] : i \in DOMAIN Genesis}
  <2>1. ASSUME NEW h \in ledger
        PROVE  \E i \in DOMAIN Genesis : PaymentOf[h] = PaymentOf[Genesis[i].hash]
    BY <1>2, <2>1, Resolution
  <2>2. ASSUME NEW i \in DOMAIN Genesis
        PROVE  Genesis[i].hash \in ledger
    BY <1>2, <1>3, <2>2, Resolution
  <2>3. QED
    BY <2>1, <2>2
<1>5. QED
  BY <1>1, <1>4 DEF Ledger!Init, PaidBy

(* Every step is a step of the abstract ledger, or leaves it alone. *)
LEMMA LedgerRefinesNext ==
  ASSUME LedgerInv, [Next]_vars
  PROVE  [Ledger!Next]_<<{PaymentOf[h] : h \in ledger}, applied>>
<1>1. CASE UNCHANGED <<ledger, applied>>
  BY <1>1
<1>2. ASSUME NEW w \in Processes, Promote(w)
      PROVE  Ledger!Next
  <2> DEFINE t == jobs[w].current
  <2>1. t \in Transition /\ Claim(t)
    BY <1>2, PromoteFacts DEF LedgerInv
  <2>2. Authorised(t) /\ \A h \in ledger : PaymentOf[h] # PaymentOf[t.hash]
    BY <1>2, PromotedPaymentIsNew
  <2>3. t \in Mandates
    BY <1>2, <2>1, <2>2 DEF Mandates, Promote, PromoteCreate, PromoteUpdate, PromoteSubmit, Promoted, Writable,
       Confirmed
  <2>4. PaidBy(t) \notin {PaymentOf[h] : h \in ledger}
    BY <2>2 DEF PaidBy
  <2>5. {PaymentOf[h] : h \in ledger'} = {PaymentOf[h] : h \in ledger} \cup {PaidBy(t)}
    <3>1. ledger' = ledger \cup ResolvedHashes(t.hash)
      BY <2>1 DEF Claim
    <3>2. t.hash \in ResolvedHashes(t.hash)
      BY <2>2, Resolution DEF Authorised
    <3>3. \A h \in ResolvedHashes(t.hash) : PaymentOf[h] = PaymentOf[t.hash]
      BY Resolution
    <3>4. QED
      BY <3>1, <3>2, <3>3 DEF PaidBy
  <2>6. applied' = Append(applied, t)
    BY <2>1 DEF Claim
  <2>7. applied' # applied
    BY <2>1, <2>6, AppendedLog DEF LedgerInv
  <2>8. QED
    BY <2>3, <2>4, <2>5, <2>6, <2>7 DEF Ledger!Next, Ledger!Apply
<1>3. QED
  BY <1>1, <1>2, LedgerFrame DEF LedgerInv

(* Concurrent requests, sweeps, failures and the consumed-hash table       *)
(* together implement the ledger that spends each payment on one           *)
(* transition, in one step.                                                *)
THEOREM LedgerRefinement == Spec => ImplementsLedger
<1>1. LedgerInv /\ [Next]_vars => [Ledger!Next]_<<{PaymentOf[h] : h \in ledger}, applied>>
  BY LedgerRefinesNext
<1>2. QED
  BY <1>1, LedgerInit, LedgerStep, LedgerRefinesInit, PTL DEF Spec, ImplementsLedger, Ledger!Spec
=============================================================================
