-------------------------- MODULE Publication_proofs --------------------------
(***************************************************************************)
(* What the public sees of a proposal, for every number of proposals,      *)
(* workers and payments: the verdict it carries, and that it was paid for. *)
(***************************************************************************)
EXTENDS Tables_proofs

-----------------------------------------------------------------------------
(* Verdicts on published rows.                                             *)

Clean(row) ==
  row.action = "NONE" /\ ~row.hide =>
    /\ row.payment_status = "FINE"
    /\ row.payment_check_rejected_hash = NULL
    /\ row.payment_not_found_since = NULL

CleanInv == TypeInv /\ \A p \in Proposals : Clean(rows[p])

(* Opening creations are clean. *)
LEMMA CleanInit == Init => CleanInv
<1> SUFFICES ASSUME Init PROVE CleanInv
  OBVIOUS
<1>1. AbsentRow.action = "TO_CREATE"
  BY DEF AbsentRow, Draft
<1>2. \A p \in Proposals : Clean(rows[p])
  BY <1>1, OpeningRows, GenesisColumns DEF Clean
<1>3. QED
  BY <1>2, TypeInit DEF CleanInv

(* Every write that leaves nothing pending leaves a clean row, or one out  *)
(* of sight.                                                               *)
LEMMA CleanStep == CleanInv /\ [Next]_vars => CleanInv'
<1> SUFFICES ASSUME CleanInv, [Next]_vars PROVE CleanInv'
  OBVIOUS
<1>1. TypeInv /\ TypeInv'
  BY TypeStep DEF CleanInv
<1> SUFFICES ASSUME NEW p \in Proposals PROVE Clean(rows'[p])
  BY <1>1 DEF CleanInv, Clean
<1>2. Clean(rows[p])
  BY DEF CleanInv
<1>3. CASE OnlyVerdicts
  BY <1>2, <1>3 DEF OnlyVerdicts, VerdictStepOf, VerdictWrite, SameOffer, Clean
<1>4. ASSUME NEW w \in Web, Commit(w)
      PROVE  Clean(rows'[p])
  <2>1. rows'[p] = rows[p] \/ rows'[p].action # "NONE"
    BY <1>1, <1>4, CommittedRow, DraftColumns, StagedUpdateColumns, StagedSubmitColumns
  <2>2. QED
    BY <1>2, <2>1 DEF Clean
<1>5. ASSUME NEW w \in Processes, Promote(w)
      PROVE  Clean(rows'[p])
  <2>1. \/ rows'[p] = rows[p]
        \/ /\ rows'[p].payment_status = "FINE"
           /\ rows'[p].payment_check_rejected_hash = NULL
           /\ rows'[p].payment_not_found_since = NULL
    BY <1>1, <1>5, PromotedRow, ConfirmedCreateColumns, ConfirmedUpdateColumns, ConfirmedSubmitColumns
  <2>2. QED
    BY <1>2, <2>1 DEF Clean
<1>6. ASSUME NEW q \in Proposals, NEW r \in RearmActions, Rearm(q, r[1], r[2])
      PROVE  Clean(rows'[p])
  BY <1>1, <1>2, <1>6, RearmedRow DEF Clean
<1>7. QED
  BY <1>1, <1>3, <1>4, <1>5, <1>6, StepKinds

(* I-4': the verdict of a worker that lost the race for a row never shows  *)
(* on a proposal on which nothing is pending, whatever an operator re-arms.*)
THEOREM PublishedIsClean == Spec => []PromotedIsClean
<1>1. CleanInv => PromotedIsClean
  BY DEF CleanInv, Clean, PromotedIsClean, TypeInv, TypeOK
<1>2. QED
  BY <1>1, CleanInit, CleanStep, PTL DEF Spec

-----------------------------------------------------------------------------
(* Publication.                                                            *)

(* The public columns of a row of p were written by transitions in log.    *)
Paid(log, p, row) ==
  /\ \E i \in DOMAIN log : /\ log[i].proposal = p
                           /\ log[i].action \in PendingAction
                           /\ log[i].hash = row.transaction_hash
  /\ \E i \in DOMAIN log : /\ log[i].proposal = p
                           /\ log[i].action \in {"TO_CREATE", "TO_UPDATE"}
                           /\ log[i].content = row.content
  /\ row.window # NULL =>
       \E i \in DOMAIN log : /\ log[i].proposal = p
                             /\ log[i].action = "TO_SUBMIT"
                             /\ log[i].window = row.window

InPublic(row) == ~row.hide /\ ~row.draft

PublicPaid == \A p \in existing : InPublic(rows[p]) => Paid(applied, p, rows[p])

(* A request that will save a whole row holds a paid one.                  *)
SavedPaid ==
  \A w \in Processes :
    jobs[w].pc = "staging" /\ jobs[w].current.action = "TO_UPDATE" =>
      Paid(applied, jobs[w].current.proposal, jobs[w].row)

(* Nothing but a creation can be promoted on a draft. *)
DraftsBare ==
  \A p \in existing : rows[p].draft => rows[p].window = NULL /\ rows[p].new_transaction_hash = NULL

PublicInv == LedgerInv /\ StagingInv /\ PublicPaid /\ SavedPaid /\ DraftsBare

(* What was paid for stays paid for. *)
LEMMA PaidForGood ==
  ASSUME NEW log, NEW longer, DOMAIN log \subseteq DOMAIN longer,
         \A i \in DOMAIN log : longer[i] = log[i],
         NEW p, NEW row, Paid(log, p, row)
  PROVE  Paid(longer, p, row)
  BY DEF Paid

(* And the log only grows. *)
LEMMA LogGrows ==
  ASSUME TypeInv, [Next]_vars
  PROVE  DOMAIN applied \subseteq DOMAIN applied' /\ \A i \in DOMAIN applied : applied'[i] = applied[i]
<1>1. CASE applied' = applied
  BY <1>1
<1>2. CASE \E w \in Processes : Promote(w)
  BY <1>2, PromotedRow, AppendedLog
<1>3. QED
  BY <1>1, <1>2, LedgerFrame

(* A row whose public columns are those of another is paid with it. *)
LEMMA PaidAlike ==
  ASSUME NEW log, NEW p, NEW row, NEW new, Paid(log, p, row),
         new.transaction_hash = row.transaction_hash,
         new.content = row.content,
         new.window = row.window
  PROVE  Paid(log, p, new)
  BY DEF Paid

(* Opening creations are paid for. *)
LEMMA PublicInit == Init => PublicInv
<1> SUFFICES ASSUME Init PROVE PublicInv
  OBVIOUS
<1>1. LedgerInv /\ StagingInv /\ existing \subseteq Proposals
  BY LedgerInit, StagingInit DEF LedgerInv, TypeInv, TypeOK
<1>2. SavedPaid
  BY DEF Init, SavedPaid, IdleJob
<1>3. ASSUME NEW p \in existing
      PROVE  ~rows[p].draft /\ Paid(applied, p, rows[p])
  <2>1. PICK i \in 1..Len(Genesis) : /\ Genesis[i] \in Transition
                                     /\ Genesis[i].proposal = p
                                     /\ rows[p] = GenesisRow(Genesis[i])
    BY <1>1, OpeningRows
  <2>2. i \in DOMAIN applied /\ applied[i] = Genesis[i] /\ applied[i].action = "TO_CREATE"
    BY GenesisAssumption DEF Init
  <2>3. /\ ~rows[p].draft /\ rows[p].transaction_hash = applied[i].hash
        /\ rows[p].content = applied[i].content /\ rows[p].window = NULL
    BY <2>1, <2>2, GenesisColumns
  <2>4. QED
    BY <2>1, <2>2, <2>3 DEF Paid, PendingAction
<1>4. QED
  BY <1>1, <1>2, <1>3 DEF PublicInv, PublicPaid, DraftsBare

(* A request reads a row the public sees. *)
LEMMA SavedStep ==
  ASSUME PublicInv, [Next]_vars
  PROVE  SavedPaid'
<1>1. TypeInv /\ LedgerInv
  BY DEF PublicInv, LedgerInv
<1> SUFFICES ASSUME NEW v \in Processes, jobs'[v].pc = "staging",
                    jobs'[v].current.action = "TO_UPDATE"
             PROVE  Paid(applied', jobs'[v].current.proposal, jobs'[v].row)
  BY DEF SavedPaid
<1>2. CASE v \in Web /\ Begin(v)
  <2>1. ASSUME NEW p \in Proposals, NEW h \in Hashes, NEW c \in Contents, BeginUpdate(v, p, h, c)
        PROVE  Paid(applied', jobs'[v].current.proposal, jobs'[v].row)
    <3>1. jobs'[v].current.proposal = p /\ jobs'[v].row = rows[p]
      BY <1>1, <2>1 DEF BeginUpdate, Start, StagingJob, IdleJob, TypeInv, JobsOK
    <3>2. p \in existing /\ InPublic(rows[p]) /\ applied' = applied
      BY <2>1 DEF BeginUpdate, Editable, InPublic, Start, tables
    <3>3. QED
      BY <3>1, <3>2 DEF PublicInv, PublicPaid
  <2>2. ASSUME NEW p \in Proposals, NEW h \in Hashes, NEW c \in Contents, BeginCreate(v, p, h, c)
        PROVE  FALSE
    BY <1>1, <2>2 DEF BeginCreate, Start, StagingJob, IdleJob, TypeInv, JobsOK
  <2>3. ASSUME NEW p \in Proposals, NEW h \in Hashes, NEW window \in Weeks, BeginSubmit(v, p, h, window)
        PROVE  FALSE
    BY <1>1, <2>3 DEF BeginSubmit, Start, StagingJob, IdleJob, TypeInv, JobsOK
  <2>4. QED
    BY <1>2, <2>1, <2>2, <2>3 DEF Begin
<1>3. CASE ~(v \in Web /\ Begin(v))
  <2>1. jobs'[v] = jobs[v]
    BY <1>1, <1>3, StagingFrame
  <2>2. Paid(applied, jobs[v].current.proposal, jobs[v].row)
    BY <2>1 DEF PublicInv, SavedPaid
  <2>3. QED
    BY <1>1, <2>1, <2>2, LogGrows, PaidForGood
<1>4. QED
  BY <1>2, <1>3

(* A promotion publishes what it was paid for, next to what was.           *)
LEMMA PromotionPaid ==
  ASSUME PublicInv, NEW w \in Processes, Promote(w), [Next]_vars
  PROVE  PublicPaid' /\ DraftsBare'
<1> DEFINE t == jobs[w].current
           p == t.proposal
           n == Len(applied) + 1
<1>1. TypeInv /\ LedgerInv
  BY DEF PublicInv, LedgerInv
<1>2. /\ t \in Transition /\ p \in Proposals /\ rows[p] \in Row
      /\ StillStaged(t) /\ existing' = existing /\ applied' = Append(applied, t)
      /\ \A q \in Proposals \ {p} : rows'[q] = rows[q]
  BY <1>1, PromotedRow
<1>3. t.hash # NULL
  BY <1>1, PromotedPaymentIsNew, NullAssumption DEF Authorised
<1>4. n \in DOMAIN applied' /\ applied'[n] = t
  BY <1>1, <1>2, AppendedLog
<1>5. existing \subseteq Proposals
  BY <1>1 DEF TypeInv, TypeOK
<1>6. \A q \in existing : InPublic(rows[q]) => Paid(applied', q, rows[q])
  BY <1>1, LogGrows, PaidForGood DEF PublicInv, PublicPaid
<1>7. /\ p \in existing /\ rows[p].draft => t.action = "TO_CREATE" /\ rows[p].window = NULL
      /\ t.action = "TO_CREATE" => t.hash = rows[p].transaction_hash /\ t.content = rows[p].content
  <2>1. Matches(t, rows[p])
    BY <1>2 DEF StillStaged
  <2>2. t.action = "TO_CREATE" => t.hash = rows[p].transaction_hash /\ t.content = rows[p].content
    BY <1>2, <2>1 DEF Matches, Resolve, Row
  <2>3. t.action # "TO_CREATE" => t.hash = rows[p].new_transaction_hash
    BY <1>2, <2>1 DEF Matches, Resolve, Row
  <2>4. QED
    BY <1>3, <2>2, <2>3 DEF PublicInv, DraftsBare
<1>8. ASSUME p \in existing, InPublic(rows'[p])
      PROVE  Paid(applied', p, rows'[p])
  <2>1. CASE t.action = "TO_CREATE"
    <3>1. /\ rows'[p].transaction_hash = t.hash /\ rows'[p].content = t.content
          /\ rows'[p].window = rows[p].window /\ rows'[p].hide = rows[p].hide
      BY <1>1, <1>2, <1>7, <2>1, PromotedRow, ConfirmedCreateColumns
    <3>2. rows[p].draft => rows'[p].window = NULL
      BY <1>7, <1>8, <3>1
    <3>3. ~rows[p].draft => Paid(applied', p, rows[p])
      BY <1>6, <1>8, <3>1 DEF InPublic
    <3> HIDE DEF t, p, n
    <3>4. QED
      BY <1>4, <2>1, <3>1, <3>2, <3>3 DEF Paid, PendingAction, p
  <2>2. CASE t.action = "TO_UPDATE"
    <3>1. /\ rows'[p].transaction_hash = t.hash /\ rows'[p].content = t.content
          /\ rows'[p].window = rows[p].window /\ rows'[p].hide = rows[p].hide
          /\ rows'[p].draft = rows[p].draft
      BY <1>1, <1>2, <2>2, PromotedRow, ConfirmedUpdateColumns
    <3>2. Paid(applied', p, rows[p])
      BY <1>6, <1>8, <3>1 DEF InPublic
    <3> HIDE DEF t, p, n
    <3>3. QED
      BY <1>4, <2>2, <3>1, <3>2 DEF Paid, PendingAction, p
  <2>3. CASE t.action = "TO_SUBMIT"
    <3>1. /\ rows'[p].transaction_hash = t.hash /\ rows'[p].content = rows[p].content
          /\ rows'[p].window = t.window /\ rows'[p].hide = rows[p].hide
          /\ rows'[p].draft = rows[p].draft
      BY <1>1, <1>2, <2>3, PromotedRow, ConfirmedSubmitColumns
    <3>2. Paid(applied', p, rows[p])
      BY <1>6, <1>8, <3>1 DEF InPublic
    <3> HIDE DEF t, p, n
    <3>3. QED
      BY <1>4, <2>3, <3>1, <3>2 DEF Paid, PendingAction, p
  <2>4. QED
    BY <1>2, <2>1, <2>2, <2>3 DEF Transition, PendingAction
<1>9. ~rows'[p].draft \/ p \notin existing
  BY <1>1, <1>2, <1>7, PromotedRow, ConfirmedCreateColumns, ConfirmedUpdateColumns, ConfirmedSubmitColumns
<1> HIDE DEF t, p, n
<1>10. PublicPaid'
  BY <1>2, <1>5, <1>6, <1>8 DEF PublicPaid
<1>11. DraftsBare'
  BY <1>2, <1>5, <1>9 DEF PublicInv, DraftsBare
<1>12. QED
  BY <1>10, <1>11

(* As long as re-arming brings no hidden row back, every step keeps what   *)
(* the public sees paid for.                                               *)
LEMMA PublicStep ==
  ASSUME \A r \in RearmActions : ~r[2], PublicInv, [Next]_vars
  PROVE  PublicInv'
<1>1. TypeInv /\ LedgerInv /\ StagingInv /\ existing \subseteq Proposals
  BY DEF PublicInv, LedgerInv, TypeInv, TypeOK
<1>2. LedgerInv' /\ StagingInv' /\ SavedPaid'
  BY <1>1, LedgerStep, StagingStep, SavedStep
<1>3. CASE OnlyVerdicts
  <2>1. existing' = existing /\ applied' = applied
    BY <1>3 DEF OnlyVerdicts
  <2>2. ASSUME NEW p \in existing
        PROVE  /\ InPublic(rows'[p]) => Paid(applied', p, rows'[p])
               /\ rows'[p].draft => rows'[p].window = NULL /\ rows'[p].new_transaction_hash = NULL
    <3>1. VerdictWrite(rows[p], rows'[p])
      BY <1>1, <1>3 DEF OnlyVerdicts, VerdictStepOf
    <3>2. InPublic(rows'[p]) => /\ InPublic(rows[p])
                                /\ rows'[p].transaction_hash = rows[p].transaction_hash
                                /\ rows'[p].content = rows[p].content
                                /\ rows'[p].window = rows[p].window
      BY <3>1 DEF VerdictWrite, SameOffer, InPublic
    <3>3. rows'[p].draft => /\ rows[p].draft
                            /\ rows'[p].window = rows[p].window
                            /\ rows'[p].new_transaction_hash = rows[p].new_transaction_hash
      BY <3>1 DEF VerdictWrite, SameOffer
    <3>4. QED
      BY <2>1, <3>2, <3>3, PaidAlike DEF PublicInv, PublicPaid, DraftsBare
  <2>3. QED
    BY <1>2, <2>1, <2>2 DEF PublicInv, PublicPaid, DraftsBare
<1>4. ASSUME NEW w \in Web, Commit(w)
      PROVE  PublicInv'
  <2> DEFINE t == jobs[w].current
             p == t.proposal
  <2>1. /\ p \in Proposals /\ applied' = applied
        /\ \A q \in Proposals \ {p} : rows'[q] = rows[q]
        /\ existing' \subseteq existing \cup {p}
    BY <1>1, <1>4, CommittedRow
  <2>2. StagingSound(w) /\ jobs[w].pc = "staging"
    BY <1>1, <1>4, CommittedRow DEF StagingInv, Processes
  <2>3. \/ rows'[p] = rows[p] /\ existing' = existing
        \/ rows'[p].draft /\ rows'[p].window = NULL /\ rows'[p].new_transaction_hash = NULL
        \/ /\ t.action = "TO_UPDATE"
           /\ ~rows'[p].draft
           /\ rows'[p].transaction_hash = jobs[w].row.transaction_hash
           /\ rows'[p].content = jobs[w].row.content
           /\ rows'[p].window = jobs[w].row.window
        \/ /\ existing' = existing
           /\ ~rows'[p].draft /\ rows'[p].draft = rows[p].draft /\ rows'[p].hide = rows[p].hide
           /\ rows'[p].transaction_hash = rows[p].transaction_hash
           /\ rows'[p].content = rows[p].content
           /\ rows'[p].window = rows[p].window
    BY <1>1, <1>4, <2>2, CommittedRow, DraftColumns, StagedUpdateColumns, StagedSubmitColumns
       DEF StagingSound
  <2>4. t.action = "TO_UPDATE" => Paid(applied, p, jobs[w].row)
    BY <2>2 DEF PublicInv, SavedPaid, Processes
  <2>5. ASSUME p \in existing'
        PROVE  /\ InPublic(rows'[p]) => Paid(applied', p, rows'[p])
               /\ rows'[p].draft => rows'[p].window = NULL /\ rows'[p].new_transaction_hash = NULL
    <3> HIDE DEF t, p
    <3>1. CASE rows'[p] = rows[p] /\ existing' = existing
      BY <2>1, <2>5, <3>1 DEF PublicInv, PublicPaid, DraftsBare
    <3>2. CASE rows'[p].draft /\ rows'[p].window = NULL /\ rows'[p].new_transaction_hash = NULL
      BY <3>2 DEF InPublic
    <3>3. CASE /\ t.action = "TO_UPDATE"
               /\ ~rows'[p].draft
               /\ rows'[p].transaction_hash = jobs[w].row.transaction_hash
               /\ rows'[p].content = jobs[w].row.content
               /\ rows'[p].window = jobs[w].row.window
      BY <2>1, <2>4, <3>3, PaidAlike
    <3>4. CASE /\ existing' = existing
               /\ ~rows'[p].draft /\ rows'[p].draft = rows[p].draft /\ rows'[p].hide = rows[p].hide
               /\ rows'[p].transaction_hash = rows[p].transaction_hash
               /\ rows'[p].content = rows[p].content
               /\ rows'[p].window = rows[p].window
      <4>1. InPublic(rows'[p]) => Paid(applied, p, rows[p])
        BY <2>5, <3>4 DEF PublicInv, PublicPaid, InPublic
      <4>2. QED
        BY <2>1, <3>4, <4>1, PaidAlike
    <3>5. QED
      BY <2>3, <3>1, <3>2, <3>3, <3>4
  <2> HIDE DEF t, p
  <2>6. \A q \in existing' \ {p} : q \in existing /\ rows'[q] = rows[q]
    BY <1>1, <2>1
  <2>7. PublicPaid' /\ DraftsBare'
    BY <2>1, <2>5, <2>6 DEF PublicInv, PublicPaid, DraftsBare
  <2>8. QED
    BY <1>2, <2>7 DEF PublicInv
<1>5. ASSUME NEW w \in Processes, Promote(w)
      PROVE  PublicInv'
  BY <1>2, <1>5, PromotionPaid DEF PublicInv
<1>6. ASSUME NEW q \in Proposals, NEW r \in RearmActions, Rearm(q, r[1], r[2])
      PROVE  PublicInv'
  <2>1. /\ existing' = existing /\ applied' = applied
        /\ \A p \in Proposals :
             /\ rows'[p].draft = rows[p].draft /\ rows'[p].hide = rows[p].hide
             /\ rows'[p].new_transaction_hash = rows[p].new_transaction_hash
             /\ rows'[p].transaction_hash = rows[p].transaction_hash
             /\ rows'[p].content = rows[p].content
             /\ rows'[p].window = rows[p].window
    BY <1>1, <1>6, RearmedRow
  <2>2. PublicPaid'
    <3>1. ASSUME NEW p \in existing, InPublic(rows'[p])
          PROVE  Paid(applied', p, rows'[p])
      <4>1. Paid(applied, p, rows[p])
        BY <1>1, <2>1, <3>1 DEF PublicInv, PublicPaid, InPublic
      <4>2. QED
        BY <1>1, <2>1, <4>1, PaidAlike
    <3>2. QED
      BY <2>1, <3>1 DEF PublicPaid
  <2>3. DraftsBare'
    BY <1>1, <2>1 DEF PublicInv, DraftsBare
  <2>4. QED
    BY <1>2, <2>2, <2>3 DEF PublicInv
<1>7. QED
  BY <1>1, <1>3, <1>4, <1>5, <1>6, StepKinds

(* The hash, the text and the voting window of a proposal in public were   *)
(* written by promotions of paid transitions of that proposal, whatever    *)
(* full-row saves of concurrent requests bring back - unless an operator   *)
(* re-arms a rejected proposal with --unhide.                              *)
THEOREM PublicationWasPaid ==
  ASSUME \A r \in RearmActions : ~r[2]
  PROVE  Spec => []PublishedWasPaid
<1>1. PublicInv => PublishedWasPaid
  <2> SUFFICES ASSUME PublicInv, NEW p \in existing, InPublic(rows[p])
               PROVE  /\ \E i \in DOMAIN applied : /\ applied[i].proposal = p
                                                   /\ applied[i].action \in PendingAction
                                                   /\ applied[i].hash = rows[p].transaction_hash
                      /\ \E i \in DOMAIN applied : /\ applied[i].proposal = p
                                                   /\ applied[i].action \in {"TO_CREATE", "TO_UPDATE"}
                                                   /\ applied[i].content = rows[p].content
                      /\ rows[p].window # NULL =>
                           \E i \in DOMAIN applied : /\ applied[i].proposal = p
                                                     /\ applied[i].action \in {"TO_SUBMIT"}
                                                     /\ applied[i].window = rows[p].window
    BY DEF PublishedWasPaid, InPublic
  <2>1. QED
    BY DEF PublicInv, PublicPaid, Paid
<1>2. PublicInv /\ [Next]_vars => PublicInv'
  BY PublicStep
<1>3. QED
  BY <1>1, <1>2, PublicInit, PTL DEF Spec

-----------------------------------------------------------------------------
(* Staged copies.                                                          *)

(* A request holds the hash it presents, and a proposal that is not in the *)
(* table holds none.                                                       *)
HashesPresented ==
  /\ \A w \in Processes : jobs[w].pc = "staging" => jobs[w].current.hash \in Hashes
  /\ \A p \in Proposals \ existing :
       rows[p].transaction_hash = NULL /\ rows[p].new_transaction_hash = NULL

CopyInv == LedgerInv /\ StagingInv /\ HashesPresented

(* No request is under way at first. *)
LEMMA CopyInit == Init => CopyInv
<1> SUFFICES ASSUME Init PROVE CopyInv
  OBVIOUS
<1>1. LedgerInv /\ StagingInv
  BY LedgerInit, StagingInit
<1>2. \A w \in Processes : jobs[w].pc # "staging"
  BY DEF Init, IdleJob
<1>3. AbsentRow.transaction_hash = NULL /\ AbsentRow.new_transaction_hash = NULL
  BY DEF AbsentRow, Draft
<1>4. QED
  BY <1>1, <1>2, <1>3, OpeningRows DEF CopyInv, HashesPresented

(* The transition a promotion applies is of a proposal in the table, and   *)
(* its hash is the one its row holds.                                      *)
LEMMA PromotedHash ==
  ASSUME CopyInv, NEW w \in Processes, Promote(w)
  PROVE  LET t == jobs[w].current
         IN  /\ t.proposal \in existing
             /\ t.hash \in Hashes
             /\ t.hash = IF t.action = "TO_CREATE" THEN rows[t.proposal].transaction_hash
                                                   ELSE rows[t.proposal].new_transaction_hash
<1> DEFINE t == jobs[w].current
<1>1. TypeInv /\ LedgerInv
  BY DEF CopyInv, LedgerInv
<1>2. t \in Transition /\ t.proposal \in Proposals /\ rows[t.proposal] \in Row /\ StillStaged(t)
  BY <1>1, PromotedRow
<1>3. t.hash \in Hashes /\ t.hash # NULL
  BY <1>1, PromotedPaymentIsNew, NullAssumption DEF Authorised
<1>4. Matches(t, rows[t.proposal])
  BY <1>2 DEF StillStaged
<1>5. t.hash = IF t.action = "TO_CREATE" THEN rows[t.proposal].transaction_hash
                                         ELSE rows[t.proposal].new_transaction_hash
  BY <1>2, <1>4 DEF Matches, Resolve, Row
<1>6. t.proposal \in existing
  BY <1>2, <1>3, <1>5 DEF CopyInv, HashesPresented
<1>7. QED
  BY <1>3, <1>5, <1>6

(* A request takes its hash from its client. *)
LEMMA RequestHash ==
  ASSUME TypeInv, NEW v \in Web, Begin(v)
  PROVE  jobs'[v].current.hash \in Hashes
<1>1. v \in Processes /\ jobs = [w \in Processes |-> jobs[w]]
  BY DEF Processes, TypeInv, JobsOK
<1>2. PICK t, row : t.hash \in Hashes /\ Start(v, StagingJob(t, row))
  BY DEF Begin, BeginCreate, BeginUpdate, BeginSubmit
<1>3. jobs'[v].current = t
  BY <1>1, <1>2 DEF Start, StagingJob, IdleJob
<1>4. QED
  BY <1>2, <1>3

(* Every step keeps it. *)
LEMMA CopyStep == CopyInv /\ [Next]_vars => CopyInv'
<1> SUFFICES ASSUME CopyInv, [Next]_vars PROVE CopyInv'
  OBVIOUS
<1>1. TypeInv /\ LedgerInv /\ StagingInv /\ existing \subseteq Proposals
  BY DEF CopyInv, LedgerInv, TypeInv, TypeOK
<1>2. LedgerInv' /\ StagingInv'
  BY <1>1, LedgerStep, StagingStep
<1>3. ASSUME NEW v \in Processes, jobs'[v].pc = "staging"
      PROVE  jobs'[v].current.hash \in Hashes
  <2>1. CASE v \in Web /\ Begin(v)
    BY <1>1, <2>1, RequestHash
  <2>2. CASE ~(v \in Web /\ Begin(v))
    BY <1>1, <1>3, <2>2, StagingFrame DEF CopyInv, HashesPresented
  <2>3. QED
    BY <2>1, <2>2
<1>4. ASSUME NEW p \in Proposals \ existing'
      PROVE  rows'[p].transaction_hash = NULL /\ rows'[p].new_transaction_hash = NULL
  <2>1. p \in Proposals \ existing
    BY <1>1, <1>4, PublishedForGood
  <2>2. rows[p].transaction_hash = NULL /\ rows[p].new_transaction_hash = NULL
    BY <2>1 DEF CopyInv, HashesPresented
  <2>3. CASE OnlyVerdicts
    BY <2>2, <2>3, VerdictKeepsColumns DEF OnlyVerdicts, VerdictStepOf, SameColumns, SamePublic
  <2>4. ASSUME NEW w \in Web, Commit(w)
        PROVE  rows'[p].transaction_hash = NULL /\ rows'[p].new_transaction_hash = NULL
    <3>1. StagingSound(w)
      BY <1>1 DEF StagingInv, Processes
    <3>2. p # jobs[w].current.proposal \/ rows'[p] = rows[p]
      BY <1>1, <1>4, <2>1, <2>4, <3>1, CommittedRow DEF StagingSound
    <3>3. QED
      BY <1>1, <2>2, <2>4, <3>2, CommittedRow
  <2>5. ASSUME NEW w \in Processes, Promote(w)
        PROVE  rows'[p].transaction_hash = NULL /\ rows'[p].new_transaction_hash = NULL
    BY <1>1, <2>1, <2>2, <2>5, PromotedHash, PromotedRow
  <2>6. ASSUME NEW q \in Proposals, NEW r \in RearmActions, Rearm(q, r[1], r[2])
        PROVE  rows'[p].transaction_hash = NULL /\ rows'[p].new_transaction_hash = NULL
    BY <1>1, <2>2, <2>6, RearmedRow
  <2>7. QED
    BY <1>1, <2>3, <2>4, <2>5, <2>6, StepKinds
<1>5. QED
  BY <1>2, <1>3, <1>4 DEF CopyInv, HashesPresented

(* A step that clears the hash of a staged copy spends its payment. *)
LEMMA CopyConsumed ==
  ASSUME CopyInv, [Next]_vars, NEW p \in existing,
         rows[p].new_transaction_hash # NULL, rows'[p].new_transaction_hash = NULL
  PROVE  /\ Len(applied') = Len(applied) + 1
         /\ applied'[Len(applied')].proposal = p
         /\ applied'[Len(applied')].hash = rows[p].new_transaction_hash
<1>1. TypeInv /\ LedgerInv /\ StagingInv /\ p \in Proposals
  BY DEF CopyInv, LedgerInv, TypeInv, TypeOK
<1>2. ~OnlyVerdicts
  BY <1>1, VerdictKeepsColumns DEF OnlyVerdicts, VerdictStepOf, SameColumns
<1>3. ASSUME NEW w \in Web, Commit(w)
      PROVE  FALSE
  <2> DEFINE t == jobs[w].current
  <2>1. StagingSound(w) /\ t.hash # NULL
    BY <1>1, <1>3, CommittedRow, NullAssumption DEF StagingInv, CopyInv, HashesPresented, Processes
  <2>2. p = t.proposal /\ rows'[p] # rows[p] /\ t.action # "TO_CREATE"
    BY <1>1, <1>3, <2>1, CommittedRow DEF StagingSound
  <2>3. rows'[p].new_transaction_hash = t.hash
    BY <1>1, <1>3, <2>2, CommittedRow, StagedUpdateColumns, StagedSubmitColumns
  <2>4. QED
    BY <2>1, <2>3
<1>4. \A q \in Proposals, r \in RearmActions : ~Rearm(q, r[1], r[2])
  BY <1>1, RearmedRow
<1>5. PICK w \in Processes : Promote(w)
  BY <1>1, <1>2, <1>3, <1>4, StepKinds
<1> DEFINE t == jobs[w].current
<1>6. p = t.proposal /\ t.action # "TO_CREATE"
  BY <1>1, <1>5, PromotedRow, ConfirmedCreateColumns
<1>7. t \in Transition /\ applied' = Append(applied, t) /\ t.hash = rows[p].new_transaction_hash
  BY <1>1, <1>5, <1>6, PromotedRow, PromotedHash
<1>8. QED
  BY <1>1, <1>6, <1>7, AppendedLog

(* A promotion consumes the staged copy it verified: whatever an owner     *)
(* stages between the check of one copy and its promotion stays staged,    *)
(* and no verdict, re-arming, crash or stale save wipes it out.            *)
THEOREM StagedCopyIsOwn == Spec => OnlyOwnCopyConsumed
<1>1. CopyInv /\ [Next]_vars =>
        [\A p \in existing :
          (rows[p].new_transaction_hash # NULL /\ rows'[p].new_transaction_hash = NULL) =>
            /\ Len(applied') = Len(applied) + 1
            /\ applied'[Len(applied')].proposal = p
            /\ applied'[Len(applied')].hash = rows[p].new_transaction_hash]_vars
  BY CopyConsumed
<1>2. QED
  BY <1>1, CopyInit, CopyStep, PTL DEF Spec, OnlyOwnCopyConsumed

-----------------------------------------------------------------------------
(* Published columns and recorded hashes.                                  *)

(* CommitUpdate saves the columns its request read in its first step.  The *)
(* run lost_update shows what that does when a promotion came between; the *)
(* theorems below say that nothing else has this effect.                   *)
SavesFresh(w) ==
  CommitUpdate(w) => SamePublic(jobs[w].row, rows[jobs[w].current.proposal])

FreshSaves == [][\A w \in Web : SavesFresh(w)]_vars

(* The step that spends a payment on p. *)
SpentOn(p) ==
  /\ Len(applied') = Len(applied) + 1
  /\ applied'[Len(applied')].proposal = p

(* A promotion is one, for the proposal of its transition. *)
LEMMA PromotionSpends ==
  ASSUME TypeInv, NEW w \in Processes, Promote(w)
  PROVE  SpentOn(jobs[w].current.proposal)
<1>1. jobs[w].current \in Transition /\ applied' = Append(applied, jobs[w].current)
  BY PromotedRow
<1>2. QED
  BY <1>1, AppendedLog DEF SpentOn

(* Any other step but a stale save leaves what a row in the table has in   *)
(* public as it was.                                                       *)
LEMMA PublicFrame ==
  ASSUME CopyInv, [Next]_vars, [\A w \in Web : SavesFresh(w)]_vars,
         NEW p \in existing, ~\E w \in Processes : Promote(w) /\ jobs[w].current.proposal = p
  PROVE  p \in existing' /\ SamePublic(rows[p], rows'[p])
<1>1. TypeInv /\ StagingInv /\ p \in Proposals
  BY DEF CopyInv, LedgerInv, TypeInv, TypeOK
<1>2. p \in existing'
  BY <1>1, PublishedForGood
<1>3. ASSUME rows'[p] = rows[p]
      PROVE  SamePublic(rows[p], rows'[p])
  BY <1>3 DEF SamePublic
<1>4. CASE OnlyVerdicts
  BY <1>1, <1>4, VerdictKeepsColumns DEF OnlyVerdicts, VerdictStepOf, SameColumns
<1>5. ASSUME NEW w \in Web, Commit(w)
      PROVE  SamePublic(rows[p], rows'[p])
  <2> DEFINE t == jobs[w].current
  <2>1. StagingSound(w)
    BY <1>1 DEF StagingInv, Processes
  <2>2. CASE p # t.proposal \/ rows'[p] = rows[p]
    BY <1>1, <1>3, <1>5, <2>2, CommittedRow
  <2>3. CASE p = t.proposal /\ rows'[p] # rows[p]
    <3>1. t.action # "TO_CREATE"
      BY <1>1, <1>5, <2>1, <2>3, CommittedRow DEF StagingSound
    <3>2. CASE t.action = "TO_UPDATE"
      <4>1. CommitUpdate(w)
        BY <1>5, <3>2 DEF Commit, CommitCreate, CommitSubmit
      <4>2. SamePublic(jobs[w].row, rows[p])
        BY <2>3, <4>1 DEF SavesFresh, vars
      <4>3. SamePublic(jobs[w].row, rows'[p])
        BY <1>1, <1>5, <2>3, <3>2, CommittedRow, StagedUpdateColumns DEF SamePublic
      <4>4. QED
        BY <4>2, <4>3 DEF SamePublic
    <3>3. CASE t.action # "TO_UPDATE"
      BY <1>1, <1>5, <2>3, <3>1, <3>3, CommittedRow, StagedSubmitColumns DEF SamePublic
    <3>4. QED
      BY <3>2, <3>3
  <2>4. QED
    BY <2>2, <2>3
<1>6. ASSUME NEW w \in Processes, Promote(w)
      PROVE  SamePublic(rows[p], rows'[p])
  BY <1>1, <1>3, <1>6, PromotedRow
<1>7. ASSUME NEW q \in Proposals, NEW r \in RearmActions, Rearm(q, r[1], r[2])
      PROVE  SamePublic(rows[p], rows'[p])
  BY <1>1, <1>3, <1>7, RearmedRow DEF SamePublic
<1>8. QED
  BY <1>1, <1>2, <1>4, <1>5, <1>6, <1>7, StepKinds

(* Authorization is the payment and nothing else: unless an update request *)
(* saves public columns that a promotion changed after it read them, the   *)
(* public part of a proposal changes only in the step that spends a        *)
(* payment on it.                                                          *)
THEOREM NothingUnpaidIsPublished == Spec /\ FreshSaves => NoUnpaidChange
<1>1. ASSUME CopyInv, [Next]_vars, [\A w \in Web : SavesFresh(w)]_vars,
             NEW p \in existing, Public(p)' # Public(p)
      PROVE  SpentOn(p)
  <2>1. TypeInv
    BY <1>1 DEF CopyInv, LedgerInv
  <2>2. ~SamePublic(rows[p], rows'[p])
    BY <1>1 DEF Public, SamePublic
  <2>3. PICK w \in Processes : Promote(w) /\ jobs[w].current.proposal = p
    BY <1>1, <2>2, PublicFrame
  <2>4. QED
    BY <2>1, <2>3, PromotionSpends
<1>2. CopyInv /\ [Next]_vars /\ [\A w \in Web : SavesFresh(w)]_vars =>
        [\A p \in existing :
          (~rows[p].draft /\ Public(p)' # Public(p)) =>
            /\ Len(applied') = Len(applied) + 1
            /\ applied'[Len(applied')].proposal = p]_vars
  BY <1>1 DEF SpentOn
<1>3. QED
  BY <1>2, CopyInit, CopyStep, PTL DEF Spec, FreshSaves, NoUnpaidChange

RecordInv == CopyInv /\ BurnedHashIsRecorded

(* Opening creations are recorded in their own rows. *)
LEMMA RecordInit == Init => RecordInv
<1> SUFFICES ASSUME Init PROVE BurnedHashIsRecorded
  BY CopyInit DEF RecordInv
<1>1. applied = Genesis /\ DOMAIN applied = 1..Len(Genesis)
  BY GenesisAssumption DEF Init
<1>2. ASSUME NEW i \in 1..Len(Genesis)
      PROVE  Genesis[i].proposal \in existing /\ rows[Genesis[i].proposal].transaction_hash = Genesis[i].hash
  <2> DEFINE p == Genesis[i].proposal
  <2>0. Genesis[i] \in Transition /\ p \in existing
    BY GenesisAssumption DEF Init
  <2>1. p \in Proposals /\ p \in existing
    BY <2>0 DEF Transition
  <2>2. PICK j \in 1..Len(Genesis) : /\ Genesis[j] \in Transition
                                     /\ Genesis[j].proposal = p
                                     /\ rows[p] = GenesisRow(Genesis[j])
    BY <2>1, OpeningRows
  <2>3. j = i
    BY <2>2, GenesisAssumption
  <2>4. QED
    BY <2>1, <2>2, <2>3, GenesisColumns
<1>3. QED
  BY <1>1, <1>2 DEF BurnedHashIsRecorded

(* A promotion moves the hash it replaces to the history table. *)
LEMMA RecordStep ==
  RecordInv /\ [Next]_vars /\ [\A w \in Web : SavesFresh(w)]_vars => RecordInv'
<1> SUFFICES ASSUME RecordInv, [Next]_vars, [\A w \in Web : SavesFresh(w)]_vars
             PROVE  RecordInv'
  OBVIOUS
<1>1. CopyInv /\ CopyInv' /\ TypeInv /\ LedgerInv /\ BurnedHashIsRecorded /\ existing \subseteq Proposals
  BY CopyStep DEF RecordInv, CopyInv, LedgerInv, TypeInv, TypeOK
<1>2. \A i \in DOMAIN applied : applied[i].hash \in Hashes /\ applied[i].hash # NULL
  BY <1>1, NullAssumption DEF LedgerInv, AppliedAuthorised, Authorised
<1>3. ASSUME NEW p \in existing, rows[p].transaction_hash # NULL
      PROVE  \/ rows[p].transaction_hash \in history'
             \/ p \in existing' /\ rows'[p].transaction_hash = rows[p].transaction_hash
  <2>1. CASE ~\E w \in Processes : Promote(w) /\ jobs[w].current.proposal = p
    BY <1>1, <2>1, PublicFrame DEF SamePublic
  <2>2. ASSUME NEW w \in Processes, Promote(w), jobs[w].current.proposal = p
        PROVE  \/ rows[p].transaction_hash \in history'
               \/ p \in existing' /\ rows'[p].transaction_hash = rows[p].transaction_hash
    <3>1. jobs[w].current.action # "TO_CREATE" => rows[p].transaction_hash \in history'
      BY <1>1, <1>3, <2>2, PromotedRow DEF Archived
    <3>2. jobs[w].current.action = "TO_CREATE" => rows'[p].transaction_hash = rows[p].transaction_hash
      BY <1>1, <2>2, PromotedRow, ConfirmedCreateColumns
    <3>3. QED
      BY <1>1, <2>2, <3>1, <3>2, PromotedRow
  <2>3. QED
    BY <2>1, <2>2
<1>4. history \subseteq history'
  <2>1. \A w \in Processes : Promote(w) => history \subseteq history'
    BY <1>1, PromotedRow
  <2>2. QED
    BY <1>1, <2>1, LedgerFrame
<1>5. ASSUME NEW i \in DOMAIN applied
      PROVE  \/ applied[i].hash \in history'
             \/ \E p \in existing' : rows'[p].transaction_hash = applied[i].hash
  BY <1>1, <1>2, <1>3, <1>4, <1>5 DEF BurnedHashIsRecorded
<1>6. CASE applied' = applied
  BY <1>1, <1>5, <1>6 DEF RecordInv, BurnedHashIsRecorded
<1>7. ASSUME NEW w \in Processes, Promote(w)
      PROVE  BurnedHashIsRecorded'
  <2> DEFINE t == jobs[w].current
  <2>1. t \in Transition /\ applied' = Append(applied, t) /\ existing' = existing
    BY <1>1, <1>7, PromotedRow
  <2>2. t.proposal \in existing /\ rows'[t.proposal].transaction_hash = t.hash
    BY <1>1, <1>7, PromotedHash, PromotedRow, ConfirmedCreateColumns, ConfirmedUpdateColumns,
       ConfirmedSubmitColumns
  <2> HIDE DEF t
  <2>3. QED
    BY <1>1, <1>5, <2>1, <2>2, AppendedLog DEF BurnedHashIsRecorded
<1>8. QED
  BY <1>1, <1>6, <1>7, LedgerFrame DEF RecordInv

(* The lemma of the ledger backfill: with the same exception, the hash     *)
(* every applied transition was paid with is in Proposal.transaction_hash  *)
(* or in HistoryProposal.transaction_hash.                                 *)
THEOREM BurnedIsRecorded == Spec /\ FreshSaves => []BurnedHashIsRecorded
<1>1. RecordInv => BurnedHashIsRecorded
  BY DEF RecordInv
<1>2. QED
  BY <1>1, RecordInit, RecordStep, PTL DEF Spec, FreshSaves
=============================================================================
