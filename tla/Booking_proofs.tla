---------------------------- MODULE Booking_proofs ----------------------------
(***************************************************************************)
(* The weekly queue and the asset exclusivity, for every number of weeks,  *)
(* proposals and workers: first next to promotions alone, as long as no    *)
(* operator re-arms a proposal by hand, then next to the beat that starts  *)
(* and ends the votes, and to the forms of the managers.                   *)
(***************************************************************************)
EXTENDS Tables_proofs, AdminEdits

Booked(status) == status \in {"QUEUED", "VOTING"}

(* A creation or an update is pending only on a proposal that occupies no  *)
(* week, so that its promotion cannot make a row occupy one.               *)
PendingOffQueue ==
  \A p \in Proposals : rows[p].action \in {"TO_CREATE", "TO_UPDATE"} => ~Booked(rows[p].proposal_status)

(* What a later booking looks at is what the rows say, and no week has two *)
(* slot rows.                                                              *)
SlotsFollow == \A p \in Proposals : UsesQueueSlot(rows[p]) => slots[p] = rows[p].window
SlotsUnique == \A p, q \in Proposals : p # q /\ slots[p] # NULL => slots[p] # slots[q]

BookingInv == TypeInv /\ StagingInv /\ PendingOffQueue /\ SlotsFollow /\ SlotsUnique

(* A fresh queue is in order. *)
LEMMA BookingInit == Init => BookingInv
<1> SUFFICES ASSUME Init PROVE BookingInv
  OBVIOUS
<1>1. TypeInv /\ StagingInv
  BY TypeInit, StagingInit
<1>2. \A p \in Proposals : ~Booked(rows[p].proposal_status)
  <2>1. AbsentRow.proposal_status = "DISCUSSION"
    BY DEF AbsentRow, Draft
  <2>2. \A p \in Proposals : rows[p].proposal_status = "DISCUSSION"
    BY <2>1, OpeningRows, GenesisColumns
  <2>3. QED
    BY <2>2 DEF Booked
<1>3. SlotsUnique
  BY DEF Init, SlotsUnique
<1>4. QED
  BY <1>1, <1>2, <1>3 DEF BookingInv, PendingOffQueue, SlotsFollow, UsesQueueSlot, Booked

(* A promotion that books a week finds it free, takes it, and clears no    *)
(* slot that is in use.                                                    *)
LEMMA BookedSlot ==
  ASSUME SlotsFollow, SlotsUnique,
         slots \in [Proposals -> Weeks \cup {NULL}],
         NEW p \in Proposals, NEW table,
         \A q \in Proposals \ {p} : table[q] = rows[q],
         table[p].window \in Weeks \cup {NULL},
         UsesQueueSlot(table[p]) => ~SlotConflict(rows, slots, table[p].window, p)
  PROVE  LET held == SyncQueueSlot(table, slots, p)
         IN  /\ \A q \in Proposals : UsesQueueSlot(table[q]) => held[q] = table[q].window
             /\ \A q, r \in Proposals : q # r /\ held[q] # NULL => held[q] # held[r]
<1> DEFINE held == SyncQueueSlot(table, slots, p)
           week == table[p].window
<1>1. CASE ~UsesQueueSlot(table[p])
  <2>1. held = [slots EXCEPT ![p] = NULL]
    BY <1>1 DEF SyncQueueSlot, SyncSlot
  <2>2. \A q \in Proposals : held[q] = IF q = p THEN NULL ELSE slots[q]
    BY <2>1
  <2> HIDE DEF held
  <2>3. QED
    BY <1>1, <2>2 DEF SlotsFollow, SlotsUnique, held
<1>2. CASE UsesQueueSlot(table[p])
  <2>1. \A q \in Proposals :
          held[q] = IF q = p THEN week
                    ELSE IF slots[q] = week /\ ~TrueOccupancy(table, slots, q) THEN NULL ELSE slots[q]
    BY <1>2 DEF SyncQueueSlot, SyncSlot
  <2>2. week # NULL
    BY <1>2 DEF UsesQueueSlot
  <2>3. \A q \in Proposals \ {p} : TrueOccupancy(table, slots, q) <=> TrueOccupancy(rows, slots, q)
    BY DEF TrueOccupancy
  <2>4. \A q \in Proposals \ {p} : slots[q] = week => ~TrueOccupancy(rows, slots, q)
    BY <1>2 DEF SlotConflict
  <2> HIDE DEF held, week
  <2>5. \A q \in Proposals \ {p} : held[q] # week
    BY <2>1, <2>2, <2>3, <2>4
  <2>6. \A q, r \in Proposals : q # r /\ held[q] # NULL => held[q] # held[r]
    <3>1. held[p] = week
      BY <2>1
    <3>2. \A q \in Proposals \ {p} : held[q] = NULL \/ held[q] = slots[q]
      BY <2>1
    <3>3. QED
      BY <2>5, <3>1, <3>2 DEF SlotsUnique
  <2>7. ASSUME NEW q \in Proposals, UsesQueueSlot(table[q])
        PROVE  held[q] = table[q].window
    <3>1. CASE q = p
      BY <2>1, <3>1 DEF week
    <3>2. CASE q # p
      <4>1. slots[q] = table[q].window /\ slots[q] # NULL
        BY <2>7, <3>2 DEF SlotsFollow, UsesQueueSlot
      <4>2. TrueOccupancy(table, slots, q)
        BY <2>7, <4>1 DEF TrueOccupancy
      <4>3. QED
        BY <2>1, <3>2, <4>1, <4>2
    <3>3. QED
      BY <3>1, <3>2
  <2>8. QED
    BY <2>6, <2>7 DEF held
<1>3. QED
  BY <1>1, <1>2

(* Without re-arming, no step breaks the order of the queue. *)
LEMMA BookingStep ==
  ASSUME RearmActions = {}, BookingInv, [Next]_vars
  PROVE  BookingInv'
<1>1. TypeInv' /\ StagingInv'
  BY TypeStep, StagingStep DEF BookingInv
<1>2. TypeInv /\ StagingInv /\ slots \in [Proposals -> Weeks \cup {NULL}]
  BY DEF BookingInv, TypeInv, TypeOK
<1>3. CASE OnlyVerdicts
  <2>1. \A p \in Proposals :
          /\ rows'[p].action \in {"TO_CREATE", "TO_UPDATE"} =>
               /\ rows[p].action = rows'[p].action
               /\ rows[p].proposal_status = rows'[p].proposal_status
          /\ UsesQueueSlot(rows'[p]) => rows'[p] = rows[p]
    BY <1>3 DEF OnlyVerdicts, VerdictStepOf, VerdictWrite, SameOffer, UsesQueueSlot
  <2>2. slots' = slots
    BY <1>3 DEF OnlyVerdicts
  <2>3. PendingOffQueue' /\ SlotsFollow' /\ SlotsUnique'
    BY <2>1, <2>2 DEF BookingInv, PendingOffQueue, SlotsFollow, SlotsUnique
  <2>4. QED
    BY <1>1, <2>3 DEF BookingInv
<1>4. ASSUME NEW w \in Web, Commit(w)
      PROVE  BookingInv'
  <2> DEFINE t == jobs[w].current
  <2>1. t.action = "TO_UPDATE" => jobs[w].row.proposal_status = "DISCUSSION"
    BY <1>2, <1>4, CommittedRow DEF StagingInv, StagingSound, Processes
  <2>2. \/ rows'[t.proposal] = rows[t.proposal]
        \/ /\ rows'[t.proposal].action # "NONE"
           /\ rows'[t.proposal].action # "TO_SUBMIT" => rows'[t.proposal].proposal_status = "DISCUSSION"
    BY <1>2, <1>4, <2>1, CommittedRow, DraftColumns, StagedUpdateColumns, StagedSubmitColumns
  <2>3. /\ t.proposal \in Proposals
        /\ slots' = slots
        /\ \A q \in Proposals \ {t.proposal} : rows'[q] = rows[q]
    BY <1>2, <1>4, CommittedRow
  <2> HIDE DEF t
  <2>4. PendingOffQueue'
    BY <2>2, <2>3 DEF BookingInv, PendingOffQueue, Booked
  <2>5. SlotsFollow' /\ SlotsUnique'
    BY <2>2, <2>3 DEF BookingInv, SlotsFollow, SlotsUnique, UsesQueueSlot
  <2>6. QED
    BY <1>1, <2>4, <2>5 DEF BookingInv
<1>5. ASSUME NEW w \in Processes, Promote(w)
      PROVE  BookingInv'
  <2> DEFINE t == jobs[w].current
             p == t.proposal
  <2>1. /\ t \in Transition /\ p \in Proposals /\ rows[p] \in Row
        /\ rows[p].action = t.action /\ ~MustWait(t)
        /\ \A q \in Proposals \ {p} : rows'[q] = rows[q]
    BY <1>2, <1>5, PromotedRow DEF StillStaged
  <2>2. rows'[p].action = "NONE"
    BY <1>2, <1>5, PromotedRow, ConfirmedCreateColumns, ConfirmedUpdateColumns, ConfirmedSubmitColumns
  <2>3. PendingOffQueue'
    BY <2>1, <2>2 DEF BookingInv, PendingOffQueue
  <2>4. CASE t.action # "TO_SUBMIT"
    <3>1. slots' = slots
      BY <1>2, <1>5, <2>4, PromotedRow
    <3>2. rows'[p].proposal_status = rows[p].proposal_status
      BY <1>2, <1>5, <2>4, PromotedRow, ConfirmedCreateColumns, ConfirmedUpdateColumns
    <3>3. ~Booked(rows[p].proposal_status)
      BY <2>1, <2>4 DEF BookingInv, PendingOffQueue, Transition, PendingAction
    <3> HIDE DEF t, p
    <3>4. SlotsFollow' /\ SlotsUnique'
      BY <2>1, <3>1, <3>2, <3>3 DEF BookingInv, SlotsFollow, SlotsUnique, UsesQueueSlot, Booked
    <3>5. QED
      BY <1>1, <2>3, <3>4 DEF BookingInv
  <2>5. CASE t.action = "TO_SUBMIT"
    <3>1. /\ rows'[p].window = t.window
          /\ rows'[p].proposal_status = SubmitStatus(t)
          /\ slots' = IF WindowOver(t) THEN slots ELSE SyncQueueSlot(rows', slots, p)
      BY <1>2, <1>5, <2>5, PromotedRow, ConfirmedSubmitColumns
    <3>2. CASE WindowOver(t)
      <4>1. ~UsesQueueSlot(rows'[p])
        BY <3>1, <3>2 DEF UsesQueueSlot, SubmitStatus
      <4> HIDE DEF t, p
      <4>2. SlotsFollow' /\ SlotsUnique'
        BY <2>1, <3>1, <3>2, <4>1 DEF BookingInv, SlotsFollow, SlotsUnique
      <4>3. QED
        BY <1>1, <2>3, <4>2 DEF BookingInv
    <3>3. CASE ~WindowOver(t)
      <4>1. ~SlotConflict(rows, slots, t.window, p)
        BY <2>1, <2>5, <3>3 DEF MustWait
      <4>2. t.window \in Weeks \cup {NULL}
        BY <2>1 DEF Transition
      <4> HIDE DEF t, p
      <4>3. /\ \A q \in Proposals : UsesQueueSlot(rows'[q]) => slots'[q] = rows'[q].window
            /\ \A q, r \in Proposals : q # r /\ slots'[q] # NULL => slots'[q] # slots'[r]
        BY <1>2, <2>1, <3>1, <3>3, <4>1, <4>2, BookedSlot DEF BookingInv
      <4>4. SlotsFollow' /\ SlotsUnique'
        BY <4>3 DEF SlotsFollow, SlotsUnique
      <4>5. QED
        BY <1>1, <2>3, <4>4 DEF BookingInv
    <3>4. QED
      BY <3>2, <3>3
  <2>6. QED
    BY <2>4, <2>5
<1>6. QED
  BY <1>2, <1>3, <1>4, <1>5, StepKinds

(* However many submits race for the weeks of the queue, whatever is lost, *)
(* retried or overwritten, acquire_queue_advisory_lock and the slot table  *)
(* let no week be booked twice - unless an operator re-arms a proposal.    *)
THEOREM WeeksBookedOnce ==
  ASSUME RearmActions = {}
  PROVE  Spec => []NoDoubleBooking
<1>1. BookingInv => NoDoubleBooking
  <2> SUFFICES ASSUME BookingInv, NEW p \in existing, NEW q \in existing, p # q
               PROVE  /\ UsesQueueSlot(rows[p]) /\ UsesQueueSlot(rows[q]) => rows[p].window # rows[q].window
                      /\ slots[p] # NULL => slots[p] # slots[q]
    BY DEF NoDoubleBooking
  <2>1. p \in Proposals /\ q \in Proposals
    BY DEF BookingInv, TypeInv, TypeOK
  <2>2. QED
    BY <2>1 DEF BookingInv, SlotsFollow, SlotsUnique, UsesQueueSlot
<1>2. BookingInv /\ [Next]_vars => BookingInv'
  BY BookingStep
<1>3. QED
  BY <1>1, <1>2, BookingInit, PTL DEF Spec

-----------------------------------------------------------------------------
(* Assets.                                                                 *)

(* What blocks the asset of another proposal is what counts as active: no  *)
(* draft is booked or about to be.                                         *)
DraftsOffQueue ==
  \A p \in Proposals :
    Booked(rows[p].proposal_status) \/ rows[p].action = "TO_SUBMIT" => ~rows[p].draft

ActiveRow(row) == ~row.hide /\ Booked(row.proposal_status)

AssetsApart ==
  \A p, q \in existing :
    p # q /\ ActiveRow(rows[p]) /\ ActiveRow(rows[q]) => AssetOf[p] = NULL \/ AssetOf[p] # AssetOf[q]

AssetInv == BookingInv /\ DraftsOffQueue /\ AssetsApart

(* No asset is active at first. *)
LEMMA AssetInit == Init => AssetInv
<1> SUFFICES ASSUME Init PROVE AssetInv
  OBVIOUS
<1>1. BookingInv /\ existing \subseteq Proposals
  BY BookingInit DEF BookingInv, TypeInv, TypeOK
<1>2. AbsentRow.proposal_status = "DISCUSSION" /\ AbsentRow.action = "TO_CREATE"
  BY DEF AbsentRow, Draft
<1>3. \A p \in Proposals : rows[p].proposal_status = "DISCUSSION" /\ rows[p].action # "TO_SUBMIT"
  BY <1>2, OpeningRows, GenesisColumns
<1>4. QED
  BY <1>1, <1>3 DEF AssetInv, DraftsOffQueue, AssetsApart, ActiveRow, Booked

(* Rows that become active no more than they were keep the assets apart. *)
LEMMA AssetsKept ==
  ASSUME AssetsApart,
         \A p \in existing' : ActiveRow(rows'[p]) => p \in existing /\ ActiveRow(rows[p])
  PROVE  AssetsApart'
  BY DEF AssetsApart

(* Without re-arming, no step makes a second proposal of an asset active. *)
LEMMA AssetStep ==
  ASSUME RearmActions = {}, AssetInv, [Next]_vars
  PROVE  AssetInv'
<1>1. BookingInv'
  BY BookingStep DEF AssetInv
<1>2. TypeInv /\ StagingInv /\ existing \subseteq Proposals /\ AssetsApart
  BY DEF AssetInv, BookingInv, TypeInv, TypeOK
<1>3. CASE OnlyVerdicts
  <2>1. DraftsOffQueue'
    BY <1>3 DEF OnlyVerdicts, VerdictStepOf, VerdictWrite, SameOffer, AssetInv, DraftsOffQueue
  <2>2. \A p \in existing' : ActiveRow(rows'[p]) => p \in existing /\ ActiveRow(rows[p])
    BY <1>2, <1>3 DEF OnlyVerdicts, VerdictStepOf, VerdictWrite, SameOffer, ActiveRow
  <2>3. QED
    BY <1>1, <1>2, <2>1, <2>2, AssetsKept DEF AssetInv
<1>4. ASSUME NEW w \in Web, Commit(w)
      PROVE  AssetInv'
  <2> DEFINE t == jobs[w].current
             p == t.proposal
  <2>1. /\ p \in Proposals
        /\ \A q \in Proposals \ {p} : rows'[q] = rows[q]
        /\ existing' \subseteq existing \cup {p}
    BY <1>2, <1>4, CommittedRow
  <2>2. StagingSound(w) /\ jobs[w].pc = "staging"
    BY <1>2, <1>4, CommittedRow DEF StagingInv, Processes
  <2>3. \/ rows'[p] = rows[p] /\ existing' = existing
        \/ rows'[p].proposal_status = "DISCUSSION" /\ rows'[p].action # "TO_SUBMIT"
        \/ /\ rows'[p].proposal_status = rows[p].proposal_status
           /\ rows'[p].hide = rows[p].hide
           /\ ~rows'[p].draft
           /\ existing' = existing
    BY <1>2, <1>4, <2>2, CommittedRow, DraftColumns, StagedUpdateColumns, StagedSubmitColumns
       DEF StagingSound
  <2> HIDE DEF t, p
  <2>4. DraftsOffQueue'
    BY <2>1, <2>3 DEF AssetInv, DraftsOffQueue, Booked
  <2>5. \A q \in existing' : ActiveRow(rows'[q]) => q \in existing /\ ActiveRow(rows[q])
    BY <1>2, <2>1, <2>3 DEF ActiveRow, Booked
  <2>6. QED
    BY <1>1, <1>2, <2>4, <2>5, AssetsKept DEF AssetInv
<1>5. ASSUME NEW w \in Processes, Promote(w)
      PROVE  AssetInv'
  <2> DEFINE t == jobs[w].current
             p == t.proposal
  <2>1. /\ p \in Proposals /\ existing' = existing
        /\ rows[p] \in Row /\ rows[p].action = t.action /\ ~MustWait(t)
        /\ \A q \in Proposals \ {p} : rows'[q] = rows[q]
    BY <1>2, <1>5, PromotedRow DEF StillStaged
  <2>2. /\ rows'[p].action = "NONE"
        /\ rows'[p].hide = rows[p].hide
        /\ rows'[p].draft = rows[p].draft \/ ~rows'[p].draft
        /\ IF t.action = "TO_SUBMIT" THEN rows'[p].proposal_status = SubmitStatus(t)
           ELSE rows'[p].proposal_status = rows[p].proposal_status
    BY <1>2, <1>5, PromotedRow, ConfirmedCreateColumns, ConfirmedUpdateColumns, ConfirmedSubmitColumns
  <2>3. DraftsOffQueue'
    <3> HIDE DEF t, p
    <3> QED
      BY <2>1, <2>2 DEF AssetInv, DraftsOffQueue, Booked
  <2>4. CASE t.action # "TO_SUBMIT" \/ WindowOver(t)
    <3>1. \A q \in existing' : ActiveRow(rows'[q]) => q \in existing /\ ActiveRow(rows[q])
      <4>1. t.action = "TO_SUBMIT" => rows'[p].proposal_status = "EXPIRED"
        BY <2>2, <2>4 DEF SubmitStatus
      <4> HIDE DEF t, p
      <4> QED
        BY <1>2, <2>1, <2>2, <4>1 DEF ActiveRow, Booked
    <3>2. QED
      BY <1>1, <1>2, <2>3, <3>1, AssetsKept DEF AssetInv
  <2>5. CASE t.action = "TO_SUBMIT" /\ ~WindowOver(t)
    <3>1. ~AssetConflict(rows, existing, AssetOf, p)
      BY <2>1, <2>5 DEF MustWait
    <3> HIDE DEF t, p
    <3>2. ASSUME NEW q \in existing \ {p}, ActiveRow(rows[q])
          PROVE  AssetOf[p] = NULL \/ AssetOf[p] # AssetOf[q]
      <4>1. ~rows[q].draft /\ ~rows[q].hide /\ rows[q].proposal_status \in {"QUEUED", "VOTING"}
        BY <1>2, <3>2 DEF AssetInv, DraftsOffQueue, ActiveRow, Booked
      <4>2. QED
        BY <3>1, <4>1 DEF AssetConflict
    <3>3. AssetsApart'
      BY <1>2, <2>1, <3>2 DEF AssetsApart
    <3>4. QED
      BY <1>1, <2>3, <3>3 DEF AssetInv
  <2>6. QED
    BY <2>4, <2>5
<1>6. QED
  BY <1>2, <1>3, <1>4, <1>5, StepKinds DEF AssetInv, BookingInv

(* The second look find_active_asset_proposal_conflict takes under the     *)
(* lock is enough: at most one proposal about an asset is queued or being  *)
(* voted on - unless an operator re-arms a proposal.                       *)
THEOREM AssetsVotedOneByOne ==
  ASSUME RearmActions = {}
  PROVE  Spec => []OneActivePerAsset
<1>1. AssetInv => OneActivePerAsset
  BY DEF AssetInv, AssetsApart, ActiveRow, Booked, OneActivePerAsset
<1>2. AssetInv /\ [Next]_vars => AssetInv'
  BY AssetStep
<1>3. QED
  BY <1>1, <1>2, AssetInit, PTL DEF Spec

-----------------------------------------------------------------------------
(* The calendar at work, next to the forms of the managers.                *)

(* Every edit names a status, as the forms of managers do, which show only *)
(* asset proposals.  A superuser's form, which leaves the status alone,    *)
(* could move the week of a general proposal by hand.                      *)
AssetFormsOnly == \A edit \in Edits : edit.status # NULL

(* No proposal has two submits paid for and applied. *)
PaidOnce ==
  \A i, j \in DOMAIN applied :
    /\ applied[i].action = "TO_SUBMIT"
    /\ applied[j].action = "TO_SUBMIT"
    /\ applied[i].proposal = applied[j].proposal
    => i = j

Submitted(p) == \E i \in DOMAIN applied : applied[i].action = "TO_SUBMIT" /\ applied[i].proposal = p

(* What a form holds until it is saved. *)
FormSound(m) ==
  forms[m].pc # "idle" =>
    /\ forms[m].proposal \in Proposals
    /\ IsAsset(forms[m].proposal)
    /\ forms[m].row \in Row
    /\ forms[m].edit \in Edits

BeatTypes == TypeInv /\ beats \in [Beats -> BeatJob]
FormTypes == forms \in [Managers -> Form] /\ \A m \in Managers : FormSound(m)

(* The status of a row may be anything a status can be, and so may what a  *)
(* form writes.                                                            *)
LEMMA StatusType ==
  ASSUME NEW row \in Row, NEW status \in ProposalStatus
  PROVE  [row EXCEPT !.proposal_status = status] \in Row
  BY ZenonT(60) DEF Row

(* So may what a form writes. *)
LEMMA EditedType ==
  ASSUME NEW row \in Row, NEW status \in ProposalStatus, NEW window \in Weeks \cup {NULL}
  PROVE  [row EXCEPT !.proposal_status = status, !.window = window] \in Row
  BY ZenonT(60) DEF Row

(* The queue only ever holds weeks, whether missing slots are created or   *)
(* not.                                                                    *)
LEMMA SyncSlotType ==
  ASSUME NEW table \in [Proposals -> Row], NEW held \in [Proposals -> Weeks \cup {NULL}],
         NEW p \in Proposals, NEW create \in BOOLEAN
  PROVE  SyncSlot(table, held, p, create) \in [Proposals -> Weeks \cup {NULL}]
<1>1. table[p].window \in Weeks \cup {NULL}
  BY DEF Row
<1>2. QED
  BY <1>1 DEF SyncSlot

(* A step that leaves the workers of Promotion alone keeps the types if it *)
(* writes rows and weeks.                                                  *)
LEMMA TablesTyped ==
  ASSUME TypeInv,
         existing' \subseteq Proposals,
         rows' \in [Proposals -> Row],
         slots' \in [Proposals -> Weeks \cup {NULL}],
         UNCHANGED <<history, ledger, settled, now, jobs, applied>>
  PROVE  TypeInv'
  BY DEF TypeInv, TypeOK, JobsOK

(* What a confirmed submit found and wrote. *)
LEMMA ConfirmedFacts ==
  ASSUME TypeInv, NEW p \in Proposals, ConfirmSubmit(p)
  PROVE  LET t == Resolve(p, rows[p])
         IN  /\ t \in Transition /\ t.proposal = p /\ t.action = "TO_SUBMIT" /\ t.window \in Weeks
             /\ rows[p] \in Row
             /\ rows' = [rows EXCEPT ![p] = ConfirmedSubmit(rows[p], t, SubmitStatus(t), now)]
             /\ slots' = IF WindowOver(t) THEN slots ELSE SyncQueueSlot(rows', slots, p)
             /\ history' = history \cup Archived(t)
             /\ ledger' = ledger \cup ResolvedHashes(t.hash)
             /\ applied' = Append(applied, t)
             /\ UNCHANGED <<existing, settled, now, jobs, beats>>
<1> DEFINE t == Resolve(p, rows[p])
<1>1. rows[p] \in Row
  BY DEF TypeInv, TypeOK
<1>2. t.proposal = p /\ t.action = rows[p].action
  BY DEF Resolve
<1>3. t.action = "TO_SUBMIT" /\ t.window # NULL
  BY DEF ConfirmSubmit, ApplySubmit
<1>4. t \in Transition
  BY <1>1, <1>2, <1>3, ResolveType
<1>5. t.window \in Weeks
  BY <1>3, <1>4 DEF Transition
<1>6. QED
  BY <1>1, <1>2, <1>3, <1>4, <1>5 DEF ConfirmSubmit, ApplySubmit, Claim

(* A confirmed submit keeps the types. *)
LEMMA ConfirmType ==
  ASSUME TypeInv, NEW p \in Proposals, ConfirmSubmit(p)
  PROVE  TypeInv'
<1> DEFINE t == Resolve(p, rows[p])
<1>1. /\ t \in Transition /\ rows[p] \in Row /\ t.proposal = p
      /\ rows' = [rows EXCEPT ![p] = ConfirmedSubmit(rows[p], t, SubmitStatus(t), now)]
      /\ slots' = IF WindowOver(t) THEN slots ELSE SyncQueueSlot(rows', slots, p)
      /\ history' = history \cup Archived(t)
      /\ ledger' = ledger \cup ResolvedHashes(t.hash)
      /\ applied' = Append(applied, t)
      /\ UNCHANGED <<existing, settled, now, jobs, beats>>
  BY ConfirmedFacts
<1> HIDE DEF t
<1>2. SubmitStatus(t) \in ProposalStatus
  BY DEF SubmitStatus, ProposalStatus
<1>3. ConfirmedSubmit(rows[p], t, SubmitStatus(t), now) \in Row
  BY <1>1, <1>2, ConfirmedSubmitType DEF TypeInv, TypeOK
<1>4. rows' \in [Proposals -> Row]
  BY <1>1, <1>3 DEF TypeInv, TypeOK
<1>5. SyncQueueSlot(rows', slots, p) \in [Proposals -> Weeks \cup {NULL}]
  BY <1>4, SyncQueueSlotType DEF TypeInv, TypeOK
<1>6. slots' \in [Proposals -> Weeks \cup {NULL}]
  BY <1>1, <1>5 DEF TypeInv, TypeOK
<1>7. history' \subseteq Hashes /\ ledger' \subseteq Hashes /\ applied' \in Seq(Transition)
  <2>1. Archived(t) \subseteq Hashes
    BY <1>1 DEF Archived, Row
  <2>2. ResolvedHashes(t.hash) \subseteq Hashes
    BY DEF ResolvedHashes
  <2>3. QED
    BY <1>1, <2>1, <2>2 DEF TypeInv, TypeOK
<1>8. JobsOK'
  BY <1>1 DEF TypeInv, JobsOK
<1>9. QED
  BY <1>1, <1>4, <1>6, <1>7, <1>8 DEF TypeInv, TypeOK

(* The steps of Promotion the calendar goes on with. *)
Requests ==
  /\ \/ Tick
     \/ \E w \in Web, p \in Proposals, h \in Hashes, window \in Weeks : BeginSubmit(w, p, h, window)
     \/ \E w \in Web : CommitSubmit(w) \/ Crash(w)
  /\ UNCHANGED beats

(* They are steps of it. *)
LEMMA RequestsType ==
  ASSUME TypeInv, Requests
  PROVE  TypeInv'
  BY TypeStep DEF Requests, Next, Stage, Processes

(* The kinds of steps of the calendar. *)
LEMMA ScheduleSteps ==
  ASSUME [ScheduleNext]_scheduleVars
  PROVE  \/ UNCHANGED vars /\ UNCHANGED beats
         \/ Requests
         \/ \E p \in Proposals : ConfirmSubmit(p)
         \/ \E b \in Beats : Beat(b) \/ CrashBeat(b)
  BY DEF ScheduleNext, Requests, scheduleVars

(* And of the calendar with its forms. *)
LEMMA AdminSteps ==
  ASSUME [AdminNext]_adminVars
  PROVE  \/ [ScheduleNext]_scheduleVars /\ UNCHANGED forms
         \/ \E m \in Managers, p \in Proposals, edit \in Edits : BeginEdit(m, p, edit)
         \/ \E m \in Managers : CommitEdit(m) \/ SaveEdit(m)
         \/ \E p \in Proposals, c \in Contents, edit \in Edits : AddAsset(p, c, edit)
  BY DEF AdminNext, adminVars

(* A tick of the beat keeps the types. *)
LEMMA BeatType ==
  ASSUME BeatTypes, NEW b \in Beats, Beat(b) \/ CrashBeat(b)
  PROVE  BeatTypes'
<1> SUFFICES TypeInv' /\ beats' \in [Beats -> BeatJob]
  BY DEF BeatTypes
<1>1. /\ beats[b] \in BeatJob /\ now \in Time
      /\ rows \in [Proposals -> Row] /\ slots \in [Proposals -> Weeks \cup {NULL}]
      /\ existing \subseteq Proposals /\ TypeInv
  BY DEF BeatTypes, TypeInv, TypeOK
<1>2. \A due : AfterVotes(due) \in {"expiring", "finishing"}
  BY DEF AfterVotes
<1>3. IdleBeat \in BeatJob
  BY MaxTimeAssumption DEF IdleBeat, BeatJob, Time
<1>4. ASSUME NEW job \in BeatJob, beats' = [beats EXCEPT ![b] = job]
      PROVE  beats' \in [Beats -> BeatJob]
  BY <1>4 DEF BeatTypes
<1>5. ASSUME UNCHANGED vars
      PROVE  TypeInv'
  BY <1>1, <1>5 DEF vars, TypeInv, TypeOK, JobsOK
<1>6. ASSUME NEW newRows \in [Proposals -> Row], NEW newSlots \in [Proposals -> Weeks \cup {NULL}],
             Write(newRows, newSlots)
      PROVE  TypeInv'
  BY <1>1, <1>6, TablesTyped DEF Write
<1>7. ASSUME NEW p \in Proposals, NEW status \in ProposalStatus
      PROVE  [rows EXCEPT ![p].proposal_status = status] \in [Proposals -> Row]
  BY <1>1, StatusType
<1>8. CASE StartBeat(b)
  <2> DEFINE due == {p \in Proposals : VoteOver(p, now)}
             job == [pc |-> AfterVotes(due), at |-> now, due |-> due, ended |-> NULL]
  <2>1. beats' = [beats EXCEPT ![b] = job] /\ UNCHANGED vars
    BY <1>8 DEF StartBeat
  <2>2. job \in BeatJob
    BY <1>1, <1>2 DEF BeatJob
  <2> HIDE DEF job
  <2>3. QED
    BY <1>4, <1>5, <2>1, <2>2
<1>9. CASE FinishVote(b)
  <2>1. PICK p \in beats[b].due :
          /\ Write([rows EXCEPT ![p].proposal_status = "VOTED"], slots)
          /\ beats' = [beats EXCEPT ![b].pc = "releasing", ![b].due = @ \ {p}, ![b].ended = p]
    BY <1>9 DEF FinishVote
  <2>2. p \in Proposals
    BY <1>1 DEF BeatJob
  <2> DEFINE job == [beats[b] EXCEPT !.pc = "releasing", !.due = @ \ {p}, !.ended = p]
  <2>3. job \in BeatJob
    BY <1>1, <2>2 DEF BeatJob
  <2>4. beats' = [beats EXCEPT ![b] = job]
    BY <2>1
  <2>5. [rows EXCEPT ![p].proposal_status = "VOTED"] \in [Proposals -> Row]
    BY <1>7, <2>2 DEF ProposalStatus
  <2> HIDE DEF job
  <2>6. QED
    BY <1>1, <1>4, <1>6, <2>1, <2>3, <2>4, <2>5
<1>10. CASE ReleaseSlot(b)
  <2> DEFINE job == [beats[b] EXCEPT !.pc = AfterVotes(beats[b].due), !.ended = NULL]
  <2>1. job \in BeatJob
    BY <1>1, <1>2 DEF BeatJob
  <2>2. beats' = [beats EXCEPT ![b] = job]
    BY <1>10 DEF ReleaseSlot
  <2>3. [slots EXCEPT ![beats[b].ended] = NULL] \in [Proposals -> Weeks \cup {NULL}]
    BY <1>1
  <2> HIDE DEF job
  <2>4. QED
    BY <1>1, <1>4, <1>6, <1>10, <2>1, <2>2, <2>3 DEF ReleaseSlot
<1>11. CASE ExpireDiscussions(b)
  <2> DEFINE job == [beats[b] EXCEPT !.pc = "starting"]
             expired == [p \in Proposals |->
                           IF Expires(p, beats[b].at) THEN [rows[p] EXCEPT !.proposal_status = "EXPIRED"]
                           ELSE rows[p]]
  <2>1. job \in BeatJob
    BY <1>1 DEF BeatJob
  <2>2. beats' = [beats EXCEPT ![b] = job] /\ Write(expired, slots)
    BY <1>11 DEF ExpireDiscussions
  <2>3. expired \in [Proposals -> Row]
    BY <1>1, StatusType DEF ProposalStatus
  <2> HIDE DEF job, expired
  <2>4. QED
    BY <1>1, <1>4, <1>6, <2>1, <2>2, <2>3
<1>12. CASE StartVote(b)
  <2>1. beats' = [beats EXCEPT ![b] = IdleBeat]
    BY <1>12 DEF StartVote
  <2>2. CASE UNCHANGED vars
    BY <1>3, <1>4, <1>5, <2>1, <2>2
  <2>3. CASE \E p \in Proposals : Write([rows EXCEPT ![p].proposal_status = "VOTING"], slots)
    <3>1. PICK p \in Proposals : Write([rows EXCEPT ![p].proposal_status = "VOTING"], slots)
      BY <2>3
    <3>2. [rows EXCEPT ![p].proposal_status = "VOTING"] \in [Proposals -> Row]
      BY <1>7 DEF ProposalStatus
    <3>3. QED
      BY <1>1, <1>3, <1>4, <1>6, <2>1, <3>1, <3>2
  <2>4. QED
    BY <1>12, <2>2, <2>3 DEF StartVote
<1>13. CASE CrashBeat(b)
  BY <1>3, <1>4, <1>5, <1>13 DEF CrashBeat
<1>14. QED
  BY <1>8, <1>9, <1>10, <1>11, <1>12, <1>13 DEF Beat

(* What a form saves, if it does.                                          *)
SavedRow(m) ==
  [forms[m].row EXCEPT !.proposal_status = TargetStatus(forms[m].row, forms[m].edit),
                       !.window = TargetWindow(forms[m].row, forms[m].edit)]

(* A form is closed, and the instance saved with its slot, or nothing is. *)
LEMMA SaveWrites ==
  ASSUME NEW m \in Managers, Save(m)
  PROVE  /\ forms' = [forms EXCEPT ![m] = IdleForm]
         /\ UNCHANGED beats
         /\ \/ UNCHANGED vars
            \/ LET saved == [rows EXCEPT ![forms[m].proposal] = SavedRow(m)]
               IN  \E create \in BOOLEAN :
                     Write(saved, SyncSlot(saved, slots, forms[m].proposal, create))
<1> DEFINE p == forms[m].proposal
           row == forms[m].row
           edit == forms[m].edit
           saved == [rows EXCEPT ![p] = SavedRow(m)]
           scheduled == TargetStatus(row, edit) # row.proposal_status \/ edit.window # row.window
<1>1. CASE Refuse(m)
  BY <1>1 DEF Refuse, scheduleVars
<1>2. CASE ~Refuse(m)
  <2>1. /\ forms' = [forms EXCEPT ![m] = IdleForm]
        /\ Write(saved, SyncSlot(saved, slots, p, scheduled))
        /\ UNCHANGED beats
    BY <1>2 DEF Save, SavedRow
  <2>2. scheduled \in BOOLEAN
    OBVIOUS
  <2> HIDE DEF scheduled
  <2>3. QED
    BY <2>1, <2>2
<1>3. QED
  BY <1>1, <1>2

(* What a form saves is a row. *)
LEMMA SavedRowType ==
  ASSUME FormTypes, NEW m \in Managers, forms[m].pc # "idle"
  PROVE  /\ SavedRow(m) \in Row
         /\ forms[m].proposal \in Proposals
         /\ IsAsset(forms[m].proposal)
<1>1. FormSound(m)
  BY DEF FormTypes
<1>2. forms[m].edit.status \in ProposalStatus \cup {NULL} /\ forms[m].edit.window \in Weeks \cup {NULL}
  BY <1>1, EditsAssumption DEF FormSound
<1>3. TargetStatus(forms[m].row, forms[m].edit) \in ProposalStatus
  BY <1>1, <1>2 DEF FormSound, TargetStatus, Row
<1>4. TargetWindow(forms[m].row, forms[m].edit) \in Weeks \cup {NULL}
  BY <1>2 DEF TargetWindow
<1>5. QED
  BY <1>1, <1>3, <1>4, EditedType DEF FormSound, SavedRow

(* A form at work goes on to its save, or is closed, with a save or not. *)
LEMMA FormSteps ==
  ASSUME NEW m \in Managers, CommitEdit(m) \/ SaveEdit(m)
  PROVE  /\ forms[m].pc # "idle"
         /\ UNCHANGED beats
         /\ \/ forms' = [forms EXCEPT ![m].pc = "saving"] /\ UNCHANGED vars
            \/ forms' = [forms EXCEPT ![m] = IdleForm] /\ UNCHANGED vars
            \/ forms' = [forms EXCEPT ![m] = IdleForm] /\ Save(m)
  BY SaveWrites DEF CommitEdit, SaveEdit, Refuse, scheduleVars

(* The types hold at first. *)
LEMMA BeatTypesInit == ScheduleInit => BeatTypes
<1>1. IdleBeat \in BeatJob
  BY MaxTimeAssumption DEF IdleBeat, BeatJob, Time
<1>2. QED
  BY <1>1, TypeInit DEF ScheduleInit, BeatTypes

(* And ever after, the beat's. *)
LEMMA BeatTypesStep ==
  ASSUME BeatTypes, [ScheduleNext]_scheduleVars
  PROVE  BeatTypes'
<1>1. CASE UNCHANGED vars /\ UNCHANGED beats
  BY <1>1 DEF vars, BeatTypes, TypeInv, TypeOK, JobsOK
<1>2. CASE Requests
  BY <1>2, RequestsType DEF Requests, BeatTypes
<1>3. ASSUME NEW p \in Proposals, ConfirmSubmit(p)
      PROVE  BeatTypes'
  BY <1>3, ConfirmType DEF ConfirmSubmit, BeatTypes
<1>4. QED
  BY <1>1, <1>2, <1>3, BeatType, ScheduleSteps

(* A form that is opened, goes on or is closed is in order. *)
LEMMA FormUpdate ==
  ASSUME FormTypes, NEW m \in Managers, NEW form \in Form, forms' = [forms EXCEPT ![m] = form],
         form.pc # "idle" =>
           /\ form.proposal \in Proposals /\ IsAsset(form.proposal)
           /\ form.row \in Row /\ form.edit \in Edits
  PROVE  FormTypes'
<1>1. forms' \in [Managers -> Form] /\ forms'[m] = form
      /\ \A n \in Managers \ {m} : forms'[n] = forms[n]
  BY DEF FormTypes
<1>2. FormSound(m)'
  BY <1>1 DEF FormSound, IsAsset
<1>3. ASSUME NEW n \in Managers \ {m}
      PROVE  FormSound(n)'
  BY <1>1 DEF FormTypes, FormSound, IsAsset
<1>4. QED
  BY <1>1, <1>2, <1>3 DEF FormTypes

(* What a form leaves in the tables: the row of an asset proposal, and the *)
(* slot that follows it.                                                   *)
AssetWrite ==
  /\ UNCHANGED <<history, ledger, settled, now, jobs, applied, beats>>
  /\ existing' \subseteq Proposals
  /\ \E p \in Proposals, row \in Row, create \in BOOLEAN :
       /\ IsAsset(p)
       /\ rows' = [rows EXCEPT ![p] = row]
       /\ slots' = SyncSlot(rows', slots, p, create)

(* Or nothing new. *)
LEMMA FormWrites ==
  ASSUME AssetFormsOnly, BeatTypes, FormTypes, [AdminNext]_adminVars
  PROVE  /\ FormTypes'
         /\ [ScheduleNext]_scheduleVars \/ AssetWrite
<1>1. /\ TypeInv /\ existing \subseteq Proposals /\ rows \in [Proposals -> Row] /\ now \in Time
      /\ \A m \in Managers : forms[m] \in Form /\ FormSound(m)
  BY DEF BeatTypes, FormTypes, TypeInv, TypeOK
<1>2. IdleForm \in Form /\ IdleForm.pc = "idle"
  BY DEF IdleForm, Form
<1>3. UNCHANGED forms => FormTypes'
  BY DEF FormTypes, FormSound
<1>4. UNCHANGED vars /\ UNCHANGED beats => [ScheduleNext]_scheduleVars
  BY DEF scheduleVars
<1>5. CASE [ScheduleNext]_scheduleVars /\ UNCHANGED forms
  BY <1>3, <1>5
<1>6. ASSUME NEW m \in Managers, NEW p \in Proposals, NEW edit \in Edits, BeginEdit(m, p, edit)
      PROVE  FormTypes' /\ [ScheduleNext]_scheduleVars
  <2> DEFINE form == [pc |-> "cleaning", proposal |-> p, row |-> rows[p], edit |-> edit]
  <2>1. rows[p] \in Row /\ IsAsset(p)
    BY <1>1, <1>6 DEF BeginEdit, AssetFormsOnly
  <2>2. form \in Form
    BY <2>1 DEF Form
  <2>3. forms' = [forms EXCEPT ![m] = form] /\ UNCHANGED scheduleVars
    BY <1>6 DEF BeginEdit
  <2>4. /\ form.proposal \in Proposals /\ IsAsset(form.proposal)
        /\ form.row \in Row /\ form.edit \in Edits
    BY <2>1
  <2> HIDE DEF form
  <2>5. QED
    BY <2>2, <2>3, <2>4, FormUpdate
<1>7. ASSUME NEW m \in Managers, CommitEdit(m) \/ SaveEdit(m)
      PROVE  FormTypes' /\ ([ScheduleNext]_scheduleVars \/ AssetWrite)
  <2>1. forms[m].pc # "idle" /\ UNCHANGED beats
    BY <1>7, FormSteps
  <2>2. CASE forms' = [forms EXCEPT ![m].pc = "saving"] /\ UNCHANGED vars
    <3> DEFINE form == [forms[m] EXCEPT !.pc = "saving"]
    <3>1. form \in Form /\ forms' = [forms EXCEPT ![m] = form]
      BY <1>1, <2>2 DEF Form
    <3>2. /\ form.proposal \in Proposals /\ IsAsset(form.proposal)
          /\ form.row \in Row /\ form.edit \in Edits
      BY <1>1, <2>1 DEF FormSound, Form
    <3> HIDE DEF form
    <3>3. QED
      BY <1>4, <2>1, <2>2, <3>1, <3>2, FormUpdate
  <2>3. CASE forms' = [forms EXCEPT ![m] = IdleForm] /\ UNCHANGED vars
    BY <1>2, <1>4, <2>1, <2>3, FormUpdate
  <2>4. CASE forms' = [forms EXCEPT ![m] = IdleForm] /\ Save(m)
    <3> DEFINE p == forms[m].proposal
               saved == [rows EXCEPT ![p] = SavedRow(m)]
    <3>1. SavedRow(m) \in Row /\ p \in Proposals /\ IsAsset(p)
      BY <2>1, SavedRowType
    <3>2. FormTypes'
      BY <1>2, <2>4, FormUpdate
    <3>3. CASE UNCHANGED vars
      BY <1>4, <2>1, <3>2, <3>3
    <3>4. CASE \E create \in BOOLEAN : Write(saved, SyncSlot(saved, slots, p, create))
      <4> DEFINE row == SavedRow(m)
      <4>1. PICK create \in BOOLEAN : Write(saved, SyncSlot(saved, slots, p, create))
        BY <3>4
      <4>2. rows' = [rows EXCEPT ![p] = row] /\ slots' = SyncSlot(rows', slots, p, create)
            /\ UNCHANGED <<existing, history, ledger, settled, now, jobs, applied, beats>>
        BY <2>1, <4>1 DEF Write
      <4> HIDE DEF row, p
      <4>3. QED
        BY <1>1, <3>1, <3>2, <4>2 DEF AssetWrite, row
    <3>5. QED
      BY <2>4, <3>3, <3>4, SaveWrites
  <2>5. QED
    BY <1>7, <2>2, <2>3, <2>4, FormSteps
<1>8. ASSUME NEW p \in Proposals, NEW c \in Contents, NEW edit \in Edits, AddAsset(p, c, edit)
      PROVE  FormTypes' /\ AssetWrite
  <2> DEFINE status == IF edit.status = NULL THEN "DISCUSSION" ELSE edit.status
             row == [AbsentRow EXCEPT !.proposal_status = status,
                                      !.action = "NONE",
                                      !.draft = FALSE,
                                      !.content = c,
                                      !.window = edit.window,
                                      !.last_updated_at = now]
  <2>1. /\ IsAsset(p)
        /\ existing' = existing \cup {p}
        /\ rows' = [rows EXCEPT ![p] = row]
        /\ slots' = SyncSlot(rows', slots, p, TRUE)
        /\ UNCHANGED <<history, ledger, settled, now, jobs, applied, beats, forms>>
    BY <1>8 DEF AddAsset
  <2>2. status \in ProposalStatus /\ edit.window \in Weeks \cup {NULL}
    BY EditsAssumption DEF ProposalStatus
  <2>3. AbsentRow \in Row
    BY MaxTimeAssumption, DraftType DEF AbsentRow, PaymentStatus, Time
  <2>4. row \in Row
    <3> HIDE DEF status
    <3> QED
      BY <1>1, <2>2, <2>3, ZenonT(60) DEF Row, Action
  <2> HIDE DEF row
  <2>5. \E create \in BOOLEAN : slots' = SyncSlot(rows', slots, p, create)
    BY <2>1
  <2>6. QED
    BY <1>1, <1>3, <2>1, <2>4, <2>5 DEF AssetWrite
<1>9. QED
  BY <1>5, <1>6, <1>7, <1>8, AdminSteps

(* They keep the types. *)
LEMMA AssetWriteType ==
  ASSUME BeatTypes, AssetWrite
  PROVE  BeatTypes'
<1>1. rows \in [Proposals -> Row] /\ slots \in [Proposals -> Weeks \cup {NULL}] /\ TypeInv
  BY DEF BeatTypes, TypeInv, TypeOK
<1>2. PICK p \in Proposals, row \in Row, create \in BOOLEAN :
        rows' = [rows EXCEPT ![p] = row] /\ slots' = SyncSlot(rows', slots, p, create)
  BY DEF AssetWrite
<1>3. rows' \in [Proposals -> Row]
  BY <1>1, <1>2
<1>4. slots' \in [Proposals -> Weeks \cup {NULL}]
  BY <1>1, <1>2, <1>3, SyncSlotType
<1>5. TypeInv'
  BY <1>1, <1>3, <1>4, TablesTyped DEF AssetWrite
<1>6. QED
  BY <1>5 DEF AssetWrite, BeatTypes

-----------------------------------------------------------------------------
(* Votes keep their week.                                                  *)

WeekOver(p, at) == rows[p].window # NULL /\ EndAt(rows[p].window) <= at

(* A row has left the discussion only by a paid submit, its status is no   *)
(* further than the clock, and the slot table follows it.                  *)
OnTime(p) ==
  /\ rows[p].proposal_status \in {"QUEUED", "VOTING", "VOTED"} => Submitted(p)
  /\ rows[p].proposal_status = "VOTING" /\ rows[p].window # NULL => StartAt(rows[p].window) <= now
  /\ rows[p].proposal_status = "VOTED" => WeekOver(p, now)
  /\ UsesQueueSlot(rows[p]) => slots[p] = rows[p].window

(* What a tick of the beat read is still true enough to act on: the votes  *)
(* it has yet to end are over, and the one it is ending has ended.         *)
TickSound(b, S) ==
  /\ beats[b].at <= now
  /\ \A p \in S :
       /\ p \in beats[b].due =>
            rows[p].proposal_status \in {"VOTING", "VOTED"} /\ WeekOver(p, beats[b].at)
       /\ p = beats[b].ended /\ beats[b].pc = "releasing" => rows[p].proposal_status = "VOTED"

(* All of that, of the proposals of S: all of them, or those that no form  *)
(* writes.                                                                 *)
CalendarInv(S) ==
  /\ BeatTypes
  /\ \A p \in S : OnTime(p)
  /\ \A b \in Beats : TickSound(b, S)

(* The step changes neither the status nor the week of p, and takes no     *)
(* slot from it.                                                           *)
Unmoved(p) ==
  /\ rows'[p].proposal_status = rows[p].proposal_status
  /\ rows'[p].window = rows[p].window
  /\ UsesQueueSlot(rows'[p]) => UsesQueueSlot(rows[p]) /\ slots'[p] = slots[p]

(* The step leaves a vote that was open open or ends it, in its week, and  *)
(* one that was over over.                                                 *)
Lasts(p) ==
  /\ rows[p].proposal_status \in {"VOTING", "VOTED"} =>
       rows'[p].proposal_status \in {"VOTING", "VOTED"} /\ rows'[p].window = rows[p].window
  /\ rows[p].proposal_status = "VOTED" => rows'[p].proposal_status = "VOTED"

(* Windows begin and end at points of time. *)
LEMMA WindowTimes ==
  ASSUME NEW window \in Weeks
  PROVE  StartAt(window) \in Nat /\ EndAt(window) \in Nat
  BY WeeksAssumption, WeekLengthAssumption DEF StartAt, EndAt

(* A row that is not moved stays on time. *)
LEMMA UnmovedOnTime ==
  ASSUME BeatTypes, NEW p \in Proposals, OnTime(p), Unmoved(p),
         now' \in Nat, now <= now', applied' = applied
  PROVE  OnTime(p)' /\ Lasts(p)
<1>1. now \in Nat /\ rows[p].window \in Weeks \cup {NULL}
  BY MaxTimeAssumption DEF BeatTypes, TypeInv, TypeOK, Row, Time
<1>2. Submitted(p) => Submitted(p)'
  BY DEF Submitted
<1>3. rows[p].window # NULL =>
        StartAt(rows[p].window) \in Nat /\ EndAt(rows[p].window) \in Nat
  BY <1>1, WindowTimes
<1>4. rows'[p].proposal_status = rows[p].proposal_status /\ rows'[p].window = rows[p].window
  BY DEF Unmoved
<1>5. StartAt(rows[p].window)' = StartAt(rows[p].window) /\ EndAt(rows[p].window)' = EndAt(rows[p].window)
  BY <1>4 DEF StartAt, EndAt
<1>6. Lasts(p)
  BY <1>4 DEF Lasts
<1>7. rows'[p].proposal_status = "VOTING" /\ rows'[p].window # NULL => StartAt(rows[p].window) <= now'
  BY <1>1, <1>3, <1>4 DEF OnTime
<1>8. WeekOver(p, now) => WeekOver(p, now)'
  BY <1>1, <1>3, <1>4, <1>5 DEF WeekOver
<1>9. UsesQueueSlot(rows'[p]) => slots'[p] = rows'[p].window
  BY <1>4 DEF OnTime, Unmoved
<1>10. QED
  BY <1>2, <1>4, <1>5, <1>6, <1>7, <1>8, <1>9 DEF OnTime

(* A tick that does nothing in a step may go on. *)
LEMMA TickKept ==
  ASSUME BeatTypes, NEW S \in SUBSET Proposals,
         NEW b \in Beats, TickSound(b, S), beats'[b] = beats[b],
         now' \in Nat, now <= now',
         \A p \in S : Lasts(p)
  PROVE  TickSound(b, S)'
<1>1. now \in Nat /\ beats[b].at \in Nat
  BY MaxTimeAssumption DEF BeatTypes, TypeInv, TypeOK, BeatJob, Time
<1>2. ASSUME NEW p \in S,
             rows[p].proposal_status \in {"VOTING", "VOTED"}, WeekOver(p, beats[b].at)
      PROVE  rows'[p].proposal_status \in {"VOTING", "VOTED"} /\ WeekOver(p, beats[b].at)'
  BY <1>2 DEF Lasts, WeekOver, EndAt, StartAt
<1>3. (beats[b].at <= now)'
  BY <1>1 DEF TickSound
<1>4. QED
  BY <1>2, <1>3 DEF TickSound, Lasts

(* The submit that is confirmed is the first of its proposal. *)
LEMMA FirstSubmit ==
  ASSUME TypeInv, PaidOnce', NEW p \in Proposals, ConfirmSubmit(p)
  PROVE  ~Submitted(p) /\ Submitted(p)' /\ \A q \in Proposals : Submitted(q) => Submitted(q)'
<1> DEFINE t == Resolve(p, rows[p])
           n == Len(applied) + 1
<1>1. applied' = Append(applied, t) /\ t.action = "TO_SUBMIT" /\ t.proposal = p
  BY ConfirmedFacts
<1>2. applied \in Seq(Transition) /\ t \in Transition
  BY ConfirmedFacts DEF TypeInv, TypeOK
<1> HIDE DEF t
<1>3. /\ n \in DOMAIN applied' /\ applied'[n] = t /\ n \notin DOMAIN applied
      /\ \A i \in DOMAIN applied : i \in DOMAIN applied' /\ applied'[i] = applied[i]
  BY <1>1, <1>2
<1> HIDE DEF n
<1>4. QED
  BY <1>1, <1>3 DEF PaidOnce, Submitted

(* The confirmation of a submit leaves every general proposal on time. *)
LEMMA ConfirmOnTime ==
  ASSUME NEW S \in SUBSET Proposals, CalendarInv(S), PaidOnce',
         NEW p \in Proposals, ConfirmSubmit(p), NEW q \in S
  PROVE  OnTime(q)' /\ Lasts(q)
<1> DEFINE t == Resolve(p, rows[p])
<1>1. /\ t \in Transition /\ t.proposal = p /\ t.action = "TO_SUBMIT" /\ t.window \in Weeks
      /\ rows[p] \in Row /\ rows \in [Proposals -> Row]
      /\ rows' = [rows EXCEPT ![p] = ConfirmedSubmit(rows[p], t, SubmitStatus(t), now)]
      /\ slots' = IF WindowOver(t) THEN slots ELSE SyncQueueSlot(rows', slots, p)
      /\ now' = now
  BY ConfirmedFacts DEF CalendarInv, BeatTypes, TypeInv, TypeOK
<1>2. ~Submitted(p) /\ Submitted(p)' /\ \A r \in Proposals : Submitted(r) => Submitted(r)'
  BY FirstSubmit DEF CalendarInv, BeatTypes
<1>3. OnTime(q) /\ slots \in [Proposals -> Weeks \cup {NULL}] /\ now \in Nat
  BY MaxTimeAssumption DEF CalendarInv, BeatTypes, TypeInv, TypeOK, Time
<1> HIDE DEF t
<1>4. CASE q # p
  <2>1. rows'[q] = rows[q]
    BY <1>1, <1>4
  <2>2. UsesQueueSlot(rows'[q]) => slots'[q] = rows'[q].window
    <3>1. CASE WindowOver(t)
      BY <1>1, <1>3, <2>1, <3>1 DEF OnTime
    <3>2. CASE ~WindowOver(t)
      <4>1. slots' = SyncSlot(rows', slots, p, TRUE)
        BY <1>1, <3>2 DEF SyncQueueSlot
      <4>2. UsesQueueSlot(rows'[q]) => slots[q] = rows'[q].window
        BY <1>3, <2>1 DEF OnTime
      <4>3. ASSUME UsesQueueSlot(rows'[q]), slots[q] = rows'[q].window
            PROVE  SyncSlot(rows', slots, p, TRUE)[q] = slots[q]
        <5>1. TrueOccupancy(rows', slots, q)
          BY <4>3 DEF TrueOccupancy, UsesQueueSlot
        <5>2. QED
          BY <1>4, <5>1 DEF SyncSlot
      <4>4. QED
        BY <4>1, <4>2, <4>3
    <3>3. QED
      BY <3>1, <3>2
  <2>3. WeekOver(q, now) => WeekOver(q, now)'
    BY <1>1, <2>1 DEF WeekOver, EndAt, StartAt
  <2>4. QED
    BY <1>1, <1>2, <1>3, <2>1, <2>2, <2>3 DEF OnTime, Lasts
<1>5. CASE q = p
  <2>1. /\ rows'[p].proposal_status = SubmitStatus(t)
        /\ rows'[p].window = t.window
    BY <1>1, ConfirmedSubmitColumns
  <2>2. rows[p].proposal_status \notin {"QUEUED", "VOTING", "VOTED"}
    BY <1>2, <1>3, <1>5 DEF OnTime
  <2>3. SubmitStatus(t) \in {"EXPIRED", "QUEUED", "VOTING"}
        /\ (SubmitStatus(t) = "VOTING" => StartAt(t.window) <= now)
    BY <1>1, <1>3, WindowTimes DEF SubmitStatus
  <2>4. UsesQueueSlot(rows'[p]) => slots'[p] = rows'[p].window
    <3>1. CASE WindowOver(t)
      BY <2>1, <3>1 DEF UsesQueueSlot, SubmitStatus
    <3>2. CASE ~WindowOver(t)
      BY <1>1, <3>2 DEF SyncQueueSlot, SyncSlot
    <3>3. QED
      BY <3>1, <3>2
  <2>5. StartAt(rows'[p].window) = StartAt(t.window)
    BY <2>1
  <2>6. QED
    BY <1>1, <1>2, <1>5, <2>1, <2>2, <2>3, <2>4, <2>5 DEF OnTime, Lasts
<1>6. QED
  BY <1>4, <1>5

(* So does every step of the requests. *)
LEMMA RequestsOnTime ==
  ASSUME NEW S \in SUBSET Proposals, CalendarInv(S), Requests, NEW q \in S
  PROVE  OnTime(q)' /\ Lasts(q) /\ now' \in Nat /\ now <= now'
<1>1. BeatTypes /\ TypeInv /\ OnTime(q) /\ now \in Nat
  BY MaxTimeAssumption DEF CalendarInv, BeatTypes, TypeInv, TypeOK, Time
<1>2. ASSUME rows'[q] = rows[q], slots' = slots, applied' = applied, now' = now \/ now' = now + 1
      PROVE  OnTime(q)' /\ Lasts(q) /\ now' \in Nat /\ now <= now'
  BY <1>1, <1>2, UnmovedOnTime DEF Unmoved
<1>3. CASE Tick
  BY <1>2, <1>3 DEF Tick, tables
<1>4. CASE \E w \in Web, p \in Proposals, h \in Hashes, window \in Weeks : BeginSubmit(w, p, h, window)
  BY <1>2, <1>4 DEF BeginSubmit, Start, tables
<1>5. CASE \E w \in Web : Crash(w)
  BY <1>2, <1>5 DEF Crash, tables
<1>6. ASSUME NEW w \in Web, CommitSubmit(w)
      PROVE  OnTime(q)' /\ Lasts(q) /\ now' \in Nat /\ now <= now'
  <2> DEFINE t == jobs[w].current
  <2>1. slots' = slots /\ applied' = applied /\ now' = now
    BY <1>6 DEF CommitSubmit
  <2>2. \/ rows'[q] = rows[q]
        \/ q = t.proposal /\ \E advisory \in Advisory : rows'[q] = StagedSubmit(rows[q], t, advisory)
    <3>1. Commit(w) /\ t.action = "TO_SUBMIT"
      BY <1>6 DEF CommitSubmit, Commit
    <3>2. QED
      BY <1>1, <3>1, CommittedRow
  <2>3. CASE rows'[q] = rows[q]
    BY <1>2, <2>1, <2>3
  <2>4. CASE \E advisory \in Advisory : rows'[q] = StagedSubmit(rows[q], t, advisory)
    <3>1. rows[q] \in Row
      BY <1>1 DEF TypeInv, TypeOK
    <3>2. /\ rows'[q].action = "TO_SUBMIT" /\ rows'[q].proposal_status = rows[q].proposal_status
          /\ rows'[q].window = rows[q].window
      BY <2>4, <3>1, StagedSubmitColumns
    <3>3. Unmoved(q)
      BY <3>2 DEF Unmoved, UsesQueueSlot
    <3>4. QED
      BY <1>1, <2>1, <3>3, UnmovedOnTime
  <2>5. QED
    BY <2>2, <2>3, <2>4
<1>7. QED
  BY <1>3, <1>4, <1>5, <1>6 DEF Requests

(* So does what the forms save, of proposals that are no asset's. *)
LEMMA FormsOnTime ==
  ASSUME NEW S \in SUBSET {r \in Proposals : ~IsAsset(r)}, CalendarInv(S), AssetWrite,
         NEW q \in S
  PROVE  OnTime(q)' /\ Lasts(q)
<1>1. /\ BeatTypes /\ OnTime(q) /\ now \in Nat /\ rows \in [Proposals -> Row]
      /\ slots \in [Proposals -> Weeks \cup {NULL}]
  BY MaxTimeAssumption DEF CalendarInv, BeatTypes, TypeInv, TypeOK, Time
<1>2. PICK p \in Proposals, row \in Row, create \in BOOLEAN :
        /\ IsAsset(p)
        /\ rows' = [rows EXCEPT ![p] = row]
        /\ slots' = SyncSlot(rows', slots, p, create)
  BY DEF AssetWrite
<1>3. q # p /\ rows'[q] = rows[q]
  BY <1>1, <1>2
<1>4. ASSUME UsesQueueSlot(rows'[q])
      PROVE  slots'[q] = slots[q]
  <2>1. slots[q] = rows'[q].window
    BY <1>1, <1>3, <1>4 DEF OnTime
  <2>2. TrueOccupancy(rows', slots, q)
    BY <1>4, <2>1 DEF TrueOccupancy, UsesQueueSlot
  <2>3. QED
    BY <1>2, <1>3, <2>2 DEF SyncSlot
<1>5. Unmoved(q)
  BY <1>3, <1>4 DEF Unmoved
<1>6. QED
  BY <1>1, <1>5, UnmovedOnTime DEF AssetWrite

(* A status that is saved for one proposal. *)
LEMMA SavedStatus ==
  ASSUME rows \in [Proposals -> Row], NEW p \in Proposals, NEW status,
         rows' = [rows EXCEPT ![p].proposal_status = status],
         NEW q \in Proposals
  PROVE  /\ q # p => rows'[q] = rows[q]
         /\ q = p => /\ rows'[q].proposal_status = status
                     /\ rows'[q].window = rows[q].window /\ rows'[q].action = rows[q].action
                     /\ rows'[q].hide = rows[q].hide /\ rows'[q].draft = rows[q].draft
<1>1. rows[p] \in Row
  OBVIOUS
<1>2. rows'[p] = [rows[p] EXCEPT !.proposal_status = status]
  OBVIOUS
<1>3. QED
  BY <1>1, <1>2 DEF Row

(* A tick of the beat leaves every general proposal on time: it acts on    *)
(* what it read long ago, but only on votes that are over.                 *)
LEMMA BeatOnTime ==
  ASSUME NEW S \in SUBSET Proposals, CalendarInv(S),
         NEW b \in Beats, Beat(b) \/ CrashBeat(b), NEW q \in S
  PROVE  OnTime(q)' /\ Lasts(q)
<1>1. /\ BeatTypes /\ OnTime(q) /\ TickSound(b, S)
      /\ now \in Nat /\ beats[b] \in BeatJob /\ beats[b].at \in Nat
      /\ rows \in [Proposals -> Row] /\ rows[q] \in Row
      /\ slots \in [Proposals -> Weeks \cup {NULL}]
  BY MaxTimeAssumption DEF CalendarInv, BeatTypes, TypeInv, TypeOK, Time, BeatJob
<1>2. ASSUME rows' = rows, UsesQueueSlot(rows[q]) => slots'[q] = slots[q], applied' = applied, now' = now
      PROVE  OnTime(q)' /\ Lasts(q)
  BY <1>1, <1>2, UnmovedOnTime DEF Unmoved
<1>3. rows[q].window # NULL => StartAt(rows[q].window) \in Nat /\ EndAt(rows[q].window) \in Nat
  BY <1>1, WindowTimes DEF Row
<1>4. CASE StartBeat(b) \/ CrashBeat(b)
  BY <1>2, <1>4 DEF StartBeat, CrashBeat, vars
<1>5. CASE FinishVote(b)
  <2>1. PICK p \in beats[b].due : Write([rows EXCEPT ![p].proposal_status = "VOTED"], slots)
    BY <1>5 DEF FinishVote
  <2>2. p \in Proposals
    BY <1>1 DEF BeatJob
  <2>3. rows' = [rows EXCEPT ![p].proposal_status = "VOTED"] /\ slots' = slots
        /\ applied' = applied /\ now' = now
    BY <2>1 DEF Write
  <2>4. CASE q # p
    <3>1. rows'[q] = rows[q]
      BY <1>1, <2>2, <2>3, <2>4, SavedStatus
    <3>2. Unmoved(q)
      BY <2>3, <3>1 DEF Unmoved
    <3>3. QED
      BY <1>1, <2>3, <3>2, UnmovedOnTime
  <2>5. CASE q = p
    <3>1. rows'[q].proposal_status = "VOTED" /\ rows'[q].window = rows[q].window
      BY <1>1, <2>2, <2>3, <2>5, SavedStatus
    <3>2. rows[q].proposal_status \in {"VOTING", "VOTED"} /\ WeekOver(q, beats[b].at)
      BY <1>1, <2>5 DEF TickSound
    <3>3. WeekOver(q, now)
      BY <1>1, <1>3, <3>2 DEF WeekOver, TickSound
    <3>4. WeekOver(q, now)'
      BY <2>3, <3>1, <3>3 DEF WeekOver, EndAt, StartAt
    <3>5. Submitted(q)'
      BY <1>1, <2>3, <3>2 DEF OnTime, Submitted
    <3>6. ~UsesQueueSlot(rows'[q])
      BY <3>1 DEF UsesQueueSlot
    <3>7. QED
      BY <3>1, <3>4, <3>5, <3>6 DEF OnTime, Lasts
  <2>6. QED
    BY <2>4, <2>5
<1>6. CASE ReleaseSlot(b)
  <2>1. rows' = rows /\ slots' = [slots EXCEPT ![beats[b].ended] = NULL]
        /\ applied' = applied /\ now' = now /\ beats[b].pc = "releasing"
    BY <1>6 DEF ReleaseSlot, Write
  <2>2. UsesQueueSlot(rows[q]) => q # beats[b].ended
    BY <1>1, <2>1 DEF TickSound, UsesQueueSlot
  <2>3. UsesQueueSlot(rows[q]) => slots'[q] = slots[q]
    BY <1>1, <2>1, <2>2
  <2>4. QED
    BY <1>2, <2>1, <2>3
<1>7. CASE ExpireDiscussions(b)
  <2>1. /\ rows'[q] = IF Expires(q, beats[b].at) THEN [rows[q] EXCEPT !.proposal_status = "EXPIRED"]
                      ELSE rows[q]
        /\ slots' = slots /\ applied' = applied /\ now' = now
    BY <1>7 DEF ExpireDiscussions, Write
  <2>2. CASE Expires(q, beats[b].at)
    <3>1. rows'[q].proposal_status = "EXPIRED" /\ rows[q].proposal_status = "DISCUSSION"
      BY <1>1, <2>1, <2>2 DEF Expires, Row
    <3>2. QED
      BY <3>1 DEF OnTime, Lasts, UsesQueueSlot
  <2>3. CASE ~Expires(q, beats[b].at)
    <3>1. Unmoved(q)
      BY <2>1, <2>3 DEF Unmoved
    <3>2. QED
      BY <1>1, <2>1, <3>1, UnmovedOnTime
  <2>4. QED
    BY <2>2, <2>3
<1>8. CASE StartVote(b)
  <2>1. CASE UNCHANGED vars
    BY <1>2, <2>1 DEF vars
  <2>2. CASE \E p \in Proposals :
               Due(p, beats[b].at) /\ Write([rows EXCEPT ![p].proposal_status = "VOTING"], slots)
    <3>1. PICK p \in Proposals :
               Due(p, beats[b].at) /\ Write([rows EXCEPT ![p].proposal_status = "VOTING"], slots)
      BY <2>2
    <3>2. rows' = [rows EXCEPT ![p].proposal_status = "VOTING"] /\ slots' = slots
          /\ applied' = applied /\ now' = now
      BY <3>1 DEF Write
    <3>3. CASE q # p
      <4>1. rows'[q] = rows[q]
        BY <1>1, <3>2, <3>3, SavedStatus
      <4>2. Unmoved(q)
        BY <3>2, <4>1 DEF Unmoved
      <4>3. QED
        BY <1>1, <3>2, <4>2, UnmovedOnTime
    <3>4. CASE q = p
      <4>1. rows'[q].proposal_status = "VOTING" /\ rows'[q].window = rows[q].window
        BY <1>1, <3>2, <3>4, SavedStatus
      <4>2. rows[q].proposal_status = "QUEUED" /\ rows[q].window # NULL /\ slots[q] = rows[q].window
            /\ StartAt(rows[q].window) <= beats[b].at
        BY <3>1, <3>4 DEF Due
      <4>3. StartAt(rows'[q].window) <= now'
        BY <1>1, <1>3, <3>2, <4>1, <4>2 DEF TickSound
      <4>4. Submitted(q)'
        BY <1>1, <3>2, <4>2 DEF OnTime, Submitted
      <4>5. QED
        BY <3>2, <4>1, <4>2, <4>3, <4>4 DEF OnTime, Lasts
    <3>5. QED
      BY <3>3, <3>4
  <2>3. QED
    BY <1>8, <2>1, <2>2 DEF StartVote
<1>9. QED
  BY <1>4, <1>5, <1>6, <1>7, <1>8 DEF Beat

(* What the tick itself goes on with is true.                              *)
LEMMA BeatSound ==
  ASSUME NEW S \in SUBSET Proposals, CalendarInv(S), NEW b \in Beats, Beat(b) \/ CrashBeat(b)
  PROVE  TickSound(b, S)'
<1>1. /\ BeatTypes /\ TickSound(b, S)
      /\ now \in Nat /\ beats \in [Beats -> BeatJob] /\ beats[b] \in BeatJob /\ beats[b].at \in Nat
      /\ rows \in [Proposals -> Row]
  BY MaxTimeAssumption DEF CalendarInv, BeatTypes, TypeInv, TypeOK, Time, BeatJob
<1>2. \A p \in S : Lasts(p)
  BY BeatOnTime
<1>3. now' = now
  BY DEF Beat, CrashBeat, StartBeat, FinishVote, ReleaseSlot, ExpireDiscussions, StartVote, Write, vars
<1>4. \A due : AfterVotes(due) # "releasing"
  BY DEF AfterVotes
<1>5. ASSUME NEW job, beats'[b] = job, job.at = beats[b].at, job.due \subseteq beats[b].due,
             \A p \in S : p = job.ended /\ job.pc = "releasing" =>
               rows'[p].proposal_status = "VOTED"
      PROVE  TickSound(b, S)'
  <2>1. ASSUME NEW p \in S, p \in job.due
        PROVE  rows'[p].proposal_status \in {"VOTING", "VOTED"} /\ WeekOver(p, beats[b].at)'
    <3>1. rows[p].proposal_status \in {"VOTING", "VOTED"} /\ WeekOver(p, beats[b].at)
      BY <1>1, <1>5, <2>1 DEF TickSound
    <3>2. beats'[b].at = beats[b].at
      BY <1>5
    <3>3. QED
      BY <1>2, <2>1, <3>1, <3>2 DEF Lasts, WeekOver, EndAt, StartAt
  <2>2. QED
    BY <1>1, <1>3, <1>5, <2>1 DEF TickSound
<1>6. CASE StartBeat(b)
  <2> DEFINE due == {p \in Proposals : VoteOver(p, now)}
  <2>1. beats'[b] = [pc |-> AfterVotes(due), at |-> now, due |-> due, ended |-> NULL] /\ rows' = rows
    BY <1>1, <1>6 DEF StartBeat, vars
  <2>2. beats'[b].at = now /\ beats'[b].due = due /\ beats'[b].pc # "releasing"
    BY <1>4, <2>1
  <2>3. ASSUME NEW p \in Proposals, p \in due
        PROVE  rows'[p].proposal_status = "VOTING" /\ WeekOver(p, beats[b].at)'
    BY <2>1, <2>2, <2>3 DEF VoteOver, WeekOver, EndAt, StartAt
  <2> HIDE DEF due
  <2>4. QED
    BY <1>1, <1>3, <2>2, <2>3 DEF TickSound
<1>7. CASE FinishVote(b)
  <2>1. PICK p \in beats[b].due :
          /\ Write([rows EXCEPT ![p].proposal_status = "VOTED"], slots)
          /\ beats' = [beats EXCEPT ![b].pc = "releasing", ![b].due = @ \ {p}, ![b].ended = p]
    BY <1>7 DEF FinishVote
  <2> DEFINE job == [beats[b] EXCEPT !.pc = "releasing", !.due = @ \ {p}, !.ended = p]
  <2>2. beats'[b] = job
    BY <1>1, <2>1
  <2>3. job.at = beats[b].at /\ job.due \subseteq beats[b].due /\ job.ended = p
    BY <1>1 DEF BeatJob
  <2>4. p \in Proposals /\ rows' = [rows EXCEPT ![p].proposal_status = "VOTED"]
    BY <1>1, <2>1 DEF BeatJob, Write
  <2>5. rows'[p].proposal_status = "VOTED"
    BY <1>1, <2>4, SavedStatus
  <2> HIDE DEF job
  <2>6. QED
    BY <1>5, <2>2, <2>3, <2>5
<1>8. CASE ReleaseSlot(b)
  <2> DEFINE job == [beats[b] EXCEPT !.pc = AfterVotes(beats[b].due), !.ended = NULL]
  <2>1. beats'[b] = job
    BY <1>1, <1>8 DEF ReleaseSlot
  <2>2. job.at = beats[b].at /\ job.due \subseteq beats[b].due /\ job.pc # "releasing"
    BY <1>1, <1>4 DEF BeatJob
  <2> HIDE DEF job
  <2>3. QED
    BY <1>5, <2>1, <2>2
<1>9. CASE ExpireDiscussions(b)
  <2> DEFINE job == [beats[b] EXCEPT !.pc = "starting"]
  <2>1. beats'[b] = job
    BY <1>1, <1>9 DEF ExpireDiscussions
  <2>2. job.at = beats[b].at /\ job.due \subseteq beats[b].due /\ job.pc # "releasing"
    BY <1>1 DEF BeatJob
  <2> HIDE DEF job
  <2>3. QED
    BY <1>5, <2>1, <2>2
<1>10. CASE StartVote(b) \/ CrashBeat(b)
  <2>1. beats'[b] = IdleBeat
    BY <1>1, <1>10 DEF StartVote, CrashBeat
  <2>2. IdleBeat.at = 0 /\ IdleBeat.due = {} /\ IdleBeat.pc # "releasing"
    BY DEF IdleBeat
  <2>3. QED
    BY <1>1, <1>3, <2>1, <2>2 DEF TickSound
<1>11. QED
  BY <1>6, <1>7, <1>8, <1>9, <1>10 DEF Beat

(* The calendar is in order at first. *)
LEMMA CalendarInit ==
  ASSUME ScheduleInit, NEW S \in SUBSET Proposals
  PROVE  CalendarInv(S)
<1>1. BeatTypes /\ Init
  BY BeatTypesInit DEF ScheduleInit
<1>2. AbsentRow.proposal_status = "DISCUSSION"
  BY DEF AbsentRow, Draft
<1>3. \A p \in Proposals : rows[p].proposal_status = "DISCUSSION"
  BY <1>1, <1>2, OpeningRows, GenesisColumns
<1>4. \A p \in Proposals : OnTime(p)
  BY <1>3 DEF OnTime, UsesQueueSlot
<1>5. \A b \in Beats : TickSound(b, S)
  <2>1. IdleBeat.at = 0 /\ IdleBeat.due = {} /\ IdleBeat.pc # "releasing"
    BY DEF IdleBeat
  <2>2. now = 0 /\ \A b \in Beats : beats[b] = IdleBeat
    BY <1>1 DEF ScheduleInit, Init
  <2>3. QED
    BY <2>1, <2>2 DEF TickSound
<1>6. QED
  BY <1>1, <1>4, <1>5 DEF CalendarInv

(* A step of the calendar keeps it in order, as long as no proposal has    *)
(* two paid submits.                                                       *)
LEMMA CalendarStep ==
  ASSUME NEW S \in SUBSET Proposals, CalendarInv(S), PaidOnce', [ScheduleNext]_scheduleVars
  PROVE  CalendarInv(S)'
<1>1. BeatTypes' /\ BeatTypes
  BY BeatTypesStep DEF CalendarInv
<1>2. now \in Nat /\ beats \in [Beats -> BeatJob]
  BY <1>1, MaxTimeAssumption DEF BeatTypes, TypeInv, TypeOK, Time
<1>3. ASSUME \A p \in S : OnTime(p)' /\ Lasts(p),
             now' = now \/ now' = now + 1,
             \A b \in Beats : beats'[b] = beats[b] \/ TickSound(b, S)'
      PROVE  CalendarInv(S)'
  <2>1. now' \in Nat /\ now <= now'
    BY <1>2, <1>3
  <2>2. \A b \in Beats : TickSound(b, S)'
    BY <1>1, <1>3, <2>1, TickKept DEF CalendarInv
  <2>3. QED
    BY <1>1, <1>3, <2>2 DEF CalendarInv
<1>4. CASE UNCHANGED vars /\ UNCHANGED beats
  <2>1. \A p \in S : OnTime(p)' /\ Lasts(p)
    BY <1>1, <1>2, <1>4, UnmovedOnTime DEF vars, Unmoved, CalendarInv
  <2>2. QED
    BY <1>3, <1>4, <2>1 DEF vars
<1>5. CASE Requests
  <2>1. now' = now \/ now' = now + 1
    BY <1>5 DEF Requests, Tick, BeginSubmit, Start, CommitSubmit, Crash
  <2>2. beats' = beats
    BY <1>5 DEF Requests
  <2>3. QED
    BY <1>3, <1>5, <2>1, <2>2, RequestsOnTime
<1>6. ASSUME NEW p \in Proposals, ConfirmSubmit(p)
      PROVE  CalendarInv(S)'
  <2>1. now' = now /\ beats' = beats
    BY <1>6 DEF ConfirmSubmit
  <2>2. QED
    BY <1>3, <1>6, <2>1, ConfirmOnTime
<1>7. ASSUME NEW b \in Beats, Beat(b) \/ CrashBeat(b)
      PROVE  CalendarInv(S)'
  <2>1. now' = now
    BY <1>7 DEF Beat, CrashBeat, StartBeat, FinishVote, ReleaseSlot, ExpireDiscussions, StartVote, Write, vars
  <2>2. \A c \in Beats \ {b} : beats'[c] = beats[c]
    BY <1>2, <1>7 DEF Beat, CrashBeat, StartBeat, FinishVote, ReleaseSlot, ExpireDiscussions, StartVote
  <2>3. QED
    BY <1>3, <1>7, <2>1, <2>2, BeatOnTime, BeatSound
<1>8. QED
  BY <1>4, <1>5, <1>6, <1>7, ScheduleSteps

(* So does a form, for the proposals that are no asset's. *)
LEMMA CalendarFormStep ==
  ASSUME NEW S \in SUBSET {r \in Proposals : ~IsAsset(r)}, CalendarInv(S), AssetWrite
  PROVE  CalendarInv(S)'
<1>1. BeatTypes' /\ BeatTypes
  BY AssetWriteType DEF CalendarInv
<1>2. now' \in Nat /\ now <= now' /\ beats' = beats
  BY <1>1, MaxTimeAssumption DEF AssetWrite, BeatTypes, TypeInv, TypeOK, Time
<1>3. \A p \in S : OnTime(p)' /\ Lasts(p)
  BY FormsOnTime
<1>4. \A b \in Beats : TickSound(b, S)'
  BY <1>1, <1>2, <1>3, TickKept DEF CalendarInv
<1>5. QED
  BY <1>1, <1>3, <1>4 DEF CalendarInv

GeneralProposals == {p \in Proposals : ~IsAsset(p)}

(* General proposals are on time. *)
LEMMA GeneralOnTime ==
  ASSUME AssetFormsOnly
  PROVE  AdminSpec /\ []PaidOnce => [](FormTypes /\ CalendarInv(GeneralProposals))
<1>1. AdminInit => FormTypes /\ CalendarInv(GeneralProposals)
  <2>1. IdleForm \in Form /\ IdleForm.pc = "idle"
    BY DEF IdleForm, Form
  <2>2. AdminInit => FormTypes
    BY <2>1 DEF AdminInit, FormTypes, FormSound
  <2>3. GeneralProposals \in SUBSET Proposals
    BY DEF GeneralProposals
  <2>4. QED
    BY <2>2, <2>3, CalendarInit DEF AdminInit
<1>2. ASSUME FormTypes, CalendarInv(GeneralProposals), PaidOnce', [AdminNext]_adminVars
      PROVE  FormTypes' /\ CalendarInv(GeneralProposals)'
  <2>1. GeneralProposals \in SUBSET Proposals /\ GeneralProposals \in SUBSET {r \in Proposals : ~IsAsset(r)}
    BY DEF GeneralProposals
  <2>2. FormTypes' /\ ([ScheduleNext]_scheduleVars \/ AssetWrite)
    BY <1>2, FormWrites DEF CalendarInv
  <2>3. QED
    BY <1>2, <2>1, <2>2, CalendarStep, CalendarFormStep
<1>3. QED
  BY <1>1, <1>2, PTL DEF AdminSpec

(* A week that a client paid for is voted on in that week: however stale   *)
(* the rows that a tick of the beat read, overlapping other ticks or cut   *)
(* short, it neither opens a vote early nor ends it early.                 *)
THEOREM VotedInPaidWeek ==
  ASSUME AssetFormsOnly
  PROVE  AdminSpec /\ []PaidOnce => []VotesKeepTheirWeek
<1>1. CalendarInv(GeneralProposals) => VotesKeepTheirWeek
  BY DEF CalendarInv, GeneralProposals, BeatTypes, TypeInv, TypeOK, OnTime, WeekOver, VotesKeepTheirWeek
<1>2. QED
  BY <1>1, GeneralOnTime, PTL

(* No booking, release or clean-up of stale slots takes the slot of a      *)
(* proposal that a client paid to queue before its vote has ended.         *)
THEOREM PaidSlotHeld ==
  ASSUME AssetFormsOnly
  PROVE  AdminSpec /\ []PaidOnce => []PaidBookingHoldsSlot
<1>1. CalendarInv(GeneralProposals) => PaidBookingHoldsSlot
  BY DEF CalendarInv, GeneralProposals, BeatTypes, TypeInv, TypeOK, OnTime, PaidBookingHoldsSlot
<1>2. QED
  BY <1>1, GeneralOnTime, PTL

-----------------------------------------------------------------------------
(* The queue next to the beat.                                             *)

(* No step of the calendar gives two proposals the same week. *)
LEMMA CalendarSlots ==
  ASSUME CalendarInv(Proposals), SlotsUnique, [ScheduleNext]_scheduleVars
  PROVE  SlotsUnique'
<1>1. rows \in [Proposals -> Row] /\ slots \in [Proposals -> Weeks \cup {NULL}] /\ SlotsFollow /\ TypeInv
  BY DEF CalendarInv, BeatTypes, TypeInv, TypeOK, OnTime, SlotsFollow
<1>2. ASSUME \A p \in Proposals : slots'[p] \in {slots[p], NULL}
      PROVE  SlotsUnique'
  BY <1>2 DEF SlotsUnique
<1>3. CASE slots' = slots
  BY <1>2, <1>3
<1>4. CASE Requests
  BY <1>3, <1>4 DEF Requests, Tick, BeginSubmit, Start, CommitSubmit, Crash, tables
<1>5. ASSUME NEW p \in Proposals, ConfirmSubmit(p)
      PROVE  SlotsUnique'
  <2> DEFINE t == Resolve(p, rows[p])
  <2>1. /\ t.proposal = p /\ t.action = "TO_SUBMIT" /\ t.window \in Weeks /\ rows[p] \in Row
        /\ rows' = [rows EXCEPT ![p] = ConfirmedSubmit(rows[p], t, SubmitStatus(t), now)]
        /\ slots' = IF WindowOver(t) THEN slots ELSE SyncQueueSlot(rows', slots, p)
    BY <1>1, <1>5, ConfirmedFacts
  <2>2. ~MustWait(t)
    BY <1>5 DEF ConfirmSubmit
  <2> HIDE DEF t
  <2>3. CASE ~WindowOver(t)
    <3>1. ~SlotConflict(rows, slots, t.window, p)
      BY <2>1, <2>2, <2>3 DEF MustWait
    <3>2. rows'[p].window = t.window /\ \A q \in Proposals \ {p} : rows'[q] = rows[q]
      BY <1>1, <2>1, ConfirmedSubmitColumns
    <3>3. slots' = SyncQueueSlot(rows', slots, p)
      BY <2>1, <2>3
    <3>4. \A q, r \in Proposals : q # r /\ slots'[q] # NULL => slots'[q] # slots'[r]
      <4>1. rows'[p].window \in Weeks \cup {NULL} /\ ~SlotConflict(rows, slots, rows'[p].window, p)
        BY <2>1, <3>1, <3>2
      <4>2. SlotsFollow /\ SlotsUnique /\ slots \in [Proposals -> Weeks \cup {NULL}]
        BY <1>1
      <4>3. \A q, r \in Proposals : q # r /\ SyncQueueSlot(rows', slots, p)[q] # NULL =>
              SyncQueueSlot(rows', slots, p)[q] # SyncQueueSlot(rows', slots, p)[r]
        BY <3>2, <4>1, <4>2, BookedSlot
      <4>4. QED
        BY <3>3, <4>3
    <3>5. QED
      BY <3>4 DEF SlotsUnique
  <2>4. QED
    BY <1>3, <2>1, <2>3
<1>6. ASSUME NEW b \in Beats, Beat(b) \/ CrashBeat(b)
      PROVE  SlotsUnique'
  <2>1. CASE ReleaseSlot(b)
    <3>1. slots' = [slots EXCEPT ![beats[b].ended] = NULL]
      BY <2>1 DEF ReleaseSlot, Write
    <3>2. QED
      BY <1>1, <1>2, <3>1
  <2>2. CASE ~ReleaseSlot(b)
    BY <1>3, <1>6, <2>2 DEF Beat, CrashBeat, StartBeat, FinishVote, ExpireDiscussions, StartVote, Write, vars
  <2>3. QED
    BY <2>1, <2>2
<1>7. QED
  BY <1>3, <1>4, <1>5, <1>6, ScheduleSteps DEF vars

(* The beat releases the weeks of votes that have ended, on rows it read   *)
(* before, while requests book weeks: no week is booked twice, as long as  *)
(* no second submit of a proposal is paid for.                             *)
THEOREM WeeksReleasedInTime == ScheduleSpec /\ []PaidOnce => []NoDoubleBooking
<1> DEFINE Inv == CalendarInv(Proposals) /\ SlotsUnique
<1>1. ScheduleInit => Inv
  BY CalendarInit DEF ScheduleInit, Init, SlotsUnique
<1>2. Inv /\ PaidOnce' /\ [ScheduleNext]_scheduleVars => Inv'
  BY CalendarStep, CalendarSlots
<1>3. Inv => NoDoubleBooking
  BY DEF CalendarInv, BeatTypes, TypeInv, TypeOK, OnTime, UsesQueueSlot, SlotsUnique, NoDoubleBooking
<1>4. QED
  BY <1>1, <1>2, <1>3, PTL DEF ScheduleSpec

-----------------------------------------------------------------------------
(* The assets next to the beat and the forms.                              *)

Shown(row) == ~row.draft /\ ~row.hide

(* What blocks an asset is what counts as active, for all rows are shown.  *)
CalendarAssets == BeatTypes /\ (\A p \in existing : Shown(rows[p])) /\ AssetsApart

(* So is every row a form has read. *)
FormsShown ==
  \A m \in Managers : forms[m].pc # "idle" => forms[m].proposal \in existing /\ Shown(forms[m].row)

TimelyAssets == CalendarAssets /\ FormTypes /\ FormsShown

(* A step of the calendar other than a confirmation shows and hides no row *)
(* and makes none active.                                                  *)
LEMMA NothingNewActive ==
  ASSUME BeatTypes, [ScheduleNext]_scheduleVars, ~\E p \in Proposals : ConfirmSubmit(p)
  PROVE  /\ existing' = existing
         /\ \A q \in Proposals : /\ Shown(rows'[q]) = Shown(rows[q])
                                 /\ ActiveRow(rows'[q]) => ActiveRow(rows[q])
<1>1. TypeInv /\ rows \in [Proposals -> Row] /\ beats \in [Beats -> BeatJob]
  BY DEF BeatTypes, TypeInv, TypeOK
<1>2. CASE existing' = existing /\ rows' = rows
  BY <1>2
<1>3. CASE Requests
  <2>1. CASE \E w \in Web : CommitSubmit(w)
    <3>1. PICK w \in Web : CommitSubmit(w)
      BY <2>1
    <3> DEFINE t == jobs[w].current
    <3>2. existing' = existing /\ Commit(w) /\ t.action = "TO_SUBMIT"
      BY <3>1 DEF CommitSubmit, Commit
    <3>3. \A q \in Proposals :
            \/ rows'[q] = rows[q]
            \/ q = t.proposal /\ \E advisory \in Advisory : rows'[q] = StagedSubmit(rows[q], t, advisory)
      BY <1>1, <3>2, CommittedRow
    <3> HIDE DEF t
    <3>4. QED
      BY <1>1, <3>2, <3>3, StagedSubmitColumns DEF ActiveRow, Shown
  <2>2. CASE ~\E w \in Web : CommitSubmit(w)
    BY <1>2, <1>3, <2>2 DEF Requests, Tick, BeginSubmit, Start, Crash, tables
  <2>3. QED
    BY <2>1, <2>2
<1>4. ASSUME NEW p \in Proposals, NEW status,
             Write([rows EXCEPT ![p].proposal_status = status], slots),
             Booked(status) => Booked(rows[p].proposal_status)
      PROVE  /\ existing' = existing
             /\ \A q \in Proposals : /\ Shown(rows'[q]) = Shown(rows[q])
                                     /\ ActiveRow(rows'[q]) => ActiveRow(rows[q])
  <2>1. rows' = [rows EXCEPT ![p].proposal_status = status] /\ existing' = existing
    BY <1>4 DEF Write
  <2>2. QED
    BY <1>1, <1>4, <2>1, SavedStatus DEF ActiveRow, Shown
<1>5. ASSUME NEW b \in Beats, Beat(b) \/ CrashBeat(b)
      PROVE  /\ existing' = existing
             /\ \A q \in Proposals : /\ Shown(rows'[q]) = Shown(rows[q])
                                     /\ ActiveRow(rows'[q]) => ActiveRow(rows[q])
  <2>1. CASE StartBeat(b) \/ ReleaseSlot(b) \/ CrashBeat(b)
    BY <1>2, <2>1 DEF StartBeat, ReleaseSlot, CrashBeat, Write, vars
  <2>2. CASE FinishVote(b)
    <3>1. PICK p \in beats[b].due : Write([rows EXCEPT ![p].proposal_status = "VOTED"], slots)
      BY <2>2 DEF FinishVote
    <3>2. p \in Proposals
      BY <1>1 DEF BeatJob
    <3>3. ~Booked("VOTED")
      BY DEF Booked
    <3>4. QED
      BY <1>4, <3>1, <3>2, <3>3
  <2>3. CASE ExpireDiscussions(b)
    <3>1. existing' = existing
          /\ \A q \in Proposals :
               rows'[q] = IF Expires(q, beats[b].at) THEN [rows[q] EXCEPT !.proposal_status = "EXPIRED"]
                          ELSE rows[q]
      BY <2>3 DEF ExpireDiscussions, Write
    <3>2. QED
      BY <1>1, <3>1 DEF ActiveRow, Shown, Booked, Row
  <2>4. CASE StartVote(b)
    <3>1. CASE UNCHANGED vars
      BY <1>2, <3>1 DEF vars
    <3>2. CASE \E p \in Proposals :
                 Due(p, beats[b].at) /\ Write([rows EXCEPT ![p].proposal_status = "VOTING"], slots)
      <4>1. PICK p \in Proposals :
                 Due(p, beats[b].at) /\ Write([rows EXCEPT ![p].proposal_status = "VOTING"], slots)
        BY <3>2
      <4>2. Booked(rows[p].proposal_status)
        BY <4>1 DEF Due, Booked
      <4>3. QED
        BY <1>4, <4>1, <4>2
    <3>3. QED
      BY <2>4, <3>1, <3>2 DEF StartVote
  <2>5. QED
    BY <1>5, <2>1, <2>2, <2>3, <2>4 DEF Beat
<1>6. QED
  BY <1>2, <1>3, <1>5, ScheduleSteps DEF vars

(* The assets stay apart. *)
LEMMA CalendarAssetsStep ==
  ASSUME CalendarAssets, [ScheduleNext]_scheduleVars
  PROVE  CalendarAssets'
<1>1. BeatTypes' /\ BeatTypes /\ TypeInv /\ existing \subseteq Proposals /\ rows \in [Proposals -> Row]
  BY BeatTypesStep DEF CalendarAssets, BeatTypes, TypeInv, TypeOK
<1>2. CASE ~\E p \in Proposals : ConfirmSubmit(p)
  <2>1. /\ existing' = existing
        /\ \A q \in Proposals : /\ Shown(rows'[q]) = Shown(rows[q])
                                /\ ActiveRow(rows'[q]) => ActiveRow(rows[q])
    BY <1>1, <1>2, NothingNewActive
  <2>2. AssetsApart'
    BY <1>1, <2>1, AssetsKept DEF CalendarAssets
  <2>3. QED
    BY <1>1, <2>1, <2>2 DEF CalendarAssets
<1>3. ASSUME NEW p \in Proposals, ConfirmSubmit(p)
      PROVE  CalendarAssets'
  <2> DEFINE t == Resolve(p, rows[p])
  <2>1. /\ t.proposal = p /\ t.action = "TO_SUBMIT" /\ rows[p] \in Row /\ existing' = existing
        /\ rows' = [rows EXCEPT ![p] = ConfirmedSubmit(rows[p], t, SubmitStatus(t), now)]
    BY <1>1, <1>3, ConfirmedFacts
  <2>2. ~MustWait(t)
    BY <1>3 DEF ConfirmSubmit
  <2> HIDE DEF t
  <2>3. /\ rows'[p].proposal_status = SubmitStatus(t)
        /\ Shown(rows'[p]) = Shown(rows[p])
        /\ \A q \in Proposals \ {p} : rows'[q] = rows[q]
    BY <1>1, <2>1, ConfirmedSubmitColumns DEF Shown
  <2>4. \A q \in existing' : Shown(rows'[q])
    BY <1>1, <2>1, <2>3 DEF CalendarAssets
  <2>5. CASE WindowOver(t)
    <3>1. \A q \in existing' : ActiveRow(rows'[q]) => q \in existing /\ ActiveRow(rows[q])
      BY <1>1, <2>1, <2>3, <2>5 DEF ActiveRow, Booked, SubmitStatus, CalendarAssets, Shown
    <3>2. AssetsApart'
      BY <3>1, AssetsKept DEF CalendarAssets
    <3>3. QED
      BY <1>1, <2>4, <3>2 DEF CalendarAssets
  <2>6. CASE ~WindowOver(t)
    <3>1. ~AssetConflict(rows, existing, AssetOf, p)
      BY <2>1, <2>2, <2>6 DEF MustWait
    <3>2. ASSUME NEW q \in existing \ {p}, ActiveRow(rows[q])
          PROVE  AssetOf[p] = NULL \/ AssetOf[p] # AssetOf[q]
      BY <3>1, <3>2 DEF AssetConflict, CalendarAssets, ActiveRow, Shown, Booked
    <3>3. AssetsApart'
      BY <1>1, <2>1, <2>3, <3>2 DEF CalendarAssets, AssetsApart
    <3>4. QED
      BY <1>1, <2>4, <3>3 DEF CalendarAssets
  <2>7. QED
    BY <2>5, <2>6
<1>4. QED
  BY <1>2, <1>3

(* The calendar adds and deletes no proposal. *)
LEMMA CalendarKeeps ==
  ASSUME BeatTypes, [ScheduleNext]_scheduleVars
  PROVE  existing' = existing
<1>1. CASE \E p \in Proposals : ConfirmSubmit(p)
  BY <1>1 DEF ConfirmSubmit
<1>2. CASE ~\E p \in Proposals : ConfirmSubmit(p)
  BY <1>2, NothingNewActive
<1>3. QED
  BY <1>1, <1>2

(* A row that is saved keeps the assets apart if it was active before, or  *)
(* is active and nothing active is about its asset.                        *)
LEMMA SavedRowApart ==
  ASSUME CalendarAssets, NEW p \in Proposals, NEW row \in Row, Shown(row),
         rows' = [rows EXCEPT ![p] = row],
         existing' \in {existing, existing \cup {p}},
         Booked(row.proposal_status) =>
           \/ p \in existing /\ ActiveRow(rows[p])
           \/ ~AssetConflict(rows, existing, AssetOf, p)
  PROVE  AssetsApart' /\ \A q \in existing' : Shown(rows'[q])
<1>1. rows \in [Proposals -> Row] /\ existing \subseteq Proposals /\ AssetsApart
  BY DEF CalendarAssets, BeatTypes, TypeInv, TypeOK
<1>2. rows'[p] = row /\ \A q \in Proposals \ {p} : rows'[q] = rows[q]
  BY <1>1
<1>3. \A q \in existing' : Shown(rows'[q])
  BY <1>1, <1>2 DEF CalendarAssets
<1>4. CASE ~Booked(row.proposal_status) \/ (p \in existing /\ ActiveRow(rows[p]))
  <2>1. \A q \in existing' : ActiveRow(rows'[q]) => q \in existing /\ ActiveRow(rows[q])
    BY <1>1, <1>2, <1>4 DEF ActiveRow
  <2>2. QED
    BY <1>1, <1>3, <2>1, AssetsKept
<1>5. CASE ~AssetConflict(rows, existing, AssetOf, p)
  <2>1. ASSUME NEW q \in existing \ {p}, ActiveRow(rows[q])
        PROVE  AssetOf[p] = NULL \/ AssetOf[p] # AssetOf[q]
    BY <1>5, <2>1 DEF AssetConflict, CalendarAssets, ActiveRow, Shown, Booked
  <2>2. AssetsApart'
    BY <1>1, <1>2, <2>1 DEF AssetsApart
  <2>3. QED
    BY <1>3, <2>2
<1>6. QED
  BY <1>3, <1>4, <1>5

(* What a form saves of a row that is shown is shown. *)
LEMMA SavedRowShown ==
  ASSUME FormTypes, FormsShown, NEW m \in Managers, forms[m].pc # "idle"
  PROVE  /\ SavedRow(m) \in Row /\ Shown(SavedRow(m))
         /\ SavedRow(m).proposal_status = TargetStatus(forms[m].row, forms[m].edit)
         /\ forms[m].proposal \in Proposals /\ forms[m].proposal \in existing
         /\ IsAsset(forms[m].proposal)
<1> DEFINE status == TargetStatus(forms[m].row, forms[m].edit)
           window == TargetWindow(forms[m].row, forms[m].edit)
           row    == forms[m].row
           saved  == [row EXCEPT !.proposal_status = status, !.window = window]
<1>1. row \in Row /\ Shown(row) /\ forms[m].proposal \in existing
  BY DEF FormTypes, FormSound, FormsShown
<1>2. SavedRow(m) = saved
  BY DEF SavedRow
<1> HIDE DEF status, window, row
<1>3. saved.draft = row.draft /\ saved.hide = row.hide /\ saved.proposal_status = status
  BY <1>1 DEF Row
<1> HIDE DEF saved
<1>4. Shown(SavedRow(m)) /\ SavedRow(m).proposal_status = status
  BY <1>1, <1>2, <1>3 DEF Shown
<1>5. QED
  BY <1>1, <1>4, SavedRowType DEF status

(* Whether a form saves under the lock or later, the assets stay apart: in *)
(* the one case it has just looked, in the other the proposal was in the   *)
(* queue, or is not now.                                                   *)
LEMMA FormApart ==
  ASSUME TimelyAssets, NEW m \in Managers, CommitEdit(m) \/ SaveEdit(m), ~Requeues(m)
  PROVE  AssetsApart' /\ (\A q \in existing' : Shown(rows'[q])) /\ existing' = existing
<1> DEFINE p == forms[m].proposal
           row == SavedRow(m)
<1>1. /\ CalendarAssets /\ FormTypes /\ FormsShown /\ rows \in [Proposals -> Row]
      /\ \A n \in Managers : forms[n] \in Form
      /\ IdleForm.pc = "idle" /\ forms \in [Managers -> Form]
  BY DEF TimelyAssets, FormTypes, CalendarAssets, BeatTypes, TypeInv, TypeOK, IdleForm
<1>2. /\ forms[m].pc # "idle"
      /\ \/ forms' = [forms EXCEPT ![m].pc = "saving"] /\ UNCHANGED vars
         \/ forms' = [forms EXCEPT ![m] = IdleForm] /\ UNCHANGED vars
         \/ forms' = [forms EXCEPT ![m] = IdleForm] /\ Save(m)
  BY FormSteps
<1>3. CASE UNCHANGED vars
  BY <1>1, <1>3 DEF vars, tables, CalendarAssets, AssetsApart
<1>4. CASE ~UNCHANGED vars
  <2>1. /\ row \in Row /\ Shown(row) /\ p \in Proposals /\ p \in existing /\ IsAsset(p)
        /\ row.proposal_status = TargetStatus(forms[m].row, forms[m].edit)
    BY <1>1, <1>2, SavedRowShown
  <2>2. forms' = [forms EXCEPT ![m] = IdleForm] /\ Save(m)
    BY <1>2, <1>4
  <2>3. rows' = [rows EXCEPT ![p] = row] /\ existing' = existing
    BY <1>4, <2>2, SaveWrites DEF Write
  <2>4. rows'[p] = row
    BY <1>1, <2>1, <2>3
  <2>5. CASE SaveEdit(m)
    <3>1. forms[m].pc = "saving" /\ forms'[m] = IdleForm
      BY <1>1, <2>2, <2>5 DEF SaveEdit
    <3>2. Booked(row.proposal_status) => Booked(rows[p].proposal_status)
      BY <2>4, <3>1 DEF Requeues, InQueue, Booked
    <3>3. Booked(row.proposal_status) => ActiveRow(rows[p])
      BY <1>1, <2>1, <3>2 DEF CalendarAssets, Shown, ActiveRow
    <3> HIDE DEF p, row
    <3>4. QED
      BY <1>1, <2>1, <2>3, <3>3, SavedRowApart
  <2>6. CASE CommitEdit(m)
    <3>1. Cleaned(p, forms[m].row, forms[m].edit)
      BY <1>4, <2>6 DEF CommitEdit, Refuse, scheduleVars
    <3>2. Booked(row.proposal_status) => ~AssetConflict(rows, existing, AssetOf, p)
      BY <2>1, <3>1 DEF Cleaned, AssetAllowed, InQueue, Booked
    <3> HIDE DEF p, row
    <3>3. QED
      BY <1>1, <2>1, <2>3, <3>2, SavedRowApart
  <2>7. QED
    BY <2>5, <2>6
<1>5. QED
  BY <1>3, <1>4

(* So they do when a proposal is added. *)
LEMMA AddedApart ==
  ASSUME CalendarAssets, NEW p \in Proposals, NEW c \in Contents, NEW edit \in Edits, AddAsset(p, c, edit)
  PROVE  AssetsApart' /\ (\A q \in existing' : Shown(rows'[q])) /\ existing \subseteq existing'
<1> DEFINE status == IF edit.status = NULL THEN "DISCUSSION" ELSE edit.status
           window == edit.window
           row == [AbsentRow EXCEPT !.proposal_status = status,
                                    !.action = "NONE",
                                    !.draft = FALSE,
                                    !.content = c,
                                    !.window = window,
                                    !.last_updated_at = now]
<1>1. /\ AssetAllowed(p, status) /\ IsAsset(p)
      /\ existing' = existing \cup {p}
      /\ rows' = [rows EXCEPT ![p] = row]
  BY DEF AddAsset
<1>2. status \in ProposalStatus /\ window \in Weeks \cup {NULL} /\ now \in Time
  BY EditsAssumption DEF ProposalStatus, CalendarAssets, BeatTypes, TypeInv, TypeOK
<1>3. AbsentRow \in Row /\ ~AbsentRow.hide
  <2>1. AbsentRow \in Row
    BY MaxTimeAssumption, DraftType DEF AbsentRow, PaymentStatus, Time
  <2>2. ~AbsentRow.hide
    BY DEF AbsentRow, Draft
  <2>3. QED
    BY <2>1, <2>2
<1> HIDE DEF status, window
<1>4. row \in Row
  BY <1>2, <1>3, ZenonT(60) DEF Row, Action
<1>5. row.proposal_status = status /\ ~row.draft /\ ~row.hide
  BY <1>3 DEF Row
<1> HIDE DEF row
<1>6. Booked(row.proposal_status) => ~AssetConflict(rows, existing, AssetOf, p)
  BY <1>1, <1>5 DEF AssetAllowed, InQueue, Booked
<1>7. QED
  BY <1>1, <1>4, <1>5, <1>6, SavedRowApart DEF Shown

(* Every step keeps the assets apart. *)
LEMMA TimelyAssetsStep ==
  ASSUME AssetFormsOnly, TimelyAssets, [TimelyNext]_adminVars
  PROVE  TimelyAssets'
<1>1. /\ CalendarAssets /\ BeatTypes /\ FormTypes /\ FormsShown /\ [AdminNext]_adminVars
      /\ forms \in [Managers -> Form]
  BY DEF TimelyAssets, CalendarAssets, FormTypes, TimelyNext
<1>2. FormTypes' /\ BeatTypes'
  BY <1>1, FormWrites, AssetWriteType, BeatTypesStep
<1>3. ASSUME NEW m \in Managers, NEW form,
             forms' = [forms EXCEPT ![m] = form], existing \subseteq existing',
             form.pc # "idle" => form.proposal \in existing /\ Shown(form.row)
      PROVE  FormsShown'
  BY <1>1, <1>3 DEF FormsShown
<1>4. UNCHANGED vars => CalendarAssets'
  BY <1>1, <1>2 DEF vars, tables, CalendarAssets, AssetsApart
<1>5. CASE [ScheduleNext]_scheduleVars /\ UNCHANGED forms
  <2>1. CalendarAssets' /\ existing' = existing
    BY <1>1, <1>5, CalendarAssetsStep, CalendarKeeps
  <2>2. FormsShown'
    BY <1>1, <1>5, <2>1 DEF FormsShown
  <2>3. QED
    BY <1>2, <2>1, <2>2 DEF TimelyAssets
<1>6. ASSUME NEW m \in Managers, NEW p \in Proposals, NEW edit \in Edits, BeginEdit(m, p, edit)
      PROVE  TimelyAssets'
  <2> DEFINE form == [pc |-> "cleaning", proposal |-> p, row |-> rows[p], edit |-> edit]
  <2>1. forms' = [forms EXCEPT ![m] = form] /\ UNCHANGED vars /\ p \in existing /\ Shown(rows[p])
    BY <1>1, <1>6 DEF BeginEdit, scheduleVars, CalendarAssets
  <2>2. form.proposal = p /\ form.row = rows[p] /\ existing' = existing
    BY <2>1 DEF vars, tables
  <2> HIDE DEF form
  <2>3. FormsShown'
    BY <1>3, <2>1, <2>2
  <2>4. QED
    BY <1>2, <1>4, <2>1, <2>3 DEF TimelyAssets
<1>7. ASSUME NEW m \in Managers, CommitEdit(m) \/ SaveEdit(m), ~Requeues(m)
      PROVE  TimelyAssets'
  <2>1. CalendarAssets' /\ existing' = existing
    BY <1>2, <1>7, FormApart DEF CalendarAssets
  <2>2. CASE forms' = [forms EXCEPT ![m] = IdleForm]
    <3>1. IdleForm.pc = "idle"
      BY DEF IdleForm
    <3>2. FormsShown'
      BY <1>3, <2>1, <2>2, <3>1
    <3>3. QED
      BY <1>2, <2>1, <3>2 DEF TimelyAssets
  <2>3. CASE forms' = [forms EXCEPT ![m].pc = "saving"]
    <3> DEFINE form == [forms[m] EXCEPT !.pc = "saving"]
    <3>1. forms' = [forms EXCEPT ![m] = form]
      BY <2>3
    <3>2. form.proposal = forms[m].proposal /\ form.row = forms[m].row
      BY <1>1 DEF Form
    <3>3. forms[m].pc # "idle"
      BY <1>7, FormSteps
    <3> HIDE DEF form
    <3>4. FormsShown'
      BY <1>1, <1>3, <2>1, <3>1, <3>2, <3>3 DEF FormsShown
    <3>5. QED
      BY <1>2, <2>1, <3>4 DEF TimelyAssets
  <2>4. QED
    BY <1>7, <2>2, <2>3, FormSteps
<1>8. ASSUME NEW p \in Proposals, NEW c \in Contents, NEW edit \in Edits, AddAsset(p, c, edit)
      PROVE  TimelyAssets'
  <2>1. CalendarAssets' /\ existing \subseteq existing'
    BY <1>1, <1>2, <1>8, AddedApart DEF CalendarAssets
  <2>2. forms' = forms
    BY <1>8 DEF AddAsset
  <2>3. FormsShown'
    BY <1>1, <2>1, <2>2 DEF FormsShown
  <2>4. QED
    BY <1>2, <2>1, <2>3 DEF TimelyAssets
<1>9. \/ UNCHANGED adminVars
      \/ \A m \in Managers : ~Requeues(m)
  BY DEF TimelyNext
<1>10. CASE UNCHANGED adminVars
  <2>1. [ScheduleNext]_scheduleVars /\ UNCHANGED forms
    BY <1>10 DEF adminVars
  <2>2. QED
    BY <1>5, <2>1
<1>11. QED
  BY <1>1, <1>5, <1>6, <1>7, <1>8, <1>9, <1>10, AdminSteps

(* At most one proposal about an asset is queued or in its vote, whoever   *)
(* puts it there: owners whose submits are confirmed late, managers who    *)
(* add proposals and edit them on rows they read before, and ticks that    *)
(* start and end votes - unless a manager's form, saved without the lock,  *)
(* puts back into the queue a proposal that has left it meanwhile.         *)
THEOREM AssetsVotedOneByOneByTime ==
  ASSUME AssetFormsOnly
  PROVE  TimelySpec => []OneActivePerAsset
<1>1. AdminInit => TimelyAssets
  <2> SUFFICES ASSUME AdminInit PROVE TimelyAssets
    OBVIOUS
  <2>1. BeatTypes /\ Init /\ existing \subseteq Proposals
    BY BeatTypesInit DEF AdminInit, ScheduleInit, BeatTypes, TypeInv, TypeOK
  <2>2. AssetsApart
    BY <2>1, AssetInit DEF AssetInv
  <2>3. \A p \in existing : Shown(rows[p])
    BY <2>1, OpeningRows, GenesisColumns DEF Shown
  <2>4. IdleForm \in Form /\ IdleForm.pc = "idle"
    BY DEF IdleForm, Form
  <2>5. FormTypes /\ FormsShown
    BY <2>4 DEF AdminInit, FormTypes, FormSound, FormsShown
  <2>6. QED
    BY <2>1, <2>2, <2>3, <2>5 DEF CalendarAssets, TimelyAssets
<1>2. TimelyAssets /\ [TimelyNext]_adminVars => TimelyAssets'
  BY TimelyAssetsStep
<1>3. TimelyAssets => OneActivePerAsset
  BY DEF TimelyAssets, CalendarAssets, AssetsApart, ActiveRow, Booked, OneActivePerAsset
<1>4. QED
  BY <1>1, <1>2, <1>3, PTL DEF TimelySpec
=============================================================================
