----------------------------- MODULE QueueSlots -----------------------------
(***************************************************************************)
(* The weekly voting queue: proposal_queue.py and proposal_queue_slots.py. *)
(*                                                                         *)
(* A week is WeekLength ticks.  A window is a whole week, Monday 00:00:00  *)
(* to Sunday 23:59:59, so its end_at is the last tick of the week and two  *)
(* windows overlap exactly when they are the same week.  slots[p] is the   *)
(* ProposalQueueSlot row of p, or NULL.                                    *)
(***************************************************************************)
EXTENDS ProposalRows

CONSTANTS
  WeekLength,      \* QUEUE_SLOT_DURATION in ticks; the last tick is the last second
  BookingHorizon   \* PROPOSAL_QUEUE_BOOKING_HORIZON_WEEKS

ASSUME WeekLengthAssumption == WeekLength \in Nat \ {0, 1}
ASSUME HorizonAssumption    == BookingHorizon \in Nat \ {0}

WeekOf(now)     == now \div WeekLength
StartAt(window) == window * WeekLength
EndAt(window)   == StartAt(window) + WeekLength - 1

(* validate_weekly_queue_slot with is_within_booking_horizon: the horizon  *)
(* counts from next week either way, allow_current_week only lowers the    *)
(* earliest start.                                                         *)
ValidWindow(window, now, allowCurrentWeek) ==
  /\ window >= IF allowCurrentWeek THEN WeekOf(now) ELSE WeekOf(now) + 1
  /\ window <= WeekOf(now) + BookingHorizon

(* queue_occupancy_filters / proposal_uses_queue_slot. *)
UsesQueueSlot(row) ==
  /\ ~row.hide
  /\ ~row.draft
  /\ row.action = "NONE"
  /\ row.proposal_status \in {"QUEUED", "VOTING"}
  /\ row.window # NULL

(* true_queue_slot_occupancy_q: the slot's proposal still uses that slot. *)
TrueOccupancy(rows, slots, p) ==
  /\ slots[p] # NULL
  /\ UsesQueueSlot(rows[p])
  /\ rows[p].window = slots[p]

(* find_queue_slot_conflict. *)
SlotConflict(rows, slots, window, self) ==
  \E q \in Proposals \ {self} : TrueOccupancy(rows, slots, q) /\ slots[q] = window

(* Faulty variant: a missing slot is never created. *)
SyncExistingSlot(rows, slots, p, createMissing) ==
  [slots EXCEPT ![p] = IF UsesQueueSlot(rows[p]) /\ @ # NULL THEN rows[p].window ELSE NULL]

(* sync_proposal_queue_slot: stale slots of other proposals on the same    *)
(* start are deleted, then p's own slot follows its row, or goes; one that *)
(* is missing is created on request.                                       *)
SyncSlot(rows, slots, p, createMissing) ==
  IF UsesQueueSlot(rows[p])
  THEN [q \in Proposals |->
          IF q = p THEN IF createMissing \/ slots[p] # NULL THEN rows[p].window ELSE NULL
          ELSE IF slots[q] = rows[p].window /\ ~TrueOccupancy(rows, slots, q) THEN NULL
          ELSE slots[q]]
  ELSE [slots EXCEPT ![p] = NULL]

SyncQueueSlot(rows, slots, p) == SyncSlot(rows, slots, p, TRUE)

(* find_active_asset_proposal_conflict: another visible proposal of the    *)
(* same asset is queued or being voted on.                                 *)
AssetConflict(rows, existing, assetOf, p) ==
  /\ assetOf[p] # NULL
  /\ \E q \in existing \ {p} :
       /\ assetOf[q] = assetOf[p]
       /\ ~rows[q].hide
       /\ ~rows[q].draft
       /\ rows[q].proposal_status \in {"QUEUED", "VOTING"}
=============================================================================
