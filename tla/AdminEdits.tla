----------------------------- MODULE AdminEdits -----------------------------
(***************************************************************************)
(* Proposals edited by hand: ProposalAdmin.save_model and the checks of    *)
(* ProposalAdminForm.clean, next to promotions, sweeps and the beat.       *)
(*                                                                         *)
(* A form works on an instance it read without a lock.  If the edit moves  *)
(* the window or enters the queue, clean() takes the advisory lock and     *)
(* keeps it to the commit; otherwise its checks and the save are two       *)
(* steps.  The save writes every column of the instance.                   *)
(***************************************************************************)
EXTENDS VotingSchedule

CONSTANTS
  Managers,   \* admin requests under way at the same time
  Edits       \* what the forms send: [status, window], status NULL where the field is read-only

ASSUME ManagersAssumption == Managers \cap (Processes \cup Beats) = {}
ASSUME EditsAssumption ==
  Edits \subseteq [status : ProposalStatus \cup {NULL}, window : Weeks \cup {NULL}]

VARIABLE forms   \* what every admin request is doing

adminVars == <<scheduleVars, forms>>

Form ==
  [pc       : {"idle", "cleaning", "saving"},
   proposal : Proposals \cup {NULL},
   row      : Row \cup {NULL},
   edit     : Edits \cup {NULL}]

IdleForm == [pc |-> "idle", proposal |-> NULL, row |-> NULL, edit |-> NULL]

AdminInit == ScheduleInit /\ forms = [m \in Managers |-> IdleForm]

InQueue(status) == status \in {"QUEUED", "VOTING"}

-----------------------------------------------------------------------------
(* clean().                                                                *)

TargetStatus(row, edit) == IF edit.status = NULL THEN row.proposal_status ELSE edit.status

(* Going back to DISCUSSION drops the window. *)
TargetWindow(row, edit) ==
  IF TargetStatus(row, edit) = "DISCUSSION" /\ row.proposal_status # "DISCUSSION"
  THEN NULL
  ELSE edit.window

Moves(row, edit)  == TargetWindow(row, edit) # row.window
Enters(row, edit) ==
  InQueue(TargetStatus(row, edit)) /\ TargetStatus(row, edit) # row.proposal_status
TakesLock(row, edit) == Moves(row, edit) \/ Enters(row, edit)

(* Faulty variant: nobody asks whether the week is free. *)
WindowAllowedIfTaken(p, status, window) ==
  IF window = NULL THEN ~InQueue(status)
  ELSE /\ status # "DISCUSSION"
       /\ InQueue(status) => ValidWindow(window, now, status = "VOTING")
       /\ status = "QUEUED" => StartAt(window) > now
       /\ status = "VOTING" => StartAt(window) <= now /\ EndAt(window) > now

(* The checks under the lock.                                              *)
WindowAllowed(p, status, window) ==
  IF window = NULL THEN ~InQueue(status)
  ELSE /\ status # "DISCUSSION"
       /\ InQueue(status) => ValidWindow(window, now, status = "VOTING")
       /\ status = "QUEUED" => StartAt(window) > now
       /\ status = "VOTING" => StartAt(window) <= now /\ EndAt(window) > now
       /\ ~SlotConflict(rows, slots, window, p)

AssetAllowed(p, status) ==
  IsAsset(p) /\ InQueue(status) => ~AssetConflict(rows, existing, AssetOf, p)

Cleaned(p, row, edit) ==
  LET status == TargetStatus(row, edit)
  IN  /\ TakesLock(row, edit) => WindowAllowed(p, status, TargetWindow(row, edit))
      /\ AssetAllowed(p, status)

-----------------------------------------------------------------------------
(* Edits.                                                                  *)

(* proposal_status is in the form of an asset proposal only. *)
BeginEdit(m, p, edit) ==
  /\ p \in existing
  /\ edit.status # NULL => IsAsset(p)
  /\ forms[m] = IdleForm
  /\ forms' = [forms EXCEPT ![m] = [pc |-> "cleaning", proposal |-> p,
                                    row |-> rows[p], edit |-> edit]]
  /\ UNCHANGED scheduleVars

(* A ValidationError, shown on the form; a failure below is a 500. *)
Refuse(m) ==
  /\ forms' = [forms EXCEPT ![m] = IdleForm]
  /\ UNCHANGED scheduleVars

(* The whole instance is saved, the columns it did not edit included, then *)
(* the slot follows it.  A slot that is missing is created only if the     *)
(* edit touched the schedule.  A unique column may refuse the save.        *)
Save(m) ==
  LET p == forms[m].proposal
      row == forms[m].row
      edit == forms[m].edit
      saved == [rows EXCEPT ![p] = [row EXCEPT !.proposal_status = TargetStatus(row, edit),
                                               !.window = TargetWindow(row, edit)]]
      scheduled == TargetStatus(row, edit) # row.proposal_status \/ edit.window # row.window
      taken == \E q \in Proposals \ {p} :
                 /\ TrueOccupancy(saved, slots, q)
                 /\ slots[q] = saved[p].window
      needsSlot == UsesQueueSlot(saved[p]) /\ (scheduled \/ slots[p] # NULL)
  IN  IF \/ row.transaction_hash # NULL /\ HashInUse(row.transaction_hash, p)
         \/ row.new_transaction_hash # NULL /\ NewHashInUse(row.new_transaction_hash, p)
         \/ needsSlot /\ taken
      THEN Refuse(m)
      ELSE /\ forms' = [forms EXCEPT ![m] = IdleForm]
           /\ Write(saved, SyncSlot(saved, slots, p, scheduled))
           /\ UNCHANGED beats

CommitEdit(m) ==
  LET row == forms[m].row
      edit == forms[m].edit
      p == forms[m].proposal
  IN  /\ forms[m].pc = "cleaning"
      /\ IF ~Cleaned(p, row, edit) THEN Refuse(m)
         ELSE IF TakesLock(row, edit) THEN Save(m)
         ELSE /\ forms' = [forms EXCEPT ![m].pc = "saving"]
              /\ UNCHANGED scheduleVars

SaveEdit(m) == forms[m].pc = "saving" /\ Save(m)

-----------------------------------------------------------------------------
(* The add form publishes an asset proposal at once, "without payment/XDR";  *)
(* for a general one it INSERTs the draft that CommitCreate does.          *)
AddAsset(p, c, edit) ==
  LET status == IF edit.status = NULL THEN "DISCUSSION" ELSE edit.status
      row == [AbsentRow EXCEPT !.proposal_status = status,
                               !.action = "NONE",
                               !.draft = FALSE,
                               !.content = c,
                               !.window = edit.window,
                               !.last_updated_at = now]
  IN  /\ p \notin existing
      /\ IsAsset(p)
      /\ edit.window # NULL \/ InQueue(status) => WindowAllowed(p, status, edit.window)
      /\ AssetAllowed(p, status)
      /\ existing' = existing \cup {p}
      /\ rows' = [rows EXCEPT ![p] = row]
      /\ slots' = SyncSlot(rows', slots, p, TRUE)
      /\ UNCHANGED <<history, ledger, settled, now, jobs, applied, beats, forms>>

AdminNext ==
  \/ ScheduleNext /\ UNCHANGED forms
  \/ \E m \in Managers, p \in Proposals, edit \in Edits : BeginEdit(m, p, edit)
  \/ \E m \in Managers : CommitEdit(m) \/ SaveEdit(m)
  \/ \E p \in Proposals, c \in Contents, edit \in Edits : AddAsset(p, c, edit)

AdminSpec == AdminInit /\ [][AdminNext]_adminVars

(* The same beat; people owe nothing. *)
AdminFairSpec == AdminSpec /\ BeatFairness

(* A form without the lock puts a proposal back into the queue that has    *)
(* left it since the form read it.  Nothing in the code prevents that.     *)
Requeues(m) ==
  LET p == forms[m].proposal
  IN  /\ forms[m].pc = "saving"
      /\ forms'[m] = IdleForm
      /\ ~InQueue(rows[p].proposal_status)
      /\ InQueue(rows'[p].proposal_status)

(* The behaviours in which no manager is that late. *)
TimelyNext     == AdminNext /\ \A m \in Managers : ~Requeues(m)
TimelySpec     == AdminInit /\ [][TimelyNext]_adminVars
TimelyFairSpec == TimelySpec /\ BeatFairness
=============================================================================
