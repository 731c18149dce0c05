--------------------------- MODULE VotingSchedule ---------------------------
(***************************************************************************)
(* The weekly calendar at work: task_sync_proposal_statuses_by_time ends   *)
(* votes whose week is over, expires discussions nobody pays for, and      *)
(* starts the vote of the current week, while requests stage submits and   *)
(* payments are confirmed.                                                 *)
(*                                                                         *)
(* A tick of the beat is a process: its statements outside a transaction   *)
(* are steps of their own, and the start of a vote is one step, for it     *)
(* holds the advisory lock that promotions of submits hold too.            *)
(*                                                                         *)
(* Checking the payment of a submit is one step here: of the steps it      *)
(* takes in Promotion only the last writes what the calendar reads, and    *)
(* that one decides on the locked row.  Every staged submit may turn out   *)
(* to be paid.  Creations are over, and updates are left to Promotion.     *)
(***************************************************************************)
EXTENDS Promotion

CONSTANTS
  Beats,         \* workers that run task_sync_proposal_statuses_by_time
  ExpiredTime    \* settings.EXPIRED_TIME in ticks

ASSUME BeatsAssumption   == Beats \cap Processes = {}
ASSUME ExpiredAssumption == ExpiredTime \in Nat

VARIABLE beats   \* what every tick of the beat is doing

scheduleVars == <<vars, beats>>

(* at is the task's now; due are the votes it read and has yet to end, and *)
(* ended is the vote it has just saved.                                    *)
BeatJob ==
  [pc    : {"idle", "finishing", "releasing", "expiring", "starting"},
   at    : Time,
   due   : SUBSET Proposals,
   ended : Proposals \cup {NULL}]

IdleBeat == [pc |-> "idle", at |-> 0, due |-> {}, ended |-> NULL]

ScheduleInit == Init /\ beats = [b \in Beats |-> IdleBeat]

InSight(p) == p \in existing /\ ~rows[p].hide /\ ~rows[p].draft

-----------------------------------------------------------------------------
(* Ending votes.                                                           *)

(* Faulty variant: the week is over as soon as it begins. *)
VoteOverAtStart(p, at) ==
  /\ InSight(p)
  /\ rows[p].proposal_status = "VOTING"
  /\ rows[p].window # NULL
  /\ StartAt(rows[p].window) <= at

VoteOver(p, at) ==
  /\ InSight(p)
  /\ rows[p].proposal_status = "VOTING"
  /\ rows[p].window # NULL
  /\ EndAt(rows[p].window) <= at

AfterVotes(due) == IF due = {} THEN "expiring" ELSE "finishing"

(* Faulty variant: only a vote that ends in this very tick is found. *)
StartBeatOnTime(b) ==
  LET due == {p \in Proposals : VoteOver(p, now) /\ EndAt(rows[p].window) = now}
  IN  /\ beats[b] = IdleBeat
      /\ beats' = [beats EXCEPT ![b] = [pc |-> AfterVotes(due), at |-> now,
                                        due |-> due, ended |-> NULL]]
      /\ UNCHANGED vars

(* A tick reads the clock once, and the votes whose week is over. *)
StartBeat(b) ==
  LET due == {p \in Proposals : VoteOver(p, now)}
  IN  /\ beats[b] = IdleBeat
      /\ beats' = [beats EXCEPT ![b] = [pc |-> AfterVotes(due), at |-> now,
                                        due |-> due, ended |-> NULL]]
      /\ UNCHANGED vars

(* Tables that only the calendar writes, and the rest of Promotion. *)
Write(newRows, newSlots) ==
  /\ rows' = newRows
  /\ slots' = newSlots
  /\ UNCHANGED <<existing, history, ledger, settled, now, jobs, applied>>

(* VOTED is saved in a statement of its own, on a row read by StartBeat.   *)
FinishVote(b) ==
  /\ beats[b].pc = "finishing"
  /\ \E p \in beats[b].due :
       /\ Write([rows EXCEPT ![p].proposal_status = "VOTED"], slots)
       /\ beats' = [beats EXCEPT ![b].pc = "releasing", ![b].due = @ \ {p}, ![b].ended = p]

(* sync_proposal_queue_slot on the same stale instance, which uses none.   *)
ReleaseSlot(b) ==
  /\ beats[b].pc = "releasing"
  /\ Write(rows, [slots EXCEPT ![beats[b].ended] = NULL])
  /\ beats' = [beats EXCEPT ![b].pc = AfterVotes(beats[b].due), ![b].ended = NULL]

(* Nobody pays for the proposal, and it holds no slot.                     *)
Expires(p, at) ==
  /\ InSight(p)
  /\ rows[p].action = "NONE"
  /\ rows[p].proposal_status = "DISCUSSION"
  /\ rows[p].last_updated_at + ExpiredTime <= at
  /\ slots[p] = NULL

(* One UPDATE; task_check_expired_proposals runs it too. *)
ExpireDiscussions(b) ==
  /\ beats[b].pc = "expiring"
  /\ Write([p \in Proposals |->
              IF Expires(p, beats[b].at) THEN [rows[p] EXCEPT !.proposal_status = "EXPIRED"]
              ELSE rows[p]], slots)
  /\ beats' = [beats EXCEPT ![b].pc = "starting"]

-----------------------------------------------------------------------------
(* Starting a vote, under the advisory lock.                               *)
VoteUnderWay == \E p \in Proposals : InSight(p) /\ rows[p].proposal_status = "VOTING"

Due(p, at) ==
  /\ InSight(p)
  /\ rows[p].action = "NONE"
  /\ rows[p].proposal_status = "QUEUED"
  /\ rows[p].window # NULL
  /\ StartAt(rows[p].window) <= at
  /\ EndAt(rows[p].window) > at
  /\ slots[p] = rows[p].window

(* Faulty variant: only the oldest queued proposal is looked at. *)
StartOldestVote(b) ==
  LET queued == {p \in Proposals : InSight(p) /\ rows[p].proposal_status = "QUEUED"}
  IN  /\ beats[b].pc = "starting"
      /\ IF VoteUnderWay \/ queued = {} THEN UNCHANGED vars
         ELSE \E p \in queued :
                /\ \A q \in queued : p <= q
                /\ IF Due(p, beats[b].at)
                   THEN Write([rows EXCEPT ![p].proposal_status = "VOTING"], slots)
                   ELSE UNCHANGED vars
      /\ beats' = [beats EXCEPT ![b] = IdleBeat]

(* The first proposal that is due, unless another one is being voted on.   *)
StartVote(b) ==
  LET due == {p \in Proposals : Due(p, beats[b].at)}
  IN  /\ beats[b].pc = "starting"
      /\ IF VoteUnderWay \/ due = {} THEN UNCHANGED vars
         ELSE \E p \in due :
                /\ \A q \in due : p <= q
                /\ Write([rows EXCEPT ![p].proposal_status = "VOTING"], slots)
      /\ beats' = [beats EXCEPT ![b] = IdleBeat]

(* The worker dies between two statements. *)
CrashBeat(b) ==
  /\ beats[b] # IdleBeat
  /\ beats' = [beats EXCEPT ![b] = IdleBeat]
  /\ UNCHANGED vars

-----------------------------------------------------------------------------
(* The payment of a staged submit is checked and found good.               *)
ConfirmSubmit(p) ==
  LET t == Resolve(p, rows[p])
  IN  /\ InSight(p)
      /\ t.hash # NULL
      /\ t.window # NULL
      /\ ~MustWait(t)
      /\ ~BreaksUniqueness(t)
      /\ Unspent(t)
      /\ ApplySubmit(t)
      /\ Claim(t)
      /\ UNCHANGED <<existing, settled, now, jobs, beats>>

-----------------------------------------------------------------------------
Beat(b) ==
  \/ StartBeat(b)
  \/ FinishVote(b)
  \/ ReleaseSlot(b)
  \/ ExpireDiscussions(b)
  \/ StartVote(b)

ScheduleNext ==
  \/ Tick /\ UNCHANGED beats
  \/ /\ \E w \in Web, p \in Proposals, h \in Hashes, window \in Weeks : BeginSubmit(w, p, h, window)
     /\ UNCHANGED beats
  \/ \E w \in Web : (CommitSubmit(w) \/ Crash(w)) /\ UNCHANGED beats
  \/ \E p \in Proposals : ConfirmSubmit(p)
  \/ \E b \in Beats : Beat(b) \/ CrashBeat(b)

ScheduleSpec == ScheduleInit /\ [][ScheduleNext]_scheduleVars

(* A tick dies in a step that no tick could have taken. *)
Dies(b) == CrashBeat(b) /\ ~Beat(b)

(* Celery beat starts a tick every minute, and a tick runs to its end      *)
(* unless its worker dies, which does not go on for ever.  Neither the     *)
(* clock nor a client owes anything.                                       *)
BeatFairness ==
  /\ \A b \in Beats : WF_scheduleVars(Beat(b))
  /\ <>[][\A b \in Beats : ~Dies(b)]_scheduleVars

-----------------------------------------------------------------------------
(* Properties.                                                             *)

(* A paid week is voted on in that week: a vote does not begin before its  *)
(* window and is not over before its end, whatever tick of the beat saves  *)
(* the status and however stale the rows are that it read.                 *)
VotesKeepTheirWeek ==
  \A p \in existing :
    ~IsAsset(p) /\ rows[p].window # NULL =>
      /\ rows[p].proposal_status = "VOTING" => StartAt(rows[p].window) <= now
      /\ rows[p].proposal_status = "VOTED" => EndAt(rows[p].window) <= now

(* A proposal that a client paid to queue keeps the slot row of its week,  *)
(* the only thing a later booking looks at, until its vote has ended.      *)
PaidBookingHoldsSlot ==
  \A p \in existing : ~IsAsset(p) /\ UsesQueueSlot(rows[p]) => slots[p] = rows[p].window

(* tasks.py on the start of a vote: "The global voting invariant allows    *)
(* only one proposal to be active at a time."                              *)
OneVoteAtATime ==
  \A p, q \in existing :
    /\ InSight(p) /\ rows[p].proposal_status = "VOTING"
    /\ InSight(q) /\ rows[q].proposal_status = "VOTING"
    => p = q

(* A proposal that is due does not stay queued for the rest of its week:   *)
(* the beat starts its vote, even if it must first end the vote of another *)
(* one.                                                                    *)
DueVoteStarts == \A p \in Proposals : Due(p, now) ~> ~Due(p, now)

(* A vote whose week is over does not stay open.                           *)
OverdueVoteEnds == \A p \in Proposals : VoteOver(p, now) ~> ~VoteOver(p, now)
=============================================================================
