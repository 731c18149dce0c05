----------------------------- MODULE VoteIndexing -----------------------------
(***************************************************************************)
(* From claimable balances to LogVote rows: what an indexing run reads     *)
(* page by page, how it matches what it read with the rows it knows, and   *)
(* what it writes, while voters vote, the service melts their balances,    *)
(* balances are claimed, and another run does the same.                    *)
(*                                                                         *)
(* A run is one transaction under READ COMMITTED.  Its steps are the calls *)
(* of Horizon for a page, the query for the rows it knows, the matching,   *)
(* during which Horizon is asked for originals, and the writes.            *)
(*                                                                         *)
(* Balances are of a supported asset and unlock when the proposal asks for *)
(* it, others never get into a group; rows are created by this code, so    *)
(* that every row is dated and visible.                                    *)
(***************************************************************************)
EXTENDS Naturals, FiniteSets, Sequences, SequencesExt

CONSTANTS
  Updaters,      \* celery workers that take periodic updates
  Freezers,      \* celery workers that take the final snapshot
  Keys,          \* LogVote.key: the choice, the account, the asset and the unlock times
  Stakes,        \* amounts voters lock
  Melts,         \* <<a, b>>: a balance of a may be replaced by one of b
  MaxBalances,   \* bound on claimable balances
  EndAt,         \* Proposal.end_at
  MaxTime,       \* bound on the clock
  MaxClaims,     \* bound on balances that are claimed
  MaxFailures,   \* bound on runs in which Horizon leaves a question open
  MaxRetries,    \* of a celery task
  NULL

ASSUME IndexingAssumption ==
  /\ Stakes \subseteq Nat
  /\ Melts \subseteq Nat \X Nat
  /\ EndAt \in Nat
  /\ {MaxBalances, MaxTime, MaxClaims, MaxFailures, MaxRetries} \subseteq Nat
  /\ NULL \notin Nat

VARIABLES
  balances,   \* every claimable balance there ever was; its place is its id
  log,        \* the LogVote table; the place of a row is its primary key
  now,
  jobs,       \* what every worker is doing
  freeze,     \* the message that freezes the tally
  retries,    \* how often it has been retried
  failures,
  calm        \* history variable: no run has met another run or a change of the ledger

world == <<balances, now>>
vars  == <<world, log, jobs, freeze, retries, failures, calm>>

Workers == Updaters \cup Freezers

Ids == 1..MaxBalances

Amounts == Stakes \cup {m[2] : m \in Melts}

(* previous is the balance the service clawed back to create this one;     *)
(* a voter's own balance has none and is sponsored by the voter.           *)
Balance == [key : Keys, amount : Amounts, previous : Ids \cup {NULL}, created : 0..MaxTime, live : BOOLEAN]

(* origin stands for original_amount and created_at: they are those of the *)
(* create operation of that balance.                                       *)
Row == [balance : Ids, group_index : 0..(MaxBalances - 1), amount : Amounts,
        voted : Amounts \cup {NULL}, origin : Ids, claimed : BOOLEAN]

Job ==
  [pc       : {"idle", "reading", "matching"},
   freezing : BOOLEAN,
   cursor   : 0..MaxBalances,
   seen     : SUBSET Ids,     \* raw_vote_groups
   rows     : Seq(Row)]       \* existing_votes

IdleJob == [pc |-> "idle", freezing |-> FALSE, cursor |-> 0, seen |-> {}, rows |-> <<>>]

Init ==
  /\ balances = <<>>
  /\ log = <<>>
  /\ now = 0
  /\ jobs = [w \in Workers |-> IdleJob]
  /\ freeze = "none"
  /\ retries = 0
  /\ failures = 0
  /\ calm = TRUE

-----------------------------------------------------------------------------
(* The ledger.                                                             *)

SelfSponsored(b) == balances[b].previous = NULL

(* find_origin_claimable_balance_id: back along the replacements.          *)
Origin(b) ==
  LET trace[c \in DOMAIN balances] == IF SelfSponsored(c) THEN c ELSE trace[balances[c].previous]
  IN  trace[b]

Undisturbed == \A w \in Workers : jobs[w].pc = "idle"

(* Changes nobody will read are left out. *)
Change(newBalances) ==
  /\ freeze \notin {"done", "given up"}
  /\ balances' = newBalances
  /\ calm' = (calm /\ Undisturbed)
  /\ UNCHANGED <<log, now, jobs, freeze, retries, failures>>

Created(k, a, b) == [key |-> k, amount |-> a, previous |-> b, created |-> now, live |-> TRUE]

Cast(k, a) ==
  /\ Len(balances) < MaxBalances
  /\ Change(Append(balances, Created(k, a, NULL)))

(* The service claws a balance back and creates what is left of it.        *)
Melt(b, a) ==
  /\ b \in DOMAIN balances
  /\ balances[b].live
  /\ <<balances[b].amount, a>> \in Melts
  /\ Len(balances) < MaxBalances
  /\ Change(Append([balances EXCEPT ![b].live = FALSE], Created(balances[b].key, a, b)))

Spent == {b \in DOMAIN balances : ~balances[b].live /\ \A c \in DOMAIN balances : balances[c].previous # b}

(* Votes unlock an hour after the end. *)
Claim(b) ==
  /\ b \in DOMAIN balances
  /\ balances[b].live
  /\ now > EndAt
  /\ Cardinality(Spent) < MaxClaims
  /\ Change([balances EXCEPT ![b].live = FALSE])

Tick ==
  /\ now < MaxTime
  /\ freeze \notin {"done", "given up"}
  /\ now' = now + 1
  /\ UNCHANGED <<balances, log, jobs, freeze, retries, failures, calm>>

World ==
  \/ Tick
  \/ \E k \in Keys, a \in Stakes : Cast(k, a)
  \/ \E b \in Ids : Claim(b)
  \/ \E b \in Ids, a \in Amounts : Melt(b, a)

-----------------------------------------------------------------------------
(* Reading.  The listings of the choices are read as one.                  *)

Goes(w, job) == jobs' = [jobs EXCEPT ![w] = job]

(* Only an empty page ends a listing, so a run that has seen a balance     *)
(* asks again; nothing is awaited between the last page and the rows.      *)
ReadPage(w, job) ==
  LET page == {b \in DOMAIN balances : balances[b].live /\ b > job.cursor}
  IN  Goes(w, IF page = {} THEN [job EXCEPT !.pc = "matching", !.cursor = 0, !.rows = log]
              ELSE [job EXCEPT !.pc = "reading", !.seen = @ \cup page, !.cursor = Max(page)])

Start(w, freezing) ==
  /\ jobs[w] = IdleJob
  /\ ReadPage(w, [IdleJob EXCEPT !.freezing = freezing])
  /\ calm' = (calm /\ Undisturbed)
  /\ UNCHANGED <<world, log, retries, failures>>

(* task_update_active_proposals; an update that waits in the queue when    *)
(* the vote ends is left out, one that has begun is not.                   *)
StartUpdate(w) == freeze = "none" /\ Start(w, FALSE) /\ UNCHANGED freeze

StartFreeze(w) == freeze = "queued" /\ Start(w, TRUE) /\ freeze' = "running"

ReadOn(w) ==
  /\ jobs[w].pc = "reading"
  /\ ReadPage(w, jobs[w])
  /\ UNCHANGED <<world, log, freeze, retries, failures, calm>>

-----------------------------------------------------------------------------
(* Matching the balances of a key with the rows of that key.  silent are   *)
(* the balances about whose past Horizon does not answer in this run.      *)

InTime(b) == balances[Origin(b)].created <= EndAt

RowsOf(rows, k) == {i \in DOMAIN rows : balances[rows[i].balance].key = k}

Held(rows, b) == \E i \in DOMAIN rows : rows[i].balance = b

(* A balance without a row needs an answer about its past. *)
NeedsAnswer(job) == \E b \in job.seen : ~Held(job.rows, b)

(* Faulty variant: a replacement passes for an old vote. *)
EligibleOrReplacing(seen) == {b \in seen : SelfSponsored(b) => InTime(b)}

Eligible(seen) == {b \in seen : InTime(b)}

(* Faulty variant: positions count from one. *)
IndexFromOne(seen, b) ==
  Cardinality({c \in seen : /\ balances[c].key = balances[b].key
                            /\ \/ balances[c].amount > balances[b].amount
                               \/ balances[c].amount = balances[b].amount /\ c <= b})

(* Position among the balances of its key, the largest amount first. *)
Index(seen, b) ==
  Cardinality({c \in seen : /\ balances[c].key = balances[b].key
                            /\ \/ balances[c].amount > balances[b].amount
                               \/ balances[c].amount = balances[b].amount /\ c < b})

(* A pair is a row and the balance it is to hold. *)
ById(rows, seen, k) ==
  {m \in RowsOf(rows, k) \X Eligible(seen) : rows[m[1]].balance = m[2]}

Without(X, matches)   == X \ {m[1] : m \in matches}
Unmatched(B, matches) == B \ {m[2] : m \in matches}

(* A row and a replacement that alone have the same origin. *)
ByOrigin(rows, R, S, silent) ==
  {m \in R \X S :
     /\ rows[m[1]].balance \notin silent
     /\ {i \in R : rows[i].balance \notin silent /\ Origin(rows[i].balance) = Origin(m[2])} = {m[1]}
     /\ {b \in S : Origin(b) = Origin(m[2])} = {m[2]}}

(* Whatever is left is paired in order; rows of the same group_index come  *)
(* in the order the database likes.                                        *)
InOrder(rows, R) ==
  {s \in SetToSeqs(R) :
     \A i, j \in DOMAIN s : i < j => rows[s[i]].group_index <= rows[s[j]].group_index}

Paired(rows, seen, R, S) ==
  LET place(b) == Cardinality({c \in S : Index(seen, c) <= Index(seen, b)})
  IN  {{<<s[place(b)], b>> : b \in {b \in S : place(b) \in DOMAIN s}} : s \in InOrder(rows, R)}

(* Faulty variant: a row is known by its balance alone. *)
MatchesById(rows, seen, silent, k) == {ById(rows, seen, k)}

(* What the rows of a key may be matched with. *)
Matches(rows, seen, silent, k) ==
  LET byId     == ById(rows, seen, k)
      service  == {b \in Eligible(seen) : balances[b].key = k /\ ~SelfSponsored(b)}
      byOrigin == ByOrigin(rows, Without(RowsOf(rows, k), byId), Unmatched(service, byId), silent)
      found    == byId \cup byOrigin
  IN  {found \cup pairs : pairs \in Paired(rows, seen, Without(RowsOf(rows, k), found),
                                                         Unmatched(service, found))}

-----------------------------------------------------------------------------
(* The rows to write. *)

(* Faulty variant: the freeze forgets the votes it finds. *)
NewRowUnfrozen(seen, b, freezing) ==
  [balance |-> b, group_index |-> Index(seen, b), amount |-> balances[b].amount,
   voted |-> NULL, origin |-> Origin(b), claimed |-> FALSE]

(* Faulty variant: a new row describes the replacement. *)
NewRowOfReplacement(seen, b, freezing) ==
  [balance |-> b, group_index |-> Index(seen, b), amount |-> balances[b].amount,
   voted |-> IF freezing THEN balances[b].amount ELSE NULL, origin |-> b, claimed |-> FALSE]

NewRow(seen, b, freezing) ==
  [balance |-> b, group_index |-> Index(seen, b), amount |-> balances[b].amount,
   voted |-> IF freezing THEN balances[b].amount ELSE NULL, origin |-> Origin(b), claimed |-> FALSE]

(* Faulty variant: a row that was claimed stays claimed. *)
UpdatedStillClaimed(row, seen, b, freezing) ==
  [row EXCEPT !.balance = b, !.group_index = Index(seen, b), !.amount = balances[b].amount,
              !.voted = IF freezing THEN balances[b].amount ELSE @]

Updated(row, seen, b, freezing) ==
  [row EXCEPT !.balance = b, !.group_index = Index(seen, b), !.amount = balances[b].amount,
              !.voted = IF freezing THEN balances[b].amount ELSE @, !.claimed = FALSE]

(* Faulty variant: every run writes voted_amount as it read it. *)
WrittenWhole(w, i, b) ==
  LET row == IF i \in DOMAIN jobs[w].rows THEN jobs[w].rows[i] ELSE log[i]
  IN  Updated(row, jobs[w].seen, b, jobs[w].freezing)

(* Only the columns that Updated sets are written, whatever the run read.  *)
Written(w, i, b) == Updated(log[i], jobs[w].seen, b, jobs[w].freezing)

(* Balances that match no row, and the rows another run has committed for  *)
(* them since the rows were listed.                                        *)
Fresh(w, matches) == Unmatched(Eligible(jobs[w].seen), matches)

Adopted(w, matches) == {m \in (DOMAIN log) \X Fresh(w, matches) : log[m[1]].balance = m[2]}

(* What becomes of the table: rows nothing was matched with are claimed.   *)
(* Of two updates of one row bulk_update takes the first.                  *)
Saved(w, matches) ==
  LET adopted == Adopted(w, matches)
      all     == matches \cup {m \in adopted : \A n \in matches : n[1] # m[1]}
  IN  [i \in DOMAIN log |->
         IF \E m \in all : m[1] = i THEN Written(w, i, (CHOOSE m \in all : m[1] = i)[2])
         ELSE [log[i] EXCEPT !.claimed = TRUE]]
        \o SetToSeq({NewRow(jobs[w].seen, b, jobs[w].freezing) :
                      b \in Unmatched(Fresh(w, matches), adopted)})

(* unique_together of hide and claimable_balance_id. *)
Unique(rows) == \A i, j \in DOMAIN rows : rows[i].balance = rows[j].balance => i = j

(* The keys are matched one after the other. *)
AllMatches(w, silent) ==
  LET job == jobs[w]
      of  == [k \in Keys |-> Matches(job.rows, job.seen, silent, k)]
  IN  {UNION {f[k] : k \in Keys} : f \in {f \in [Keys -> UNION {of[k] : k \in Keys}] :
                                            \A k \in Keys : f[k] \in of[k]}}

(* Horizon is asked for originals, then all rows are written.              *)
SaveWith(w, silent) ==
  /\ jobs[w].pc = "matching"
  /\ \E matches \in AllMatches(w, silent) :
       /\ Unique(Saved(w, matches))
       /\ log' = Saved(w, matches)
  /\ Goes(w, IdleJob)
  /\ freeze' = IF jobs[w].freezing THEN "done" ELSE freeze
  /\ UNCHANGED <<world, retries>>

Save(w) == SaveWith(w, {}) /\ UNCHANGED <<failures, calm>>

(* Rows whose origin cannot be traced are matched without it. *)
SaveHalfBlind(w) ==
  \E b \in (DOMAIN balances) \ jobs[w].seen :
    /\ failures < MaxFailures
    /\ Held(jobs[w].rows, b)
    /\ SaveWith(w, {b})
    /\ failures' = failures + 1
    /\ calm' = FALSE

-----------------------------------------------------------------------------
(* Failing. *)

(* Faulty variant: a freeze that failed is gone. *)
RollAndForget(w) ==
  /\ Goes(w, IdleJob)
  /\ freeze' = IF jobs[w].freezing THEN "given up" ELSE freeze
  /\ UNCHANGED <<world, log, retries>>

(* task_update_proposal_results of a general proposal: a freeze that       *)
(* failed is retried, and an update is not.                                *)
Roll(w) ==
  /\ Goes(w, IdleJob)
  /\ IF ~jobs[w].freezing THEN UNCHANGED <<freeze, retries>>
     ELSE IF retries < MaxRetries THEN freeze' = "queued" /\ retries' = retries + 1
     ELSE freeze' = "given up" /\ UNCHANGED retries
  /\ UNCHANGED <<world, log>>

(* Another run commits a row for the same balance between the lookup and  *)
(* the writes, or holds a balance this run gives to another row.           *)
Clash(w) ==
  /\ jobs[w].pc = "matching"
  /\ \E matches \in AllMatches(w, {}) :
       \/ Adopted(w, matches) # {}
       \/ \E m \in matches, i \in DOMAIN log : i # m[1] /\ log[i].balance = m[2]
  /\ Roll(w)
  /\ UNCHANGED <<failures, calm>>

(* IncompleteVoteSnapshot, or a page that cannot be had. *)
Fail(w) ==
  /\ failures < MaxFailures
  /\ jobs[w].pc = "reading" \/ (jobs[w].pc = "matching" /\ NeedsAnswer(jobs[w]))
  /\ Roll(w)
  /\ failures' = failures + 1
  /\ UNCHANGED calm

(* The beat ends the vote and queues the freeze. *)
EndVote ==
  /\ freeze = "none"
  /\ now >= EndAt
  /\ freeze' = "queued"
  /\ UNCHANGED <<world, log, jobs, retries, failures, calm>>

Run(w) ==
  \/ w \in Updaters /\ StartUpdate(w)
  \/ w \in Freezers /\ StartFreeze(w)
  \/ ReadOn(w)
  \/ Save(w)
  \/ SaveHalfBlind(w)
  \/ Clash(w)
  \/ Fail(w)

Next == World \/ EndVote \/ \E w \in Workers : Run(w)

(* The beat repeats updates, workers take what is queued, and a run goes   *)
(* on and comes to an end, one way or another.                             *)
Fairness ==
  /\ \A w \in Updaters : WF_vars(StartUpdate(w))
  /\ \A w \in Freezers : WF_vars(StartFreeze(w))
  /\ \A w \in Workers : /\ WF_jobs(jobs[w].pc = "reading" /\ ReadPage(w, jobs[w]))
                        /\ WF_jobs(jobs[w].pc = "matching" /\ Goes(w, IdleJob))

Spec == Init /\ [][Next]_vars /\ Fairness

-----------------------------------------------------------------------------
TypeOK ==
  /\ balances \in Seq(Balance)
  /\ log \in Seq(Row)
  /\ now \in 0..MaxTime
  /\ jobs \in [Workers -> Job]
  /\ freeze \in {"none", "queued", "running", "done", "given up"}
  /\ retries \in 0..MaxRetries
  /\ failures \in 0..MaxFailures
  /\ calm \in BOOLEAN

Rows == DOMAIN log

(* A voter's balance, however often it melted, is in one row: its weight   *)
(* counts once.  This holds while no run meets another run or a change of  *)
(* the ledger: a balance that melts between two pages is seen twice, and   *)
(* two runs may each create a row for one half of a replacement.           *)
CountedOnce ==
  calm => \A i, j \in Rows : Origin(log[i].balance) = Origin(log[j].balance) => i = j

(* As long as nobody claims, a row follows the vote it was created for:    *)
(* created_at and original_amount are those of the vote whose weight it    *)
(* has, also when it melted before the first run saw it.                   *)
KeepsOrigin ==
  calm /\ Spent = {} => \A i \in Rows : log[i].origin = Origin(log[i].balance)

(* Whatever runs meet and Horizon leaves open, no row holds a balance that *)
(* stems from a vote cast after the end, or passes for such a vote.        *)
OnlyInTime ==
  \A i \in Rows : \A b \in {Origin(log[i].balance), log[i].origin} : balances[b].created <= EndAt

(* A weight, once frozen, is not written again, though updates that read   *)
(* the row before the freeze save it afterwards.                           *)
FrozenStays ==
  [][\A i \in Rows : log[i].voted # NULL => log'[i].voted = log[i].voted]_vars

(* The freeze gives a row and a weight to every vote in time it has seen,  *)
(* unless a run that it met has given a row it had listed to another       *)
(* balance: then a vote can be left without a weight.                      *)
Displaced(w) == \E i \in DOMAIN jobs[w].rows : log[i].balance # jobs[w].rows[i].balance

Covered(w) ==
  \A b \in Eligible(jobs[w].seen) :
    \E i \in DOMAIN log' : log'[i].balance = b /\ log'[i].voted = balances[b].amount

FreezeCovers ==
  [][\A w \in Workers : jobs[w].freezing /\ freeze' = "done" /\ ~Displaced(w) => Covered(w)]_vars

InSync ==
  /\ \A b \in DOMAIN balances :
       balances[b].live /\ InTime(b) =>
         \E i \in Rows : log[i].balance = b /\ ~log[i].claimed /\ log[i].amount = balances[b].amount
  /\ \A i \in Rows : ~log[i].claimed => balances[log[i].balance].live

(* As long as updates go on, the table comes to agree with the ledger,     *)
(* whatever rows torn reads have left in it.                               *)
Converges == <>[](freeze = "none") => <>[]InSync

(* The freeze of a general proposal is taken, if Horizon fails less often  *)
(* than a task is retried.                                                 *)
FreezeHappens == freeze = "queued" ~> freeze = "done"
=============================================================================
