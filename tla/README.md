# Aqua governance: a TLA+ model of the proposal machinery

Aqua governance is a Django/Celery service. Owners of proposals pay for every
transition of a proposal (creation, content update, submission to a vote) with
an AQUA payment on the Stellar network; the service checks the payment on
Horizon and then applies the transition. Booked proposals wait in a weekly
queue, are voted on, tallied and, for asset proposals, executed on chain.

This directory holds the modules that model it, the TLC configurations that
check them and the TLAPS proofs about them. `PROJECT.json` lists every run,
the faulty variant each property is known to catch, the source lines of every
definition, the hazards and the findings.

## 1. The system

| component | state it keeps | operations | talks to |
|---|---|---|---|
| Proposal table (`models.py`) | one row per proposal: status, pending action, payment columns, public and staged hash, content and window | every other component writes it | – |
| Staging endpoints (`serializers_v2.py`, `views.py`) | none | POST (general, asset), PUT, `submit/`, `check_payment/` | proposal table, promotion |
| Payment verification (`utils/payments.py`, `utils/memo.py`) | none | `verify_payment`, `inspect_envelope` | Horizon |
| Payment promotion (`proposal_transactions.py`, `transitions.py`) | none of its own | `check_transaction` and its three branches | all tables, Horizon, advisory lock |
| Consumed transactions (`consumed_transactions.py`) | `ConsumedTransaction`, unique hash | `claim_transaction_hashes` | inside the promoting transaction |
| Payment sweep (`tasks.py`, `db_locks.py`) | a session advisory lock | every minute: `check_transaction` on each pending row | promotion |
| Weekly queue (`proposal_queue*.py`) | `ProposalQueueSlot`, unique `start_at` | validate a window, find a conflict, synchronise a slot | promotion, beat, admin |
| Asset tokens (`asset_tokens.py`) | `AssetToken` | conflict search, upsert, apply result | promotion, execution |
| Voting schedule (`tasks.py`) | status column | finish, expire, start (every minute) | queue, finalization |
| Finalization (`task_logic/proposal_finalization.py`) | frozen tally | tally, freeze, execution request | indexing, execution |
| Vote indexing (`task_logic/vote_indexing.py`, `parser.py`, `claimable_trace.py`, `unlock_rules.py`) | `LogVote` | read the balances of the choices, trace replacements, match, write, freeze | Horizon |
| On-chain execution (`tasks.py`, `onchain_hooks/`) | execution columns | hold, send, poll, review, retry | Soroban RPC |
| Administration (`admin.py`, `forms.py`) | – | change and add proposals, move windows, enter the queue | proposal table, queue, advisory lock |
| Operators (`management/commands/`) | – | re-arm a payment check, repair votes, backfill | all tables |

What is hard about it:

* web workers and the sweep run the same `check_transaction` on the same row,
  and a Horizon round trip lies between reading the row and writing it;
* staging is not authenticated, validates without a lock, and may replace a
  staged copy while a worker verifies it;
* one payment can be presented under two hashes (fee bump), for two purposes
  (a legacy memo commits to the text alone) and on two rows;
* a promotion may be refused, deferred, rolled back, killed by a deadlock or
  cut off by a crash, and must leave the payment spendable in all these cases
  and spent in the one where it was applied;
* nobody has to poll: whatever the sweep leaves out is lost to the owner;
* from the end of a vote to the registry, every step is a task or a statement
  of its own: workers die between them, messages are acknowledged before they
  are acted on, beat queues a periodic task whether or not the last one has
  ended, and the network answers late or not at all;
* the calendar is written by four parties - promotions, the beat, requests and
  admin forms - of which two work on instances they read without a lock;
* a vote is a claimable balance that the service keeps replacing while it
  melts; a run lists balances page by page, asks Horizon about their past one
  by one, and writes rows that another run may have read already.

What makes each part correct, in a sentence: a payment is spent once, on what
it was made for, and nothing public changes otherwise; no week is booked twice
and no two votes are held on one asset; a paid week is voted on, in that week;
every vote in time counts once with the weight it had at the freeze; a decision
rests on the frozen tally and is executed at most once, and whatever is under
way comes to an end.

## 2. Modules

| module | models | extends |
|---|---|---|
| `ProposalRows` | the row of the Proposal table, the frozen transition, and each write of the row as an operator | – |
| `PaymentVerification` | `verify_payment`: memos, payers, amounts, fee bumps, outages | `ProposalRows` |
| `QueueSlots` | windows, horizon, occupancy, slot and asset conflicts, slot synchronisation | `ProposalRows` |
| `Promotion` | staging endpoints, `check_transaction`, the sweep, re-arming, crashes and deadlocks, over all tables | the two above |
| `VotingSchedule` | `task_sync_proposal_statuses_by_time` statement by statement (end, expire, start), with crashes, next to staged and confirmed submits | `Promotion` |
| `AdminEdits` | `ProposalAdmin.save_model` and `ProposalAdminForm.clean`: forms with stale instances, locked or not, and the add form of asset proposals | `VotingSchedule` |
| `MCSchedule` | small calendars for TLC | `AdminEdits` |
| `PaymentLedger` | the abstract promise: a payment is spent on exactly one transition, in one step | – |
| `MCPromotion` | small worlds for TLC | `Promotion` |
| `ExecutionRows` | the on-chain columns of an asset proposal, the token row, and each write of them as an operator | – |
| `OnchainExecution` | end of a vote, indexing and freezing, finalization, hold, send under a lease, poll, review and retry, with crashes and lost answers | `ExecutionRows` |
| `SingleExecution` | the abstract promise: one transaction at a time, none after a success, a report only of a success | – |
| `MCOnchain` | workers and decisions for TLC | `OnchainExecution` |
| `VoteIndexing` | an indexing run page by page: tracing, matching by id, origin and position, writes, adoption of rows of another run, failures, the freeze and its retries; and the ledger that changes meanwhile | – |
| `MCIndexing` | votes for TLC | `VoteIndexing` |
| `Promotion_proofs` | types, the ledger and its refinement | `Promotion`, `TLAPS` |
| `Tables_proofs` | what the steps of `Promotion` do to the tables | `Promotion_proofs` |
| `Publication_proofs` | what the public sees, staged copies, recorded hashes | `Tables_proofs` |
| `Booking_proofs` | weeks and assets: promotions alone, next to the beat, next to the managers' forms | `Tables_proofs`, `AdminEdits` |
| `ExecutionTypes_proofs` | types, one freeze, tokens that are SYNCED | `OnchainExecution`, `TLAPS` |
| `Execution_proofs` | one execution at a time, and the refinement | `ExecutionTypes_proofs` |
| `Indexing_proofs` | types, origins, votes in time, final weights | `VoteIndexing`, `TLAPS` |
| `Counting_proofs` | matching and saving: one row for a vote, its own vote's row, a complete freeze | `Indexing_proofs` |

### How the state corresponds to the code

* `rows`, `slots`, `history`, `ledger` are the tables `Proposal`,
  `ProposalQueueSlot`, `HistoryProposal` and `ConsumedTransaction` (the last
  two reduced to their unique hash column). `existing` is the set of primary
  keys.
* `settled` is what Horizon would find. `PaymentInfo` fixes what each payment
  is; `PaymentOf` maps a hash to its payment and is not injective.
* `jobs` holds what a process keeps in memory between two database
  transactions: the frozen transition, Horizon's answer, the instance an
  update request read, the rows the sweep has yet to visit.
* `applied` is a history variable: the transitions applied, in order.
* A memo is a digest, so it is represented by the tuple its preimage commits
  to; title and text are one `content` (`TitleOf`, `TextOf` take it apart);
  `start_at` and `end_at` are one `window`, the number of a week. A week is
  `WeekLength` ticks and its `end_at` is its last tick, so "the window's last
  second" is a state of the model.

### What one step is

Each database transaction is one action: it holds the row lock (and the
advisory lock on the submit and asset paths) from its first read to its commit.
A step ends where the code leaves the database: to answer the client, to ask
Horizon, or to open another transaction. Hence

* a staging request is `Begin*` (the unlocked reads of the validators) and
  `Commit*` (the write); for PUT, `CommitUpdate` saves the instance that
  `BeginUpdate` read, all columns of it. `perform_update` loads the object
  twice within the validation step; the model keeps the serializer's instance,
  which is the one that is saved;
* a check is `StartCheck`/`StartSweep` (the row is read and the transition
  frozen), `AskHorizon`, and one applying transaction (`Promote*`, `Defer-`,
  `Skip-`, `FailPromotion`, `RejectAssetCreate`) or one conditional UPDATE
  (`RejectPayment`, `RejectUnusableHash`);
* a refused claim on the create and update paths rolls back first
  (`RollBackSpent`) and is recorded by a later transaction (`RefuseSpent`); on
  the submit path both happen in one transaction, under the locks;
* the early return of `_check_create_transaction` that compares the legacy
  `status` column (`proposal_transactions.py:608-609`) is never taken, because
  nothing writes that column, which defaults to FINE; it has no action.

In `OnchainExecution` a step is one statement or one `transaction.atomic()`
block, or one call of Horizon, the supply endpoint or Soroban; the tasks lock
little, so most rows are read in one step and written in another.

* `execs` holds the `onchain_execution_*` columns. A lease is "within lease" or
  "lease over"; `submitted_at` is set and cleared with the hash. `results`
  holds the saved result and supply; its `frozen` flag says whether the sum was
  taken over `voted_amount`. `votes` is what the `LogVote` rows add up to, now
  and at the freeze: `_sum_votes_for_proposal` falls back on the current amount
  where there is no snapshot. `ballots` is what Horizon shows.
* `messages` are the celery messages in the queue. They are acknowledged when
  taken (no `acks_late` in the settings), so a crash loses the task; beat tasks
  start whenever a worker is free, for they are queued again and again.
* `jobs` holds what a task has in memory: the row as a poll read it, the answer
  of Soroban, the supply it fetched, the rows it has yet to visit.
* `sent` is the network's list of transactions, `registry` the contract's flag;
  a transaction is included, fails or is forgotten. `decided` is a history
  variable: what the last approval rested on and which supply was fetched.

In `VotingSchedule` a tick of the beat is a process (`beats`): its queries read
rows it writes later, VOTED and the release of the slot are statements of their
own, and the start of a vote is one step, for it holds the advisory lock that
promotions of submits hold. Checking the payment of a submit is one step here
(`ConfirmSubmit`). That is sound because, of the steps it takes in `Promotion`,
only the last writes a column or a slot the calendar reads, and that one decides
on the row as it then is; a verdict, a deferral or a crash in between leaves the
calendar as it was, and whether the payment was made is left open, so that every
staged submit may be confirmed at any moment. Updates change no column the
calendar reads except through the stale PUT, which is in `Promotion`.

In `AdminEdits` a form (`forms`) holds the instance it read. `clean()` takes the
advisory lock if the edit moves the window or enters the queue, and keeps it to
the commit, because the view is one transaction; then the checks and the save
are one step, otherwise two. The save writes every column of the instance.

In `VoteIndexing` the place of a balance in `balances` is its id, and so is the
order of Horizon's listing; the place of a row in `log` is its primary key.
`previous` is the balance the service clawed back to create this one, which
`find_origin_claimable_balance_id` walks back; `key` stands for choice, account,
asset and unlock times. `origin` of a row stands for `created_at` and
`original_amount`, which are those of the create operation of that balance. A run
is one transaction under READ COMMITTED: `seen` is what its pages showed, `rows`
the rows it read after them, and the writes go to the table as it is then.
`matches` is a set of pairs of a row and the balance it is to hold; where the
code's order is the database's (rows of equal `group_index`), the module takes
any. `load_all_records` ends on an empty page only, so a listing that has shown
a balance takes at least two calls, and the ledger may change between them.

`inspect_envelope` reads an unsigned envelope the client made up, so its
advisory verdict is any member of `Advisory`. The development-only payment
bypass is off.

## 3. Runs

### Payments

These runs use `MCPromotion`, one web worker beside the sweep, weeks of two
ticks. The worker may abandon a request at any point (`Crash`), so it stands
for any number of clients one after another; interleavings of two processes on
one row are those of the worker and the sweep. `CHECK_DEADLOCK FALSE`
everywhere: once the clock has reached its bound, every payment has settled and
every row is at rest, the system has nothing left to do.

| run | world | asks |
|---|---|---|
| `update` | one published proposal, two updates, one payment with two hashes | types; verdicts and staged copies never land on the wrong state (`PromotedIsClean`, `OnlyOwnCopyConsumed`); what is applied and published was paid (`AppliedAuthorised`, `PublishedWasPaid`); a hash is burned iff its transition was applied |
| `creation` | an asset creation and an update, one fee-bumped legacy payment that fits both, an operator who re-arms rows as pending updates | single use across rows and purposes, refinement of `PaymentLedger`; a retired creation is out of sight |
| `sweep` | a submit, and a creation about the same asset, which has to wait once the submit is queued; nobody has to poll | liveness: `PaidIsPromoted`; nothing public changes unpaid; the backfill lemma where no PUT runs |
| `lost_update` | as `update` | expected violation, see findings |
| `stale_verdict` | one update, corrected and re-staged under its hash | expected violation, see findings |

### The calendar

These runs use `MCSchedule`: weeks of two ticks, proposals whose creations are
confirmed, one web worker, one tick of the beat at a time (it may die at any
point, and the next begins), payments that are made or not.

| run | world | asks |
|---|---|---|
| `calendar` | two weeks, both of which end; a general proposal and an asset proposal in discussion, one of which its owner submits and pays; a manager queues the asset proposal for week 2, from a form that may be stale, or adds another about the same asset; all that follows `TimelySpec` (below) | `NoDoubleBooking`; `OneActivePerAsset`: the staged submit of one asset proposal, the form of a manager and the ends of votes leave at most one of them queued or in its vote; `PaidBookingHoldsSlot`: a paid booking keeps its slot row; `VotesKeepTheirWeek`: no vote before its week, none over before its end, though ticks write what they read earlier; liveness: `DueVoteStarts`, `OverdueVoteEnds` |
| `one_vote` | two general proposals, submits of weeks 1 and 2 | expected violation, see findings |

### Counting votes

`MCIndexing`: one voter's key, stakes of 3 that melt by 1, up to three balances
(three votes, or one vote melted twice, or one and a replacement of another), an
updater and a freezer, one claim, one failure of Horizon.

| run | asks |
|---|---|
| `indexing` | types; `CountedOnce`: one row for a vote however often it melted; `KeepsOrigin`: a row describes the vote whose weight it has; `OnlyInTime`: no late vote in, not even as a replacement; `FrozenStays`; `FreezeCovers`: the freeze gives every vote it saw the weight it saw, unless another run moved a row it had listed; liveness: `Converges` (the table comes to agree with the ledger while updates go on), `FreezeHappens` |

### From vote to registry

These runs use `MCOnchain`. `Roles` says which tasks a worker takes, so that
each run has the interleavings its question needs and no others.

| run | workers | asks |
|---|---|---|
| `execution` | two that index, finalize and send; one of them polls and ends votes, the other retries; two transactions, a tally that changes | types; `OneLiveExecution`: a second transaction is sent only when the first can no longer count; `SuccessMeansExecuted`: a row in SUCCESS names the transaction that succeeded; refinement of `SingleExecution` (`ImplementsSingleExecution`); `FrozenStays`: neither a periodic update that began earlier nor a retry touches a snapshot |
| `overlap` | a proposal that adds a token and one that removes it, executed one after the other (`OrderlySpec`); two pollers, one of which sends, retries and ends votes too; three transactions; the answer of one send may get lost | `ReportedWasExecuted`: SUCCESS only after one of the proposal's transactions has succeeded; `SyncedMeansUpToDate`: SYNCED is true after the addition and again after the removal, whatever was retried or answered late |
| `settles` | two workers, one crash | liveness: `InFlightResolves` |
| `unfrozen` | two that take whatever comes | expected violation, see findings |

`CHECK_DEADLOCK FALSE`: once every execution has ended there is nothing to do.

### Bounds

`MaxTime` bounds the clock and is chosen per run so that what depends on time can
happen: in `calendar` the clock passes the last tick of the contested week (a submit
is booked ahead, starts at once, is applied as EXPIRED, or is out of the horizon),
and the next vote is due on the tick on which the last one is overdue, and the clock
goes on until the second vote is overdue too. Its one submit is paid for the general
proposal or for the asset proposal, so that it meets a booking by hand of its week,
or of its asset. Two proposals are enough for every property that relates rows, as
each of them relates at most two. Two payments, one with two hashes, are the
smallest set in which a payment can be presented twice without repeating a hash
while another competes for the row. Contents number two, so a copy can be replaced
by a different one. Of transactions the runs allow two (`MaxTx`), the fewest of
which one can be repeated, and `overlap` three, so that an answer about the first
can reopen a row that names the second, or an addition be sent twice before the
removal; of the answers to a send one may get lost there (`MaxLost`). `MaxPolls` is
2 in `settles` and `unfrozen`, so a poll can be the first or the last, and 1 in the
two larger runs, where a poll that finds its transaction pending hands it to review.
`execution` has no crashes: to the others a worker that never takes another step,
which every behaviour may have, is a dead one, and leases do run out. `settles` and
`unfrozen` have one. Three balances are the fewest with which a melted vote and a
second vote of the same key meet, and with which a vote melts twice. One key is
enough: the keys are matched apart from each other, and share only the writes. A
second updater (1.7 million states) was checked once and changes nothing. Two
tallies tell a stale count from a new one, and one of them misses the quorum. The
theorems below remove these bounds for the safety properties, under the assumptions
named there; in particular, two submits that one legacy payment fits are covered by
`PaymentUsedOnce`.

### Fairness

`FairSpec` assumes that the sweep starts (celery beat schedules it every
minute, `taskapp/__init__.py:37-41`) and that a sweep under way takes its next
step. Interruptions - a crash, a deadlock, an unreachable Horizon, a settled
payment whose transaction or operations Horizon does not know yet - may happen
any number of times but not forever; without that assumption no service could
promise anything. Clients, operators and the clock are assumed nothing of. The
run leaves enough time for the not-found clock (the sweep gives up on a hash
Horizon has not known for that long, and says so), and its world has no PUT: a
lost update (below) can leave a row whose promotion breaks a unique column
forever.

`BeatFairness` assumes that the tick celery beat queues every minute
(`taskapp/__init__.py:27-31`) begins and takes its next statement, and that a
tick does not die again and again for ever (a death that leaves the tables as
the next statement would have left them counts as that statement). People and
the clock owe nothing: if the week ends before a tick comes, the vote is no
longer due and `DueVoteStarts` asks nothing.

`VoteIndexing!Fairness` assumes that updates and the queued freeze are taken by
a worker, and that a run gets its next page and comes to its end, by a save, a
clash or a failure; it is stated on the variable of the jobs (`WF_jobs`), so
that any outcome counts. Failures are bounded by `MaxFailures`, one less than
what exhausts the retries; beyond that the task gives up by design.

`OnchainExecution!Fairness` assumes that a task under way takes its next step
(weakly), that the polls and retries beat queues every minute and every ten
minutes (`taskapp/__init__.py:42-51`), and a send message that is in the queue,
are taken by a worker that is free for them again and again (strongly: a worker
shared by several tasks is free only in between), and that leases run out.
Nothing is assumed of the network, the voters, the indexing or the crashes,
whose number is bounded by `MaxCrashes`.

### What the runs leave out

* Updates next to the calendar, and submits of more than one payment per proposal.
  A submit staged by a request that read DISCUSSION over a row that is QUEUED or
  VOTING by then (`serializers_v2.py:837`: neither status nor action is checked
  again) and paid moves the vote to another week, and a tick that read the old row
  ends it then; `VotesKeepTheirWeek` is about one paid submit, and the theorems
  about the calendar say so (`PaidOnce`).
* A form without the lock that puts back a proposal that has left the queue since
  the form read it (`Requeues`). Such a save makes an ended vote QUEUED again, or
  undoes a promoted submit, and nothing in the code prevents it: it breaks
  `OneActivePerAsset`, and a form that dequeues and a stale one that queues can
  book a week twice. `TimelySpec` leaves out that step alone; stale saves over a
  proposal that is still in the queue are in it. Several forms at a time, and
  managers in `one_vote`, are left out of the runs, not of the theorems.
  `PaidBookingHoldsSlot` and `VotesKeepTheirWeek` speak of general proposals.
  `delete_selected` and the add form of a general proposal (which INSERTs an
  unpaid draft, as POST does) are left out.
* The on-chain columns in a form's stale save. `save_model` writes every column of
  the instance, the `onchain_execution_*` columns included, and so could put back
  an execution status, a hash or a lease that a task has moved on since; a row put
  back to PENDING or FAILED may be sent again while its transaction is under way
  (`OneLiveExecution`, `SuccessMeansExecuted`). `AdminEdits` has the columns the
  calendar reads, and `OnchainExecution` has no forms: its properties are about
  executions nobody edits meanwhile.
* The kind of an asset proposal in its payment. The memo commits to the proposal
  type (`memo.py:161`), and the check for a pending twin compares it
  (`serializers_v2.py:65`); the modules of the payments tell general from asset
  proposals (`IsAsset`) and not ADD_ASSET from REMOVE_ASSET, so that a payment for
  one kind passes for the other where account, asset and text agree, and two
  drafts that differ in the kind only count as twins.
* A QUEUED proposal whose week goes by while no tick runs stays QUEUED and keeps
  its asset from being submitted again. No statement of the repository says
  otherwise; `DueVoteStarts` holds vacuously then.
* Votes that count twice: a balance that melts between two pages is listed twice,
  and two runs that overlap may each create a row for one half of a replacement.
  Both rows count, also when one of them is claimed later. `CountedOnce` and
  `KeepsOrigin` are therefore stated for runs that meet neither another run nor a
  change of the ledger (`calm`); `OnlyInTime` and `FrozenStays` hold without that.
* `FreezeCovers` holds without that too, unless another run has given a row the
  freeze had listed to another balance (`Displaced`). Let a row's balance be
  claimed and two other votes of the same key melt. An update pairs that row with
  one replacement and commits; the freeze, which listed the row before, pairs it
  with the other. Of the two updates the freeze then has for the row, its own
  match and the adoption of the row as the update left it, one is carried out, and
  a replacement it has seen is left without a row and a weight. It takes five
  balances to meet this.
* A row whose balance was claimed may be paired by position with the replacement
  of another vote of the same key (`vote_indexing.py:326-344`) and then has its
  weight and the other's date; `KeepsOrigin` is stated while nobody has claimed.
* In indexing: rows without a date, hidden rows, balances of other assets or
  unlock times (they never get into a group); an indexing worker that dies rolls
  back and is in `OnchainExecution`; so is the hold of asset proposals. The two or
  three listings of a proposal are read as one. The branch that keeps a group
  untouched for unresolved replacements (`vote_indexing.py:352-362`) is never
  taken: after pairing, rows or replacements are used up. So is the branch for
  proposals without `end_at`, for which `get_expected_unlock_timestamp` raises.
* Three interleavings are kept out of the runs of `OnchainExecution` by `Roles` or
  by `OrderlySpec`, because properties stated for the rest do not hold
  under them:
  - Polls that overlap (beat queues one every minute) in `execution`: an answer
    FAILED about an old transaction, written on the primary key alone, reopens a
    row that holds a newer one, and a third is sent (`OneLiveExecution`; `overlap`
    checks what does hold).
  - Ticks that overlap: `_finish_due_voting_proposals` takes no lock, both end the
    same vote and each queues a freeze; the later replaces `voted_amount`
    (`FrozenStays`).
  - Two proposals about one token that are executed side by side: what is applied
    to the row last need not be what is included last, and a success marks the
    token SYNCED, "Contract is up to date with DB state" (`models.py:19`), without
    comparing (`SyncedMeansUpToDate`). `OrderlySpec` has no approval of a proposal
    while an execution of another about its token may still reach the contract
    or be reported (`InTurn`). Votes on one asset are at least a week apart, which
    is what keeps executions apart in practice; no statement of the code does. An
    addition and the removal that follows it are in `overlap`.
* The freshness of the supply is a flag of the task that fetched it, while the
  quorum is judged by the row read again under the lock. A concurrent finalization
  whose fetch failed may save the old supply in between
  (`proposal_finalization.py:67`, `:138`). The module has this interleaving; no
  property of the runs is about it.
* `OneLiveExecution` counts only transactions whose hash reached the sender. When
  an answer is lost the row is FAILED and sent again, and the contract is what
  could refuse it.
* `OnchainExecution` has asset proposals only. For a general proposal the decision
  resets the columns, and an incomplete freeze is retried by celery. Votes start
  one at a time and end at any later moment; a submit that goes to VOTING at once
  is in `Promotion`. An indexing run reads Horizon in one step, and the sums over
  the votes are read in one step.
* An operator's answer to REQUIRES_REVIEW is not modelled: it is final here.
* Re-arming with `NONE`, and with `--unhide`. A booked row re-armed to a pending
  action is no longer true occupancy, so its week can be booked again; disarming
  it with `NONE` then yields two proposals in one week. The queue invariants
  therefore hold for a service nobody re-arms booked rows of; `creation` and
  `PaymentUsedOnce` check that the ledger withstands re-arming.

## 4. Findings

* **A stale PUT undoes a promotion** (`lost_update`).
  `ProposalUpdateSerializer.update` (`serializers_v2.py:679`) saves all columns of
  an instance read before validation. If an earlier staged update of the proposal
  is promoted in between, the save restores the replaced `transaction_hash`,
  title, text and version. The promoted hash is then in `ConsumedTransaction`
  only, contrary to the lemma at `consumed_transaction_backfill.py:8-11`; and
  since the replaced hash is in the history table already, no later update or
  submit of that proposal can be applied (the history row's unique hash fails).
* **A verdict on an old copy bars the corrected copy** (`stale_verdict`).
  Re-staging the same hash with corrected content is "the normal recovery"
  (`serializers_v2.py:674-676`). A worker that verified the old copy records
  `BAD_MEMO` afterwards, filtered on the action alone
  (`proposal_transactions.py:126`). The marker equals the pending hash, so the
  sweep leaves the row out as one that "can never resolve differently"
  (`tasks.py:159-160`), although its payment authorises it.
* **A retry decides a vote that is not frozen** (`unfrozen`). PENDING is the
  status of an asset proposal before anything has happened, and the retry selects
  VOTED proposals that are PENDING "from already-frozen data"
  (`tasks.py:474-489`). Between VOTED and the freeze, or for good when the worker
  dies there or the message is lost, it decides on current amounts.

* **Two votes at a time** (`one_vote`). A submit confirmed during its own week
  goes to VOTING at once (`proposal_transactions.py:770-773`) without asking for
  another vote, while the vote of the week before is still VOTING until a tick
  ends it. The start of votes says: "The global voting invariant allows only one
  proposal to be active at a time." (`tasks.py:70`).

## 5. Proofs

The theorems hold for every value of the constants - any number of proposals,
hashes, payments, weeks, workers, ticks, balances, transactions and crashes, any
legacy-memo setting - under the named assumptions on the constants and, where the
table says so, an assumption about how the service is run. Every safety
invariant, action property and refinement that a passing run checks is stated by
one of them; `calendar` checks `NoDoubleBooking` next to the managers' forms as
well, where it is a theorem without them.

| module | theorem | says | assuming |
|---|---|---|---|
| `Promotion_proofs` | `TypeCorrect` | `Spec => []TypeOK` | |
| | `PaymentUsedOnce` | `Spec => []SingleUse` | |
| | `BurnedExactly` | `Spec => []BurnedIffApplied` | |
| | `AppliedWasPaid` | `Spec => []AppliedAuthorised` | |
| | `LedgerRefinement` | `Spec => ImplementsLedger` | |
| `Publication_proofs` | `PublishedIsClean` | `Spec => []PromotedIsClean` | |
| | `PublicationWasPaid` | `Spec => []PublishedWasPaid` | no `--unhide` |
| | `StagedCopyIsOwn` | `Spec => OnlyOwnCopyConsumed` | |
| | `NothingUnpaidIsPublished` | `Spec => NoUnpaidChange` | `FreshSaves` |
| | `BurnedIsRecorded` | `Spec => []BurnedHashIsRecorded` | `FreshSaves` |
| `Booking_proofs` | `WeeksBookedOnce` | `Spec => []NoDoubleBooking` | no re-arming |
| | `AssetsVotedOneByOne` | `Spec => []OneActivePerAsset` | no re-arming |
| | `WeeksReleasedInTime` | `ScheduleSpec => []NoDoubleBooking` | `PaidOnce` |
| | `AssetsVotedOneByOneByTime` | `TimelySpec => []OneActivePerAsset` | `AssetFormsOnly`, no `Requeues` |
| | `VotedInPaidWeek` | `AdminSpec => []VotesKeepTheirWeek` | `PaidOnce`, `AssetFormsOnly` |
| | `PaidSlotHeld` | `AdminSpec => []PaidBookingHoldsSlot` | `PaidOnce`, `AssetFormsOnly` |
| `ExecutionTypes_proofs` | `ExecutionTypes` | `Spec => []TypeOK` | |
| | `FrozenOnce` | `Spec => FrozenStays` | `SingleFinisher` |
| | `SyncedIsUpToDate` | `OrderlySpec => []SyncedMeansUpToDate` | `InTurn` |
| | `ReportsAreTrue` | `Spec => []ReportedWasExecuted` | |
| `Execution_proofs` | `ExecutedOnce` | `Spec => []OneLiveExecution` | `SinglePoller` |
| | `SuccessIsOnChain` | `Spec => []SuccessMeansExecuted` | `SinglePoller` |
| | `ExecutionRefinement` | `Spec => ImplementsSingleExecution` | `SinglePoller` |
| `Indexing_proofs` | `IndexingTypes` | `Spec => []TypeOK` | |
| | `CountedInTime` | `Spec => []OnlyInTime` | |
| | `FrozenForGood` | `Spec => FrozenStays` | |
| `Counting_proofs` | `CountedInOneRow` | `Spec => []CountedOnce` | |
| | `RowsKeepTheirVote` | `Spec => []KeepsOrigin` | |
| | `FrozenCompletely` | `Spec => FreezeCovers` | |

Each assumption names an interleaving under which the property is false, which
the runs leave out or a finding shows:

| assumption | means | without it |
|---|---|---|
| no `--unhide` | no operator brings a rejected creation back to sight | it was never paid |
| `FreshSaves` | no PUT saves public columns that changed after it read them | finding `lost_update` |
| no re-arming | no operator re-arms rows | a booked row leaves the queue's true occupancy (`rearm_proposal_payment_check.py:61`) |
| `PaidOnce` | no proposal has two submits paid and applied | a second one moves its vote (`serializers_v2.py:837`) |
| `AssetFormsOnly` | nobody edits a general proposal by hand, as superusers can | an edit moves the week that was paid for, and a form without the lock saves a stale row |
| `SingleFinisher` | a tick is over before another ends votes | both queue a freeze (`tasks.py:76`) |
| no `Requeues` | no form without the lock puts a proposal back into the queue it has left | a stale save revives an ended vote (`admin.py:159`) |
| `InTurn` | no proposal is approved while another about its token has an execution under way | executed in the other order than applied (`asset_tokens.py:217`) |
| `SinglePoller` | polls do not overlap | a stale FAILED reopens a row (`tasks.py:361`) |
| no form touches an execution | the three modules of the execution have no admin forms | a stale save puts back the `onchain_execution_*` columns (`admin.py:159`) |

`FreshSaves` and `PaidOnce` are conditions on a behaviour (`Spec /\ FreshSaves`,
`ScheduleSpec /\ []PaidOnce`); `Requeues` and `InTurn` are about steps, which
`TimelySpec` and `OrderlySpec` leave out; the last is about the modules; the others
are about constants. The assumptions the modules themselves make of their
constants say what they are: times are natural numbers, a week has two ticks at
least, the value of an empty column is no number (`NullAssumption`).

### Payments

`Promotion_proofs` first shows that every write of a row yields a row. `TypeInv`
strengthens `TypeOK` by what a busy worker holds (`JobOK`): it has a
transition, and an update request has the instance it read.

The ledger's properties are not inductive alone: a promotion writes what its
worker verified in an earlier step. `LedgerInv` adds `VerdictSound` - a worker
about to apply a transition with the verdict FINE holds that very transition,
and its payment has settled and authorises it. `VerdictStep` shows that no
step, of any process, falsifies it: payments never unsettle, a deadlock's retry
drops the verdict, and the transition is frozen. Then only promotions touch the
ledger (`LedgerFrame`), a promotion finds all hashes of its payment unclaimed
(`PromotedPaymentIsNew`), so its payment differs from every payment applied
before, and `LedgerStep` follows. The refinement maps the abstract `spent` to
the payments of the claimed hashes and `log` to `applied`; a promotion is an
abstract `Apply`, every other step a stutter.

### Rows, weeks and assets

`Tables_proofs` sorts the steps by what they do to the tables (`StepKinds`): most
leave them alone or note a verdict (`OnlyVerdicts`); the others commit a staging
request, promote or re-arm. `StagingInv` says what a staging request that is
under way may rest on.

* `CleanInv`: every row, drafts included, is clean when nothing is pending on it
  and it is not hidden: promotions and re-arming reset the markers, verdicts land
  on what they were given on only, and the save of a stale instance stages an
  update.
* `PublicInv`: the published columns of a row (`PublicPaid`) and those of every
  instance a PUT is about to save (`SavedPaid`) come from applied transitions;
  drafts have neither a window nor a staged hash (`DraftsBare`). `LedgerInv` says
  why an applied transition was paid. An operator who unhides a rejected creation
  publishes something nobody paid for, which is what `--unhide` is for; hence the
  assumption.
* `BookingInv`: `SlotsFollow` (a row that occupies a week holds its slot) and
  `SlotsUnique` make the slot table speak for the rows; `PendingOffQueue` keeps
  staged rows off the queue, and so is the stale instance a PUT saves, for it was
  in discussion (`StagingInv`). A promotion looks at the slots under the advisory
  lock and therefore books no week of another row. A re-armed QUEUED row is staged
  and in the queue at once, and the argument and the property fail.
* `AssetInv` adds that drafts are off the queue (`DraftsOffQueue`), so that only
  the submit path, which looks for conflicts under the lock, makes a proposal
  active.
* `CopyInv` adds to `LedgerInv` and `StagingInv` that a request under way holds
  the hash its client presented, and that a proposal that is not in the table
  holds none (`HashesPresented`). A promotion looks at the row again under its
  lock and is given up if the staged copy is another one, so the only step that
  clears a staged hash spends a payment on that very copy (`StagedCopyIsOwn`).
* `NoUnpaidChange` needs no further invariant: by `StepKinds` each step stages
  (the public columns stay), promotes (the payment is spent in this step), re-arms
  (they stay) or saves a whole instance, which `FreshSaves` is about. `RecordInv`,
  which is `BurnedHashIsRecorded` on top of `CopyInv`, is inductive under the same
  assumption: a promotion moves the hash it replaces to the history table.

`CalendarInv` is the inductive invariant of the calendar at work. `OnTime` says of
a row that it left the discussion by a paid submit only, that it is VOTING no
sooner than its week begins and VOTED no sooner than it is over, and that it holds
its slot. `TickSound` says what a tick, which reads rows first and writes them
statements later, may still rely on: the votes it has yet to end are over on the
clock it read, and the vote whose slot it is about to release is VOTED.
Overlapping ticks only ever find the work done. What could falsify `TickSound` is
a row that comes to have another week, or a status the tick did not read: a submit
that is confirmed (excluded for a row in the vote by `PaidOnce`) or a form. A form
writes only the row and the slot of an asset proposal (`FormWrites`), so that
`CalendarInv`, taken over the proposals no form writes, survives managers as well
(`CalendarFormStep`). Before it was proved, the invariant was checked on instances
with two submits of a proposal to pay, two ticks and a manager.

`TimelyAssets` is the invariant of assets next to the forms: no two active
proposals have one asset, every row in the table is shown - so that what the
conflict search blocks is what counts as active - and so is every row a form has
read (`FormsShown`). A promotion and a form that moves the schedule look for a
conflict under the lock; ticks make no row active (`NothingNewActive`); a form
without the lock leaves a row active that still is, or takes it out, as long as it
does not requeue. `Edits` is any set of edits, and a form may be as old as it
likes. For `NoDoubleBooking` this does not suffice, as a stale save also brings
back the week it read; `calendar` checks it for the edits it has.

### Execution

`ExecutionTypes_proofs` follows every write of the columns and every way a
worker goes; its `JobOK` says what a worker holds at each point.

`FreezeInv` says that of the message that asks for the freeze of a vote, the task
that has yet to queue it and the tasks that index and freeze, there is one
(`FreezeAlone`): it begins when a vote is ended and is gone once there is a
snapshot, so that a snapshot is never replaced. A vote that is being ended is
still open (`EndingOpen`), which is where `SingleFinisher` comes in: two ticks
that have read the vote both end it.

`SyncInv` ties the row of a token to the contract through the executions that are
open (`Open`): a transaction, a message or a worker may still reach the contract,
or report. `OneOpen`: of the proposals about a token one is open. `RowFollows`: the
row of the token then says what this proposal wants, for it was approved last.
`HashesTrue`: a hash belongs to a transaction of that very proposal, and an answer
SUCCESS is one the network gave. `ContractFollows`: if a transaction that is yet to
be asked about has succeeded, the contract says what its proposal wants; no other
proposal can have changed it since. So the report that marks a row SYNCED is about
the proposal that row and contract follow. Polls may overlap here: a stale answer
about an old transaction still is an answer about that proposal, and keeps it
open. `InTurn` is what `OneOpen` needs in the step that approves.

`ExecInv` is the inductive invariant about transactions. Every proposal has at
most one worker between its claim and the write that follows (`ClaimsApart`),
because a row is claimed only when it is claimable and, once its lease is over,
ends in review and never is again. `LiveGuarded`: as long as a transaction may
still succeed, whoever sends or polls its proposal has this very transaction, and
the row neither waits to be claimed nor can be decided again. `HashesSent` and
`HashesOwn`: the hash a row names is that of a transaction sent for it.
`ReadsCurrent`: what the poller read is what the row still says; `AnswersTrue`: an
answer about it agrees with the network, whose outcomes are final. So a
transaction is written off only after the network has rejected it, forgotten it,
or the row has gone to review.

`ReadsCurrent` is where `SinglePoller` is needed: nobody but the poller moves a
row out of SUBMITTED or changes the hash in between, and without the assumption
one lemma (`LastReader`) fails, as it must. With two pollers `OneLiveExecution`
is false when three transactions are allowed: an old FAILED reopens a row that
names a newer one (`tasks.py:361`). `SuccessMeansExecuted` is false too, as an
instance with three transactions and a worker of its own for the retry shows: the
reopened row is sent a third time, and the poller that holds the second
transaction's success then marks the row, which names the third by now. What holds
for any number of polls, and is proved next to `SyncedIsUpToDate`, is
`ReportedWasExecuted`: some transaction of the proposal has succeeded.

The refinement maps `chain` to what the network holds for a proposal among the
transactions whose hash is known, and `reported` to the status SUCCESS. A
broadcast is a `Launch` (or a stutter, if it came to nothing or its answer was
lost), an inclusion a `Resolve`, the poller's success a `Report`; the retry's
hand-over of stale rows may only take reports back (`Doubt`), and `QuietSteps`
shows that the other steps change neither.

### Counting votes

The origin of a balance is found by following what it replaces back through the
ledger. `Traceable` says that balances replace only earlier ones; then the trace
exists and is unique (`TraceExists`, `TraceUnique`: the least balance without a
trace, or with two, cannot be), an origin is a balance of the ledger and, as the
ledger only grows, it stays the same (`OriginStays`). `TypeInv` adds this to
`TypeOK`, and that runs have seen, and rows name, balances there are.

`SavedRows` says what any save does to the table, whichever matching it picked:
each row is written with a vote in time or marked claimed, and new rows are
about votes in time. `RowsInTime` follows, and from it `OnlyInTime`.

`FreezeInv` has two parts: at most one run freezes, and while it does the
message is marked as running (`OneFreeze`); no row is weighed before the
freeze is done (`Unweighed`). So the save of the freeze finds no weight to
replace, and no other save writes one.

`Counting_proofs` is about matching. `Lines` says that what a vote melts through
has one key and only the last of it is left. Within a key, what is matched by id,
by origin and by position is one to one, keeps a row that holds a vote that was
seen, and pairs a row and a replacement that alone share an origin. A save then
writes the first update of each row (`RowsListed`: no balance has two rows,
neither in the table nor in any run's list) and adds one row for each balance left
over.

* `FrozenCompletely` follows each vote the freeze saw to the row it is matched
  with, the row another run has committed for it meanwhile, or a row of its own.
  It needs no calm. It does need that no listed row was displaced: proving it
  showed that the property is false otherwise, on an instance larger than that of
  `indexing`.
* `CalmRuns` says that while all is calm there is at most one run, what it has
  seen is what is left of the ledger, and its rows are the table's. Then a row is
  matched with what is left of its own vote if anything is (`OriginMatched`), so
  no vote comes into a second row (`OncePerOrigin`), and, as something is left of
  every vote while nobody claims, no row gets another's (`OriginKept`).

### Only model-checked

* All liveness: `PaidIsPromoted`, `DueVoteStarts`, `OverdueVoteEnds`, `Converges`,
  `FreezeHappens`, `InFlightResolves`. Fairness and ENABLED are beyond the proof
  system used here.
* `NoDoubleBooking` next to the managers' forms (in `calendar`), which holds for the
  edits of that run and not for all.
* The four expected violations, which are counterexamples and stand for
  themselves.

## 6. Plan

Done: the payment core, the calendar with the beat and the managers' forms, the
counting of votes, the way from a vote to the registry and the abstract
execution it implements, and the theorems above, which state every safety
property the runs check.

Left, in this order:

1. `NoDoubleBooking` next to forms, for the edits that are locked.
2. Updates next to the calendar and a second paid submit of one proposal; the
   execution columns in the forms.
3. Pure functions against reference definitions: queue calendar in seconds,
   memo grammar, unlock rules.

Not planned: filters, pagination, read serializers, health check, templates
and migrations (pure reads, formatting, one-off scripts), and the repair and
backfill commands, which are run by hand while writers are paused.
