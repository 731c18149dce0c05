-------------------------- MODULE OnchainExecution ---------------------------
(***************************************************************************)
(* From the end of a vote to the asset registry: freezing the tally,       *)
(* deciding on it, sending the transaction under a lease, polling it,      *)
(* retrying and handing over to review.                                    *)
(*                                                                         *)
(* Celery workers are processes.  A step is one statement or one           *)
(* transaction of the database, or one call of Horizon, the supply         *)
(* endpoint or Soroban; a worker may die between any two.                  *)
(***************************************************************************)
EXTENDS ExecutionRows, Sequences, FiniteSets

CONSTANTS
  Workers,
  Roles,        \* the kinds of task each worker takes
  MaxLost,      \* bound on sends that raise although the network accepted them
  MaxCrashes    \* bound on worker deaths

Kinds == {"results", "send", "poll", "retry", "finish"}

ASSUME WorkersAssumption ==
  /\ Roles \in [Workers -> SUBSET Kinds]
  /\ MaxLost \in Nat
  /\ MaxCrashes \in Nat

VARIABLES
  status,    \* Proposal.proposal_status, as far as the vote has got
  execs,     \* the onchain_execution columns
  results,   \* the vote_*_result and ice_circulating_supply columns
  votes,     \* LogVote: what the amounts and the voted_amounts add up to
  tokens,    \* the AssetToken table
  messages,  \* celery messages nobody has taken yet
  jobs,      \* what every worker is doing
  ballots,   \* what Horizon shows of the votes
  sent,      \* the transactions handed to the network, in order
  registry,  \* the contract's allowed flag of every asset
  decided,   \* history variable: what the last approval of a proposal rested on
  crashes

database == <<status, execs, results, votes, tokens>>
outside  == <<ballots, sent, registry>>
vars     == <<database, messages, jobs, outside, decided, crashes>>

Message ==
  [kind : {"results"}, proposal : Proposals, freezing : BOOLEAN]
    \cup [kind : {"send"}, proposal : Proposals, freezing : {FALSE}]

Results(p, freezing) == [kind |-> "results", proposal |-> p, freezing |-> freezing]
Send(p)              == [kind |-> "send", proposal |-> p, freezing |-> FALSE]

Transaction == [proposal : Proposals,
                state    : {"PENDING", "SUCCESS", "FAILED", "GONE"},
                known    : BOOLEAN]  \* its hash reached the sender

(* A row as a poll read it. *)
Snapshot == [proposal : Proposals, tx_hash : Tx, polls : 0..MaxPolls]

(* A worker between two steps: the proposal it works on, the ones it has   *)
(* yet to visit, and what it has read so far.                              *)
Job ==
  [pc       : {"idle", "index", "snapshot", "hold", "tally", "save", "decide", "enqueue",
               "send", "submitted", "send failed", "note hash", "note failure",
               "poll", "answered", "note poll", "mark", "list", "next", "finish", "freeze"},
   proposal : Proposals \cup {NULL},
   freezing : BOOLEAN,
   result   : Result \cup {NULL},   \* what it counted, and the supply it read
   tally    : Tally \cup {NULL},    \* what Horizon showed it
   fresh    : BOOLEAN,              \* has_fresh_ice_supply
   tx       : Tx \cup {NULL},
   answer   : {NULL, "SUCCESS", "FAILED", "NOT_FOUND", "ERROR"},
   read     : Snapshot \cup {NULL},
   todo     : SUBSET Snapshot,
   rest     : SUBSET Proposals]

IdleJob ==
  [pc |-> "idle", proposal |-> NULL, freezing |-> FALSE, result |-> NULL, tally |-> NULL,
   fresh |-> FALSE, tx |-> NULL, answer |-> NULL, read |-> NULL, todo |-> {}, rest |-> {}]

Job1(pc, p) == [IdleJob EXCEPT !.pc = pc, !.proposal = p]

Init ==
  /\ status = [p \in Proposals |-> "QUEUED"]
  /\ execs = [p \in Proposals |-> Fresh("PENDING")]
  /\ \E t \in Tally, s \in Supply :
       /\ votes = [p \in Proposals |-> [current |-> t, frozen |-> NULL]]
       /\ ballots = [p \in Proposals |-> t]
       /\ results = [p \in Proposals |-> [tally |-> t, frozen |-> FALSE, supply |-> s]]
  /\ tokens = [k \in Tokens |-> [whitelisted |-> FALSE, sync |-> "SYNCED", sync_tx |-> NULL]]
  /\ messages = {}
  /\ jobs = [w \in Workers |-> IdleJob]
  /\ sent = <<>>
  /\ registry = [k \in Tokens |-> FALSE]
  /\ decided = [p \in Proposals |-> NULL]
  /\ crashes = 0

-----------------------------------------------------------------------------
(* The world: votes are cast and melt, transactions are included or time   *)
(* out, leases run out.                                                    *)

Vote(p, t) ==
  /\ ballots[p] # t
  /\ ballots' = [ballots EXCEPT ![p] = t]
  /\ UNCHANGED <<database, messages, jobs, sent, registry, decided, crashes>>

(* One whose hash was lost nobody asks about: it succeeds or it does not.  *)
Include(i, outcome) ==
  /\ i \in DOMAIN sent
  /\ sent[i].state = "PENDING"
  /\ outcome = "FAILED" => sent[i].known
  /\ sent' = [sent EXCEPT ![i].state = outcome]
  /\ registry' = IF outcome = "SUCCESS"
                 THEN [registry EXCEPT ![TokenOf[sent[i].proposal]] = sent[i].proposal \in Adds]
                 ELSE registry
  /\ UNCHANGED <<database, messages, jobs, ballots, decided, crashes>>

LeaseEnds(p) ==
  /\ execs[p].started = "within lease"
  /\ execs' = [execs EXCEPT ![p].started = "lease over"]
  /\ UNCHANGED <<status, results, votes, tokens, messages, jobs, outside, decided, crashes>>

-----------------------------------------------------------------------------
(* How a worker takes up and leaves a task. *)

Goes(w, job) == jobs' = [jobs EXCEPT ![w] = job]

At(w, pc) == jobs[w].pc = pc

Free(w, kind) == jobs[w] = IdleJob /\ kind \in Roles[w]

(* On to the next row of a task that loops over rows, or done. *)
Onward(w) ==
  Goes(w, IF jobs[w].rest # {} THEN [IdleJob EXCEPT !.pc = "next", !.rest = jobs[w].rest] ELSE IdleJob)

NextSnapshot(w) ==
  LET todo == jobs[w].todo \ {jobs[w].read}
  IN  Goes(w, IF todo # {} THEN [IdleJob EXCEPT !.pc = "poll", !.todo = todo] ELSE IdleJob)

(* The message is acknowledged when it is taken, so a crash loses it. *)
Take(w, m) ==
  /\ m \in messages
  /\ Free(w, m.kind)
  /\ messages' = messages \ {m}

-----------------------------------------------------------------------------
(* The beat starts a vote when no other is under way, and ends it.  Ending *)
(* reads the rows first and saves one after the other.                     *)

StartVote(p) ==
  /\ status[p] = "QUEUED"
  /\ \A q \in Proposals : status[q] # "VOTING"
  /\ status' = [status EXCEPT ![p] = "VOTING"]
  /\ UNCHANGED <<execs, results, votes, tokens, messages, jobs, outside, decided, crashes>>

StartFinish(w) ==
  /\ Free(w, "finish")
  /\ \E ended \in SUBSET {p \in Proposals : status[p] = "VOTING"} :
       /\ ended # {}
       /\ Goes(w, [IdleJob EXCEPT !.pc = "finish", !.rest = ended])
  /\ UNCHANGED <<database, messages, outside, decided, crashes>>

FinishVote(w, p) ==
  /\ At(w, "finish")
  /\ p \in jobs[w].rest
  /\ status' = [status EXCEPT ![p] = "VOTED"]
  /\ Goes(w, [jobs[w] EXCEPT !.pc = "freeze", !.proposal = p, !.rest = @ \ {p}])
  /\ UNCHANGED <<execs, results, votes, tokens, messages, outside, decided, crashes>>

EnqueueFreeze(w) ==
  /\ At(w, "freeze")
  /\ messages' = messages \cup {Results(jobs[w].proposal, TRUE)}
  /\ Goes(w, IF jobs[w].rest # {} THEN [IdleJob EXCEPT !.pc = "finish", !.rest = jobs[w].rest] ELSE IdleJob)
  /\ UNCHANGED <<database, outside, decided, crashes>>

(* task_update_active_proposals; a message that no worker ever takes is    *)
(* left out.                                                               *)
EnqueueUpdate(p) ==
  /\ status[p] = "VOTING"
  /\ \E w \in Workers : "results" \in Roles[w]
  /\ messages' = messages \cup {Results(p, FALSE)}
  /\ UNCHANGED <<database, jobs, outside, decided, crashes>>

-----------------------------------------------------------------------------
(* task_update_proposal_results: index the votes, then finalize.           *)

StartResults(w, m) ==
  /\ m.kind = "results"
  /\ Take(w, m)
  /\ Goes(w, [Job1("index", m.proposal) EXCEPT !.freezing = m.freezing])
  /\ UNCHANGED <<database, outside, decided, crashes>>

ReadBallots(w) ==
  /\ At(w, "index")
  /\ Goes(w, [jobs[w] EXCEPT !.pc = "snapshot", !.tally = ballots[jobs[w].proposal]])
  /\ UNCHANGED <<database, messages, outside, decided, crashes>>

(* Horizon is unreachable, or a balance's origin stays unresolved; without *)
(* freezing only the latter is caught.                                     *)
IndexingFails(w) ==
  /\ At(w, "index")
  /\ \/ Goes(w, [jobs[w] EXCEPT !.pc = "hold"])
     \/ ~jobs[w].freezing /\ Goes(w, IdleJob)
  /\ UNCHANGED <<database, messages, outside, decided, crashes>>

(* Faulty variant: an update that does not freeze clears the snapshot. *)
SaveAndThaw(w) ==
  LET p == jobs[w].proposal
      t == jobs[w].tally
  IN  /\ At(w, "snapshot")
      /\ votes' = [votes EXCEPT ![p] = [current |-> t, frozen |-> IF jobs[w].freezing THEN t ELSE NULL]]
      /\ Goes(w, Job1("tally", p))
      /\ UNCHANGED <<status, execs, results, tokens, messages, outside, decided, crashes>>

SaveSnapshot(w) ==
  LET p == jobs[w].proposal
      t == jobs[w].tally
  IN  /\ At(w, "snapshot")
      /\ votes' = [votes EXCEPT ![p] = [current |-> t, frozen |-> IF jobs[w].freezing THEN t ELSE @.frozen]]
      /\ Goes(w, Job1("tally", p))
      /\ UNCHANGED <<status, execs, results, tokens, messages, outside, decided, crashes>>

Hold(w) ==
  LET p == jobs[w].proposal
      k == TokenOf[p]
      held == status[p] = "VOTED" /\ Untouched(execs[p])
  IN  /\ At(w, "hold")
      /\ execs' = IF held THEN [execs EXCEPT ![p] = InReview(@)] ELSE execs
      /\ tokens' = IF held THEN [tokens EXCEPT ![k] = HeldToken(@)] ELSE tokens
      /\ Goes(w, IdleJob)
      /\ UNCHANGED <<status, results, votes, messages, outside, decided, crashes>>

(* _sum_votes_for_proposal: a row without a snapshot counts with its       *)
(* current amount.                                                         *)
Counted(p) ==
  IF status[p] = "VOTED" /\ votes[p].frozen # NULL
  THEN [tally |-> votes[p].frozen, frozen |-> TRUE, supply |-> results[p].supply]
  ELSE [tally |-> votes[p].current, frozen |-> FALSE, supply |-> results[p].supply]

CountVotes(w) ==
  /\ At(w, "tally")
  /\ Goes(w, [jobs[w] EXCEPT !.pc = "save", !.result = Counted(jobs[w].proposal)])
  /\ UNCHANGED <<database, messages, outside, decided, crashes>>

(* Without an answer of the endpoint the supply read before is saved.      *)
SaveResults(w) ==
  /\ At(w, "save")
  /\ \E fresh \in BOOLEAN, s \in Supply :
       LET result == IF fresh THEN [jobs[w].result EXCEPT !.supply = s] ELSE jobs[w].result
       IN  /\ results' = [results EXCEPT ![jobs[w].proposal] = result]
           /\ Goes(w, [jobs[w] EXCEPT !.pc = "decide", !.result = result, !.fresh = fresh])
  /\ UNCHANGED <<status, execs, votes, tokens, messages, outside, decided, crashes>>

(* _execute_onchain_action_if_needed, under the row lock, on the columns   *)
(* as they are by now.                                                     *)
Undecided(w) ==
  /\ At(w, "decide")
  /\ status[jobs[w].proposal] = "VOTED"
  /\ ~Decided(execs[jobs[w].proposal])

Leave(w) ==
  /\ At(w, "decide")
  /\ ~Undecided(w)
  /\ Onward(w)
  /\ UNCHANGED <<database, messages, outside, decided, crashes>>

(* No fresh supply, or the token row could not be written. *)
FailDecision(w) ==
  LET p == jobs[w].proposal
  IN  /\ Undecided(w)
      /\ ~jobs[w].fresh \/ Passes(results[p])
      /\ execs' = [execs EXCEPT ![p] = Fresh("FAILED")]
      /\ Onward(w)
      /\ UNCHANGED <<status, results, votes, tokens, messages, outside, decided, crashes>>

SkipExecution(w) ==
  LET p == jobs[w].proposal
  IN  /\ Undecided(w)
      /\ jobs[w].fresh
      /\ ~Passes(results[p])
      /\ execs' = [execs EXCEPT ![p] = Fresh("SKIPPED")]
      /\ Onward(w)
      /\ UNCHANGED <<status, results, votes, tokens, messages, outside, decided, crashes>>

Approve(w) ==
  LET p == jobs[w].proposal
  IN  /\ Undecided(w)
      /\ jobs[w].fresh
      /\ Passes(results[p])
      /\ tokens' = [tokens EXCEPT ![TokenOf[p]] = WithResult(@, p)]
      /\ execs' = [execs EXCEPT ![p] = Fresh("PENDING")]
      /\ decided' = [decided EXCEPT ![p] = results[p]]
      /\ Goes(w, [jobs[w] EXCEPT !.pc = "enqueue"])
      /\ UNCHANGED <<status, results, votes, messages, outside, crashes>>

EnqueueSend(w) ==
  /\ At(w, "enqueue")
  /\ messages' = messages \cup {Send(jobs[w].proposal)}
  /\ Onward(w)
  /\ UNCHANGED <<database, outside, decided, crashes>>

-----------------------------------------------------------------------------
(* task_execute_onchain_action_send. *)

StartSend(w, m) ==
  LET p == m.proposal
      claims == status[p] = "VOTED" /\ Claimable(execs[p])
  IN  /\ m.kind = "send"
      /\ Take(w, m)
      /\ execs' = IF claims THEN [execs EXCEPT ![p] = Claimed(@)] ELSE execs
      /\ Goes(w, IF claims THEN Job1("send", p) ELSE IdleJob)
      /\ UNCHANGED <<status, results, votes, tokens, outside, decided, crashes>>

(* The network takes the transaction, or answers TRY_AGAIN_LATER, which    *)
(* the hook takes for success; its answer may be lost on the way.          *)
Broadcast(w) ==
  /\ At(w, "send")
  /\ Len(sent) < MaxTx
  /\ \E state \in {"PENDING", "GONE"}, known \in BOOLEAN :
       /\ ~known => state = "PENDING" /\ Cardinality({i \in DOMAIN sent : ~sent[i].known}) < MaxLost
       /\ sent' = Append(sent, [proposal |-> jobs[w].proposal, state |-> state, known |-> known])
       /\ Goes(w, IF known
                  THEN [jobs[w] EXCEPT !.pc = "submitted", !.tx = Len(sent) + 1]
                  ELSE [jobs[w] EXCEPT !.pc = "send failed"])
  /\ UNCHANGED <<database, messages, ballots, registry, decided, crashes>>

(* The simulation failed, or both attempts were refused. *)
NotSent(w) ==
  /\ At(w, "send")
  /\ Goes(w, [jobs[w] EXCEPT !.pc = "send failed"])
  /\ UNCHANGED <<database, messages, outside, decided, crashes>>

WriteSubmitted(w) ==
  /\ At(w, "submitted")
  /\ execs' = [execs EXCEPT ![jobs[w].proposal] = Submitted(@, jobs[w].tx)]
  /\ Goes(w, [jobs[w] EXCEPT !.pc = "note hash"])
  /\ UNCHANGED <<status, results, votes, tokens, messages, outside, decided, crashes>>

WriteSendFailed(w) ==
  /\ At(w, "send failed")
  /\ execs' = [execs EXCEPT ![jobs[w].proposal] = SendFailed(@)]
  /\ Goes(w, [jobs[w] EXCEPT !.pc = "note failure"])
  /\ UNCHANGED <<status, results, votes, tokens, messages, outside, decided, crashes>>

NoteSend(w) ==
  LET k == TokenOf[jobs[w].proposal]
  IN  /\ \/ At(w, "note hash") /\ tokens' = [tokens EXCEPT ![k].sync_tx = jobs[w].tx]
         \/ At(w, "note failure") /\ tokens' = [tokens EXCEPT ![k].sync = "FAILED"]
      /\ Goes(w, IdleJob)
      /\ UNCHANGED <<status, execs, results, votes, messages, outside, decided, crashes>>

-----------------------------------------------------------------------------
(* task_poll_submitted_onchain_executions. *)

Pollable == {p \in Proposals : status[p] = "VOTED" /\ execs[p].status = "SUBMITTED" /\ execs[p].tx_hash # NULL}

StartPoll(w) ==
  /\ Free(w, "poll")
  /\ Pollable # {}
  /\ Goes(w, [IdleJob EXCEPT
                !.pc = "poll",
                !.todo = {[proposal |-> p, tx_hash |-> execs[p].tx_hash, polls |-> execs[p].polls] :
                            p \in Pollable}])
  /\ UNCHANGED <<database, messages, outside, decided, crashes>>

SorobanAnswers(tx) ==
  {IF sent[tx].state \in {"SUCCESS", "FAILED"} THEN sent[tx].state ELSE "NOT_FOUND", "ERROR"}

AskSoroban(w) ==
  /\ At(w, "poll")
  /\ \E read \in jobs[w].todo : \E answer \in SorobanAnswers(read.tx_hash) :
       Goes(w, [jobs[w] EXCEPT !.pc = "answered", !.read = read, !.proposal = read.proposal, !.answer = answer])
  /\ UNCHANGED <<database, messages, outside, decided, crashes>>

(* Faulty variant: a hash the network has forgotten counts as a success. *)
SyncedUnlessFailed(w) ==
  LET p == jobs[w].proposal
  IN  /\ At(w, "answered")
      /\ jobs[w].answer \in {"SUCCESS", "NOT_FOUND"}
      /\ IF execs[p].status = "SUBMITTED"
         THEN /\ execs' = [execs EXCEPT ![p].status = "SUCCESS"]
              /\ tokens' = [tokens EXCEPT ![TokenOf[p]].sync = "SYNCED"]
         ELSE UNCHANGED <<execs, tokens>>
      /\ NextSnapshot(w)
      /\ UNCHANGED <<status, results, votes, messages, outside, decided, crashes>>

(* _sync_asset_token_on_success, in one transaction under the row lock. *)
Synced(w) ==
  LET p == jobs[w].proposal
  IN  /\ At(w, "answered")
      /\ jobs[w].answer = "SUCCESS"
      /\ IF execs[p].status = "SUBMITTED"
         THEN /\ execs' = [execs EXCEPT ![p].status = "SUCCESS"]
              /\ tokens' = [tokens EXCEPT ![TokenOf[p]].sync = "SYNCED"]
         ELSE UNCHANGED <<execs, tokens>>
      /\ NextSnapshot(w)
      /\ UNCHANGED <<status, results, votes, messages, outside, decided, crashes>>

WritePollFailed(w) ==
  LET p == jobs[w].proposal
  IN  /\ At(w, "answered")
      /\ jobs[w].answer = "FAILED"
      /\ execs' = [execs EXCEPT ![p] = PollFailed(@, jobs[w].read.polls)]
      /\ Goes(w, [jobs[w] EXCEPT !.pc = "note poll"])
      /\ UNCHANGED <<status, results, votes, tokens, messages, outside, decided, crashes>>

(* No answer, an unknown hash, or a success the database refused to note.  *)
WritePolled(w) ==
  LET p == jobs[w].proposal
      polls == jobs[w].read.polls
  IN  /\ At(w, "answered")
      /\ jobs[w].answer # "FAILED"
      /\ execs' = [execs EXCEPT ![p] = Polled(@, polls)]
      /\ IF Exhausted(polls)
         THEN Goes(w, [jobs[w] EXCEPT !.pc = "note poll"])
         ELSE NextSnapshot(w)
      /\ UNCHANGED <<status, results, votes, tokens, messages, outside, decided, crashes>>

NotePoll(w) ==
  /\ At(w, "note poll")
  /\ tokens' = [tokens EXCEPT ![TokenOf[jobs[w].proposal]].sync =
                  IF jobs[w].answer = "FAILED" THEN "FAILED" ELSE "REQUIRES_REVIEW"]
  /\ NextSnapshot(w)
  /\ UNCHANGED <<status, execs, results, votes, messages, outside, decided, crashes>>

-----------------------------------------------------------------------------
(* task_retry_failed_onchain_executions. *)

Stale == {p \in Proposals : status[p] = "VOTED" /\ LeaseOver(execs[p])}

(* Faulty variant: an approval whose message was lost is not retried. *)
RetryableFailed == {p \in Proposals : status[p] = "VOTED" /\ execs[p].status = "FAILED"}

Retryable == {p \in Proposals : status[p] = "VOTED" /\ execs[p].status \in {"FAILED", "PENDING"}}

StartRetry(w) ==
  /\ Free(w, "retry")
  /\ Stale \cup Retryable # {}
  /\ Goes(w, [IdleJob EXCEPT !.pc = "mark", !.rest = Stale])
  /\ UNCHANGED <<database, messages, outside, decided, crashes>>

(* The update goes by the primary keys selected before. *)
MarkStale(w) ==
  /\ At(w, "mark")
  /\ execs' = [p \in Proposals |-> IF p \in jobs[w].rest THEN InReview(execs[p]) ELSE execs[p]]
  /\ Goes(w, [IdleJob EXCEPT !.pc = "list"])
  /\ UNCHANGED <<status, results, votes, tokens, messages, outside, decided, crashes>>

ListRetries(w) ==
  /\ At(w, "list")
  /\ Goes(w, IF Retryable # {} THEN [IdleJob EXCEPT !.pc = "next", !.rest = Retryable] ELSE IdleJob)
  /\ UNCHANGED <<database, messages, outside, decided, crashes>>

(* The youngest proposal first. *)
NextRetry(w, p) ==
  /\ At(w, "next")
  /\ p \in jobs[w].rest
  /\ \A q \in jobs[w].rest : q <= p
  /\ Goes(w, [Job1("tally", p) EXCEPT !.rest = jobs[w].rest \ {p}])
  /\ UNCHANGED <<database, messages, outside, decided, crashes>>

-----------------------------------------------------------------------------
Crash(w) ==
  /\ jobs[w] # IdleJob
  /\ crashes < MaxCrashes
  /\ crashes' = crashes + 1
  /\ Goes(w, IdleJob)
  /\ UNCHANGED <<database, messages, outside, decided>>

Finish(w)   == (\E p \in Proposals : FinishVote(w, p)) \/ EnqueueFreeze(w)
Index(w)    == ReadBallots(w) \/ IndexingFails(w) \/ SaveSnapshot(w) \/ Hold(w)
Finalize(w) == \/ CountVotes(w) \/ SaveResults(w)
               \/ Leave(w) \/ FailDecision(w) \/ SkipExecution(w) \/ Approve(w)
               \/ EnqueueSend(w)
SendSteps(w) == \/ Broadcast(w) \/ NotSent(w)
                \/ WriteSubmitted(w) \/ WriteSendFailed(w) \/ NoteSend(w)
Poll(w)     == AskSoroban(w) \/ Synced(w) \/ WritePollFailed(w) \/ WritePolled(w) \/ NotePoll(w)
Retry(w)    == MarkStale(w) \/ ListRetries(w) \/ \E p \in Proposals : NextRetry(w, p)

Working(w) == Finish(w) \/ Index(w) \/ Finalize(w) \/ SendSteps(w) \/ Poll(w) \/ Retry(w)

Next ==
  \/ \E p \in Proposals : StartVote(p) \/ EnqueueUpdate(p) \/ LeaseEnds(p) \/ \E t \in Tally : Vote(p, t)
  \/ \E i \in Tx, outcome \in {"SUCCESS", "FAILED", "GONE"} : Include(i, outcome)
  \/ \E w \in Workers :
       \/ \E m \in messages : StartResults(w, m) \/ StartSend(w, m)
       \/ StartFinish(w) \/ StartPoll(w) \/ StartRetry(w)
       \/ Working(w)
       \/ Crash(w)

Spec == Init /\ [][Next]_vars

(* Beat queues every periodic task again and again and the workers take    *)
(* what is queued in turn; a task under way takes its next step; a lease   *)
(* runs out.                                                               *)
Fairness ==
  /\ \A w \in Workers :
       /\ WF_vars(Working(w))
       /\ SF_vars(StartPoll(w))
       /\ SF_vars(StartRetry(w))
       /\ \A p \in Proposals : SF_vars(StartSend(w, Send(p)))
  /\ \A p \in Proposals : WF_vars(LeaseEnds(p))

FairSpec == Spec /\ Fairness

(* An execution of p may still reach the contract, or be reported.         *)
Open(p) ==
  \/ Send(p) \in messages
  \/ execs[p].status = "SUBMITTED"
  \/ \E w \in Workers :
       \/ jobs[w].pc \in {"enqueue", "send", "submitted"} /\ jobs[w].proposal = p
       \/ \E s \in jobs[w].todo : s.proposal = p
  \/ \E i \in DOMAIN sent : sent[i].proposal = p /\ sent[i].state = "PENDING"

(* The proposals about a token are executed one after another: none is     *)
(* approved, or approved again, while an execution of another is open.     *)
(* Nothing in the code sees to it but the weeks between two votes.         *)
InTurn ==
  \A w \in Workers : Approve(w) =>
    \A q \in Proposals \ {jobs[w].proposal} :
      TokenOf[q] = TokenOf[jobs[w].proposal] => ~Open(q)

OrderlySpec == Init /\ [][Next /\ InTurn]_vars

-----------------------------------------------------------------------------
(* Properties.                                                             *)

(* Every variable ranges over the values the tables and the workers hold.  *)
TypeOK ==
  /\ status \in [Proposals -> {"QUEUED", "VOTING", "VOTED"}]
  /\ execs \in [Proposals -> Execution]
  /\ results \in [Proposals -> Result]
  /\ votes \in [Proposals -> [current : Tally, frozen : Tally \cup {NULL}]]
  /\ tokens \in [Tokens -> TokenRow]
  /\ messages \subseteq Message
  /\ jobs \in [Workers -> Job]
  /\ ballots \in [Proposals -> Tally]
  /\ sent \in Seq(Transaction) /\ Len(sent) <= MaxTx
  /\ registry \in [Tokens -> BOOLEAN]
  /\ decided \in [Proposals -> Result \cup {NULL}]
  /\ crashes \in 0..MaxCrashes

(* A transaction that can still count, or has. *)
Live(i) == sent[i].known /\ sent[i].state \in {"PENDING", "SUCCESS"}

(* A proposal is executed once: of its transactions whose hash reached the *)
(* sender, at most one is still due or has succeeded, whatever the retry,  *)
(* the lease and the poll do meanwhile.                                    *)
OneLiveExecution ==
  \A i, j \in DOMAIN sent :
    Live(i) /\ Live(j) /\ sent[i].proposal = sent[j].proposal => i = j

(* A proposal is reported as executed only if one of its transactions has  *)
(* succeeded on chain, though polls overlap and a stale answer is about an *)
(* earlier one.                                                            *)
ReportedWasExecuted ==
  \A p \in Proposals :
    execs[p].status = "SUCCESS" =>
      \E i \in DOMAIN sent : sent[i].proposal = p /\ sent[i].state = "SUCCESS"

(* While polls do not overlap, it is the very transaction the row names.   *)
SuccessMeansExecuted ==
  \A p \in Proposals :
    execs[p].status = "SUCCESS" =>
      execs[p].tx_hash # NULL /\ sent[execs[p].tx_hash].state = "SUCCESS"

(* The abstract execution this machinery implements. *)
Holds(p, state) == \E i \in DOMAIN sent : sent[i].known /\ sent[i].proposal = p /\ sent[i].state = state

OnChain(p) ==
  CASE Holds(p, "SUCCESS") -> "executed"
    [] Holds(p, "PENDING") /\ ~Holds(p, "SUCCESS") -> "pending"
    [] OTHER -> "nothing"

Chain    == [p \in Proposals |-> OnChain(p)]
Reported == [p \in Proposals |-> execs[p].status = "SUCCESS"]

Promise == INSTANCE SingleExecution WITH chain <- Chain, reported <- Reported

(* No step sends a proposal's transaction while another of it may succeed  *)
(* or has succeeded, and none reports one that has not: across claims,     *)
(* leases, retries, hand-overs and lost answers the service keeps to       *)
(* SingleExecution.                                                        *)
ImplementsSingleExecution == Promise!Spec

(* CONTRACT_SYNC_SYNCED, "Contract is up to date with DB state": through   *)
(* additions and removals of a token that follow one another, with failed  *)
(* transactions, retries, lost answers and stale polls in each.            *)
SyncedMeansUpToDate == \A k \in Tokens : tokens[k].sync = "SYNCED" => tokens[k].whitelisted = registry[k]

(* A snapshot of the votes is taken once: no indexing that began before,   *)
(* and no retry after, replaces it.                                        *)
FrozenStays ==
  [][\A p \in Proposals : votes[p].frozen # NULL => votes'[p].frozen = votes[p].frozen]_vars

(* What a retry says of itself: it recomputes the result "from             *)
(* already-frozen data", so nothing is approved on a tally that is not.    *)
DecidedOnFrozenTally == \A p \in Proposals : decided[p] # NULL => decided[p].frozen

(* Nothing lingers: an execution that is due, under way or submitted       *)
(* succeeds, fails, is dropped or ends up with the operators, though       *)
(* workers die and answers get lost.                                       *)
InFlightResolves ==
  \A p \in Proposals :
    status[p] = "VOTED" /\ execs[p].status \in {"PENDING", "IN_PROGRESS", "SUBMITTED"} ~>
      execs[p].status \in {"SUCCESS", "FAILED", "SKIPPED", "REQUIRES_REVIEW"}
=============================================================================
