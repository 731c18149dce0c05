------------------------ MODULE ExecutionTypes_proofs ------------------------
(***************************************************************************)
(* What holds of the on-chain execution however polls overlap, for every   *)
(* number of proposals, workers and transactions: the types, the frozen    *)
(* tally and the registry row of a token.                                  *)
(***************************************************************************)
EXTENDS OnchainExecution, TLAPS

-----------------------------------------------------------------------------
(* What a worker holds at each of its steps. *)
Placed == {"index", "snapshot", "hold", "tally", "save", "decide", "enqueue",
           "send", "submitted", "send failed", "note hash", "note failure",
           "answered", "note poll", "freeze"}

JobOK(job) ==
  /\ job \in Job
  /\ job.pc \in Placed => job.proposal \in Proposals
  /\ job.pc = "snapshot" => job.tally \in Tally
  /\ job.pc = "save" => job.result \in Result
  /\ job.pc \in {"submitted", "note hash"} => job.tx \in Tx
  /\ job.pc \in {"answered", "note poll"} => job.read \in job.todo /\ job.proposal = job.read.proposal
  /\ job.pc \notin {"poll", "answered", "note poll"} => job.todo = {}
  /\ \A s \in job.todo : s.polls < MaxPolls

JobsOK == jobs \in [Workers -> Job] /\ \A w \in Workers : JobOK(jobs[w])

(* A transaction that is polled has polls left. *)
PollsLeft == \A p \in Proposals : execs[p].status = "SUBMITTED" => execs[p].polls < MaxPolls

TypeInv == TypeOK /\ JobsOK /\ PollsLeft

(* The tables and the outside, without the jobs. *)
TablesOK ==
  /\ status \in [Proposals -> {"QUEUED", "VOTING", "VOTED"}]
  /\ execs \in [Proposals -> Execution]
  /\ results \in [Proposals -> Result]
  /\ votes \in [Proposals -> [current : Tally, frozen : Tally \cup {NULL}]]
  /\ tokens \in [Tokens -> TokenRow]
  /\ messages \subseteq Message
  /\ ballots \in [Proposals -> Tally]
  /\ sent \in Seq(Transaction) /\ Len(sent) <= MaxTx
  /\ registry \in [Tokens -> BOOLEAN]
  /\ decided \in [Proposals -> Result \cup {NULL}]
  /\ crashes \in 0..MaxCrashes

(* The two halves of the type invariant. *)
LEMMA TypeParts == TypeInv <=> TablesOK /\ JobsOK /\ PollsLeft
  BY DEF TypeInv, TypeOK, TablesOK, JobsOK

(* A worker with nothing to do is in order. *)
LEMMA IdleJobOK == JobOK(IdleJob)
  BY DEF JobOK, IdleJob, Job, Placed

(* So is one that takes up a proposal. *)
LEMMA Job1OK ==
  ASSUME NEW p \in Proposals, NEW pc \in {"index", "tally", "send"}
  PROVE  JobOK(Job1(pc, p))
  BY DEF JobOK, Job1, IdleJob, Job, Placed

(* And one that loops over rows. *)
LEMMA LoopJobOK ==
  ASSUME NEW rest \in SUBSET Proposals, NEW pc \in {"finish", "mark", "next"}
  PROVE  JobOK([IdleJob EXCEPT !.pc = pc, !.rest = rest])
  BY DEF JobOK, IdleJob, Job, Placed

(* A worker that goes on in order keeps all in order. *)
LEMMA GoesOK ==
  ASSUME JobsOK, NEW w \in Workers, NEW job, JobOK(job), Goes(w, job)
  PROVE  JobsOK'
  BY DEF JobsOK, JobOK, Goes

(* So does one that goes on to the next row of its loop. *)
LEMMA OnwardOK ==
  ASSUME JobsOK, NEW w \in Workers, Onward(w)
  PROVE  JobsOK'
<1> DEFINE job == [IdleJob EXCEPT !.pc = "next", !.rest = jobs[w].rest]
<1>1. jobs[w].rest \subseteq Proposals
  BY DEF JobsOK, Job
<1>2. JobOK(job)
  BY <1>1 DEF JobOK, IdleJob, Job, Placed
<1>3. QED
  BY <1>2, IdleJobOK, GoesOK DEF Onward

(* So does a poller that goes on to its next transaction. *)
LEMMA NextSnapshotOK ==
  ASSUME JobsOK, NEW w \in Workers, NextSnapshot(w)
  PROVE  JobsOK'
<1> DEFINE todo == jobs[w].todo \ {jobs[w].read}
           job == [IdleJob EXCEPT !.pc = "poll", !.todo = todo]
<1>1. todo \subseteq Snapshot /\ \A s \in todo : s.polls < MaxPolls
  BY DEF JobsOK, JobOK, Job
<1> HIDE DEF todo
<1>2. JobOK(job)
  BY <1>1 DEF JobOK, IdleJob, Job, Placed
<1>3. Goes(w, IF todo # {} THEN job ELSE IdleJob)
  BY DEF NextSnapshot, todo
<1>4. QED
  BY <1>2, <1>3, IdleJobOK, GoesOK

(* What a worker at a step of a task holds. *)
LEMMA JobFacts ==
  ASSUME JobsOK, NEW w \in Workers
  PROVE  /\ jobs[w] \in Job /\ JobOK(jobs[w])
         /\ jobs[w].rest \subseteq Proposals
         /\ jobs[w].todo \subseteq Snapshot
         /\ jobs[w].pc \in Placed => jobs[w].proposal \in Proposals /\ TokenOf[jobs[w].proposal] \in Tokens
  BY RowsAssumption DEF JobsOK, JobOK, Job

-----------------------------------------------------------------------------
(* The writes. *)

(* Decisions give an execution a fresh start. *)
LEMMA FreshType ==
  ASSUME NEW s \in ExecutionStatus
  PROVE  Fresh(s) \in Execution
  BY RowsAssumption DEF Fresh, Execution

(* The writes of the sender, the lease and the hold are executions. *)
LEMMA ExecTypes ==
  ASSUME NEW exec \in Execution
  PROVE  /\ Claimed(exec) \in Execution
         /\ \A tx \in Tx : Submitted(exec, tx) \in Execution
         /\ SendFailed(exec) \in Execution
         /\ InReview(exec) \in Execution
         /\ [exec EXCEPT !.started = "lease over"] \in Execution
         /\ [exec EXCEPT !.status = "SUCCESS"] \in Execution
<1>1. 0 \in 0..MaxPolls
  BY RowsAssumption
<1>2. QED
  BY <1>1 DEF Claimed, Submitted, SendFailed, InReview, Execution, ExecutionStatus

(* So are those of the poller. *)
LEMMA PollTypes ==
  ASSUME NEW exec \in Execution, NEW polls \in 0..MaxPolls, polls < MaxPolls
  PROVE  /\ PollFailed(exec, polls) \in Execution
         /\ Polled(exec, polls) \in Execution
<1>1. polls + 1 \in 0..MaxPolls
  BY RowsAssumption
<1>2. QED
  BY <1>1 DEF PollFailed, Polled, Execution, ExecutionStatus

(* What the writes say of the transaction under way. *)
LEMMA ExecColumns ==
  ASSUME NEW exec \in Execution
  PROVE  /\ Claimed(exec).status = "IN_PROGRESS" /\ Claimed(exec).tx_hash = exec.tx_hash
         /\ \A tx : /\ Submitted(exec, tx).status = "SUBMITTED"
                    /\ Submitted(exec, tx).tx_hash = tx
                    /\ Submitted(exec, tx).polls = 0
         /\ SendFailed(exec).status = "FAILED" /\ SendFailed(exec).tx_hash = NULL
         /\ InReview(exec).status = "REQUIRES_REVIEW" /\ InReview(exec).tx_hash = exec.tx_hash
         /\ \A polls : /\ PollFailed(exec, polls).status = "FAILED"
                       /\ PollFailed(exec, polls).tx_hash = exec.tx_hash
                       /\ Polled(exec, polls).tx_hash = exec.tx_hash
                       /\ Polled(exec, polls).polls = polls + 1
                       /\ Polled(exec, polls).status =
                            IF Exhausted(polls) THEN "REQUIRES_REVIEW" ELSE exec.status
<1>1. /\ Claimed(exec).status = "IN_PROGRESS" /\ Claimed(exec).tx_hash = exec.tx_hash
      /\ SendFailed(exec).status = "FAILED" /\ SendFailed(exec).tx_hash = NULL
      /\ InReview(exec).status = "REQUIRES_REVIEW" /\ InReview(exec).tx_hash = exec.tx_hash
  BY DEF Claimed, SendFailed, InReview, Execution
<1>2. ASSUME NEW tx
      PROVE  /\ Submitted(exec, tx).status = "SUBMITTED"
             /\ Submitted(exec, tx).tx_hash = tx
             /\ Submitted(exec, tx).polls = 0
  BY DEF Submitted, Execution
<1>3. ASSUME NEW polls
      PROVE  /\ PollFailed(exec, polls).status = "FAILED"
             /\ PollFailed(exec, polls).tx_hash = exec.tx_hash
  BY DEF PollFailed, Execution
<1>4. ASSUME NEW polls
      PROVE  /\ Polled(exec, polls).tx_hash = exec.tx_hash
             /\ Polled(exec, polls).polls = polls + 1
             /\ Polled(exec, polls).status =
                  IF Exhausted(polls) THEN "REQUIRES_REVIEW" ELSE exec.status
  <2> DEFINE next == IF Exhausted(polls) THEN "REQUIRES_REVIEW" ELSE exec.status
             more == polls + 1
             new  == [exec EXCEPT !.polls = more, !.status = next]
  <2>1. Polled(exec, polls) = new
    BY DEF Polled, Execution
  <2>2. new.tx_hash = exec.tx_hash /\ new.polls = more /\ new.status = next
    <3> HIDE DEF next, more
    <3> QED
      BY DEF Execution
  <2>3. QED
    BY <2>1, <2>2
<1>5. QED
  BY <1>1, <1>2, <1>3, <1>4

(* The writes to the registry row of a token. *)
LEMMA TokenTypes ==
  ASSUME NEW token \in TokenRow
  PROVE  /\ \A p : WithResult(token, p) \in TokenRow
         /\ HeldToken(token) \in TokenRow
         /\ \A tx \in Tx : [token EXCEPT !.sync_tx = tx] \in TokenRow
         /\ \A s \in {"SYNCED", "PENDING", "FAILED", "REQUIRES_REVIEW"} :
              [token EXCEPT !.sync = s] \in TokenRow
<1>1. ASSUME NEW p
      PROVE  WithResult(token, p) \in TokenRow
  <2> DEFINE listed == p \in Adds
  <2>1. listed \in BOOLEAN
    OBVIOUS
  <2>2. WithResult(token, p) = [token EXCEPT !.whitelisted = listed, !.sync = "PENDING", !.sync_tx = NULL]
    BY DEF WithResult
  <2> HIDE DEF listed
  <2>3. QED
    BY <2>1, <2>2 DEF TokenRow
<1>2. HeldToken(token) \in TokenRow
  BY DEF HeldToken, TokenRow
<1>3. /\ \A tx \in Tx : [token EXCEPT !.sync_tx = tx] \in TokenRow
      /\ \A s \in {"SYNCED", "PENDING", "FAILED", "REQUIRES_REVIEW"} : [token EXCEPT !.sync = s] \in TokenRow
  BY DEF TokenRow
<1>4. QED
  BY <1>1, <1>2, <1>3

-----------------------------------------------------------------------------
(* Types.                                                                  *)

(* The tables the model starts with. *)
LEMMA TypeInit == Init => TypeInv
<1> SUFFICES ASSUME Init PROVE TypeInv
  OBVIOUS
<1>1. JobsOK
  BY IdleJobOK DEF Init, JobsOK, JobOK
<1>2. Fresh("PENDING") \in Execution /\ Fresh("PENDING").status = "PENDING"
  BY FreshType DEF ExecutionStatus, Fresh
<1>3. execs \in [Proposals -> Execution] /\ PollsLeft
  BY <1>2 DEF Init, PollsLeft
<1>4. tokens \in [Tokens -> TokenRow]
  BY DEF Init, TokenRow
<1>5. /\ votes \in [Proposals -> [current : Tally, frozen : Tally \cup {NULL}]]
      /\ ballots \in [Proposals -> Tally]
      /\ results \in [Proposals -> Result]
  BY DEF Init, Result
<1>6. /\ status \in [Proposals -> {"QUEUED", "VOTING", "VOTED"}]
      /\ messages \subseteq Message
      /\ sent \in Seq(Transaction) /\ Len(sent) <= MaxTx
      /\ registry \in [Tokens -> BOOLEAN]
      /\ decided \in [Proposals -> Result \cup {NULL}]
      /\ crashes \in 0..MaxCrashes
  BY RowsAssumption, WorkersAssumption DEF Init
<1>7. QED
  BY <1>1, <1>3, <1>4, <1>5, <1>6, TypeParts DEF TablesOK

(* A proposal's messages. *)
LEMMA MessageTypes ==
  /\ \A p \in Proposals, freezing \in BOOLEAN : Results(p, freezing) \in Message
  /\ \A p \in Proposals : Send(p) \in Message
  /\ \A m \in Message : m.proposal \in Proposals /\ m.freezing \in BOOLEAN
  BY DEF Results, Send, Message

(* A step that leaves the jobs alone. *)
LEMMA JobsUnchanged == JobsOK /\ UNCHANGED jobs => JobsOK'
  BY DEF JobsOK, JobOK

(* One execution written, with polls left if it is to be polled. *)
LEMMA ExecWritten ==
  ASSUME TablesOK, PollsLeft, NEW p \in Proposals, NEW exec \in Execution,
         exec.status = "SUBMITTED" => exec.polls < MaxPolls,
         execs' = [execs EXCEPT ![p] = exec]
  PROVE  execs' \in [Proposals -> Execution] /\ PollsLeft'
  BY DEF TablesOK, PollsLeft

(* The two halves put together again after a step. *)
LEMMA TypeNext ==
  ASSUME TablesOK', JobsOK', PollsLeft'
  PROVE  TypeInv'
  BY DEF TypeInv, TypeOK, TablesOK, JobsOK, PollsLeft

(* The steps of the world. *)
LEMMA WorldType ==
  ASSUME TypeInv,
         \/ \E p \in Proposals : StartVote(p) \/ EnqueueUpdate(p) \/ LeaseEnds(p) \/ \E t \in Tally : Vote(p, t)
         \/ \E i \in Tx, outcome \in {"SUCCESS", "FAILED", "GONE"} : Include(i, outcome)
  PROVE  TypeInv'
<1>1. TablesOK /\ JobsOK /\ PollsLeft
  BY TypeParts
<1>2. ASSUME NEW p \in Proposals, StartVote(p) \/ EnqueueUpdate(p) \/ LeaseEnds(p) \/ \E t \in Tally : Vote(p, t)
      PROVE  TypeInv'
  <2>1. JobsOK'
    BY <1>1, <1>2, JobsUnchanged DEF StartVote, EnqueueUpdate, LeaseEnds, Vote
  <2>2. CASE StartVote(p)
    BY <1>1, <2>1, <2>2, TypeNext DEF StartVote, TablesOK, PollsLeft, outside
  <2>3. CASE EnqueueUpdate(p)
    BY <1>1, <2>1, <2>3, TypeNext, MessageTypes DEF EnqueueUpdate, TablesOK, PollsLeft, outside, database
  <2>4. CASE LeaseEnds(p)
    <3> DEFINE exec == [execs[p] EXCEPT !.started = "lease over"]
    <3>1. execs[p] \in Execution /\ exec \in Execution
      BY <1>1, ExecTypes DEF TablesOK
    <3>2. exec.status = execs[p].status /\ exec.polls = execs[p].polls
      BY <3>1 DEF Execution
    <3>3. execs' = [execs EXCEPT ![p] = exec]
      BY <2>4 DEF LeaseEnds
    <3>4. execs' \in [Proposals -> Execution] /\ PollsLeft'
      <4> HIDE DEF exec
      <4> QED
        BY <1>1, <3>1, <3>2, <3>3, ExecWritten DEF PollsLeft
    <3>5. QED
      BY <1>1, <2>1, <2>4, <3>4, TypeNext DEF LeaseEnds, TablesOK, outside
  <2>5. CASE \E t \in Tally : Vote(p, t)
    BY <1>1, <2>1, <2>5, TypeNext DEF Vote, TablesOK, PollsLeft, database
  <2>6. QED
    BY <1>2, <2>2, <2>3, <2>4, <2>5
<1>3. ASSUME NEW i \in Tx, NEW outcome \in {"SUCCESS", "FAILED", "GONE"}, Include(i, outcome)
      PROVE  TypeInv'
  <2>1. i \in DOMAIN sent /\ sent[i] \in Transaction
    BY <1>1, <1>3 DEF Include, TablesOK
  <2>2. [sent[i] EXCEPT !.state = outcome] \in Transaction
    BY <2>1 DEF Transaction
  <2>3. sent' \in Seq(Transaction) /\ Len(sent') <= MaxTx
    BY <1>1, <1>3, <2>1, <2>2 DEF Include, TablesOK
  <2>4. registry' \in [Tokens -> BOOLEAN]
    <3> DEFINE allowed == sent[i].proposal \in Adds
    <3>1. allowed \in BOOLEAN
      OBVIOUS
    <3>2. registry' = registry \/ registry' = [registry EXCEPT ![TokenOf[sent[i].proposal]] = allowed]
      BY <1>3 DEF Include
    <3> HIDE DEF allowed
    <3>3. QED
      BY <1>1, <3>1, <3>2 DEF TablesOK
  <2>5. QED
    BY <1>1, <1>3, <2>3, <2>4, TypeNext, JobsUnchanged DEF Include, TablesOK, PollsLeft, database
<1>4. QED
  BY <1>2, <1>3

(* The steps that end votes. *)
LEMMA FinishType ==
  ASSUME TypeInv, NEW w \in Workers, StartFinish(w) \/ Finish(w)
  PROVE  TypeInv'
<1>1. TablesOK /\ JobsOK /\ PollsLeft
  BY TypeParts
<1>2. jobs[w] \in Job /\ JobOK(jobs[w]) /\ jobs[w].rest \subseteq Proposals
  BY <1>1, JobFacts
<1>3. CASE StartFinish(w)
  <2>1. PICK ended \in SUBSET {p \in Proposals : status[p] = "VOTING"} :
          Goes(w, [IdleJob EXCEPT !.pc = "finish", !.rest = ended])
    BY <1>3 DEF StartFinish
  <2>2. JobOK([IdleJob EXCEPT !.pc = "finish", !.rest = ended])
    BY DEF JobOK, IdleJob, Job, Placed
  <2>3. JobsOK'
    BY <1>1, <2>1, <2>2, GoesOK
  <2>4. QED
    BY <1>1, <1>3, <2>3, TypeNext DEF StartFinish, TablesOK, PollsLeft, database, outside
<1>4. ASSUME NEW p \in Proposals, FinishVote(w, p)
      PROVE  TypeInv'
  <2> DEFINE job == [jobs[w] EXCEPT !.pc = "freeze", !.proposal = p, !.rest = @ \ {p}]
  <2>1. jobs[w].pc = "finish"
    BY <1>4 DEF FinishVote, At
  <2>2. JobOK(job)
    BY <1>2, <2>1 DEF JobOK, Job, Placed
  <2>3. JobsOK'
    BY <1>1, <1>4, <2>2, GoesOK DEF FinishVote
  <2>4. status' \in [Proposals -> {"QUEUED", "VOTING", "VOTED"}]
    BY <1>1, <1>4 DEF FinishVote, TablesOK
  <2>5. QED
    BY <1>1, <1>4, <2>3, <2>4, TypeNext DEF FinishVote, TablesOK, PollsLeft, outside
<1>5. CASE EnqueueFreeze(w)
  <2> DEFINE job == [IdleJob EXCEPT !.pc = "finish", !.rest = jobs[w].rest]
  <2>1. JobOK(job)
    BY <1>2, LoopJobOK
  <2>2. JobsOK'
    BY <1>1, <1>5, <2>1, IdleJobOK, GoesOK DEF EnqueueFreeze
  <2>3. messages' \subseteq Message
    BY <1>1, <1>2, <1>5, MessageTypes DEF EnqueueFreeze, At, JobOK, Placed, TablesOK
  <2>4. QED
    BY <1>1, <1>5, <2>2, <2>3, TypeNext DEF EnqueueFreeze, TablesOK, PollsLeft, database, outside
<1>6. QED
  BY <1>3, <1>4, <1>5 DEF Finish

(* The steps that index votes. *)
LEMMA IndexType ==
  ASSUME TypeInv, NEW w \in Workers,
         Index(w) \/ \E m \in messages : StartResults(w, m)
  PROVE  TypeInv'
<1>1. TablesOK /\ JobsOK /\ PollsLeft
  BY TypeParts
<1> DEFINE p == jobs[w].proposal
<1>2. /\ jobs[w] \in Job /\ JobOK(jobs[w])
      /\ jobs[w].pc \in {"index", "snapshot", "hold"} => p \in Proposals /\ TokenOf[p] \in Tokens /\ jobs[w].todo = {}
  BY <1>1, JobFacts DEF Placed, JobOK
<1>3. ASSUME NEW m \in messages, StartResults(w, m)
      PROVE  TypeInv'
  <2>1. m.proposal \in Proposals /\ m.freezing \in BOOLEAN
    BY <1>1, MessageTypes DEF TablesOK
  <2>2. JobOK([Job1("index", m.proposal) EXCEPT !.freezing = m.freezing])
    BY <2>1 DEF JobOK, Job1, IdleJob, Job, Placed
  <2>3. JobsOK'
    BY <1>1, <1>3, <2>2, GoesOK DEF StartResults
  <2>4. QED
    BY <1>1, <1>3, <2>3, TypeNext DEF StartResults, Take, TablesOK, PollsLeft, database, outside
<1>4. CASE ReadBallots(w)
  <2> DEFINE job == [jobs[w] EXCEPT !.pc = "snapshot", !.tally = ballots[p]]
  <2>1. ballots[p] \in Tally
    BY <1>1, <1>2, <1>4 DEF ReadBallots, At, TablesOK
  <2>2. JobOK(job)
    BY <1>2, <1>4, <2>1 DEF ReadBallots, At, JobOK, Job, Placed
  <2>3. JobsOK'
    BY <1>1, <1>4, <2>2, GoesOK DEF ReadBallots
  <2>4. QED
    BY <1>1, <1>4, <2>3, TypeNext DEF ReadBallots, TablesOK, PollsLeft, database, outside
<1>5. CASE IndexingFails(w)
  <2>1. JobOK([jobs[w] EXCEPT !.pc = "hold"])
    BY <1>2, <1>5 DEF IndexingFails, At, JobOK, Job, Placed
  <2>2. JobsOK'
    BY <1>1, <1>5, <2>1, IdleJobOK, GoesOK DEF IndexingFails
  <2>3. QED
    BY <1>1, <1>5, <2>2, TypeNext DEF IndexingFails, TablesOK, PollsLeft, database, outside
<1>6. CASE SaveSnapshot(w)
  <2> DEFINE t == jobs[w].tally
             frozen == IF jobs[w].freezing THEN t ELSE votes[p].frozen
  <2>1. p \in Proposals /\ t \in Tally
    BY <1>2, <1>6 DEF SaveSnapshot, At, JobOK
  <2>2. frozen \in Tally \cup {NULL}
    BY <1>1, <2>1 DEF TablesOK
  <2>3. votes' = [votes EXCEPT ![p] = [current |-> t, frozen |-> frozen]]
    BY <1>6 DEF SaveSnapshot
  <2>4. votes' \in [Proposals -> [current : Tally, frozen : Tally \cup {NULL}]]
    <3> HIDE DEF t, frozen, p
    <3> QED
      BY <1>1, <2>1, <2>2, <2>3 DEF TablesOK
  <2>5. JobsOK'
    BY <1>1, <1>6, <2>1, Job1OK, GoesOK DEF SaveSnapshot
  <2>6. QED
    BY <1>1, <1>6, <2>4, <2>5, TypeNext DEF SaveSnapshot, TablesOK, PollsLeft, outside
<1>7. CASE Hold(w)
  <2>1. p \in Proposals /\ TokenOf[p] \in Tokens
    BY <1>2, <1>7 DEF Hold, At
  <2>2. execs[p] \in Execution /\ InReview(execs[p]) \in Execution /\ InReview(execs[p]).status # "SUBMITTED"
    BY <1>1, <2>1, ExecTypes, ExecColumns DEF TablesOK
  <2>3. execs' = execs \/ execs' = [execs EXCEPT ![p] = InReview(execs[p])]
    BY <1>7 DEF Hold
  <2>4. execs' \in [Proposals -> Execution] /\ PollsLeft'
    BY <1>1, <2>1, <2>2, <2>3, ExecWritten DEF TablesOK, PollsLeft
  <2>5. tokens' \in [Tokens -> TokenRow]
    <3>1. HeldToken(tokens[TokenOf[p]]) \in TokenRow
      BY <1>1, <2>1, TokenTypes DEF TablesOK
    <3>2. tokens' = tokens \/ tokens' = [tokens EXCEPT ![TokenOf[p]] = HeldToken(tokens[TokenOf[p]])]
      BY <1>7 DEF Hold
    <3>3. QED
      BY <1>1, <2>1, <3>1, <3>2 DEF TablesOK
  <2>6. JobsOK'
    BY <1>1, <1>7, IdleJobOK, GoesOK DEF Hold
  <2>7. QED
    BY <1>1, <1>7, <2>4, <2>5, <2>6, TypeNext DEF Hold, TablesOK, outside
<1>8. QED
  BY <1>3, <1>4, <1>5, <1>6, <1>7 DEF Index

(* The steps that finalize a result. *)
LEMMA FinalizeType ==
  ASSUME TypeInv, NEW w \in Workers, Finalize(w)
  PROVE  TypeInv'
<1>1. TablesOK /\ JobsOK /\ PollsLeft
  BY TypeParts
<1> DEFINE p == jobs[w].proposal
<1>2. /\ jobs[w] \in Job /\ JobOK(jobs[w])
      /\ jobs[w].pc \in {"tally", "save", "decide", "enqueue"} =>
           p \in Proposals /\ TokenOf[p] \in Tokens /\ jobs[w].todo = {}
  BY <1>1, JobFacts DEF Placed, JobOK
<1>3. CASE CountVotes(w)
  <2> DEFINE counted == Counted(p)
             job == [jobs[w] EXCEPT !.pc = "save", !.result = counted]
  <2>1. p \in Proposals /\ jobs[w].pc = "tally"
    BY <1>2, <1>3 DEF CountVotes, At
  <2>2. counted \in Result
    BY <1>1, <2>1 DEF Counted, Result, TablesOK
  <2>3. JobOK(job)
    <3> HIDE DEF counted
    <3> QED
      BY <1>2, <2>1, <2>2 DEF JobOK, Job, Placed
  <2>4. JobsOK'
    BY <1>1, <1>3, <2>3, GoesOK DEF CountVotes
  <2>5. QED
    BY <1>1, <1>3, <2>4, TypeNext DEF CountVotes, TablesOK, PollsLeft, database, outside
<1>4. CASE SaveResults(w)
  <2>1. PICK fresh \in BOOLEAN, s \in Supply :
          LET result == IF fresh THEN [jobs[w].result EXCEPT !.supply = s] ELSE jobs[w].result
          IN  /\ results' = [results EXCEPT ![p] = result]
              /\ Goes(w, [jobs[w] EXCEPT !.pc = "decide", !.result = result, !.fresh = fresh])
    BY <1>4 DEF SaveResults
  <2> DEFINE result == IF fresh THEN [jobs[w].result EXCEPT !.supply = s] ELSE jobs[w].result
             job == [jobs[w] EXCEPT !.pc = "decide", !.result = result, !.fresh = fresh]
  <2>2. p \in Proposals /\ jobs[w].pc = "save" /\ jobs[w].result \in Result
    BY <1>2, <1>4 DEF SaveResults, At, JobOK
  <2>3. result \in Result
    BY <2>2 DEF Result
  <2>4. results' = [results EXCEPT ![p] = result] /\ Goes(w, job)
    BY <2>1
  <2>5. JobOK(job) /\ results' \in [Proposals -> Result]
    <3> HIDE DEF result
    <3> QED
      BY <1>1, <1>2, <2>2, <2>3, <2>4 DEF JobOK, Job, Placed, TablesOK
  <2>6. JobsOK'
    BY <1>1, <2>4, <2>5, GoesOK
  <2>7. QED
    BY <1>1, <1>4, <2>5, <2>6, TypeNext DEF SaveResults, TablesOK, PollsLeft, outside
<1>5. CASE Leave(w)
  <2>1. JobsOK'
    BY <1>1, <1>5, OnwardOK DEF Leave
  <2>2. QED
    BY <1>1, <1>5, <2>1, TypeNext DEF Leave, TablesOK, PollsLeft, database, outside
<1>6. ASSUME NEW s \in {"FAILED", "SKIPPED", "PENDING"}, p \in Proposals,
             execs' = [execs EXCEPT ![p] = Fresh(s)]
      PROVE  execs' \in [Proposals -> Execution] /\ PollsLeft'
  <2>1. Fresh(s) \in Execution /\ Fresh(s).status # "SUBMITTED"
    BY <1>6, FreshType DEF Fresh, ExecutionStatus
  <2>2. QED
    BY <1>1, <1>6, <2>1, ExecWritten
<1>7. CASE FailDecision(w) \/ SkipExecution(w)
  <2>1. p \in Proposals
    BY <1>2, <1>7 DEF FailDecision, SkipExecution, Undecided, At
  <2>2. execs' \in [Proposals -> Execution] /\ PollsLeft'
    BY <1>6, <1>7, <2>1 DEF FailDecision, SkipExecution
  <2>3. JobsOK'
    BY <1>1, <1>7, OnwardOK DEF FailDecision, SkipExecution
  <2>4. QED
    BY <1>1, <1>7, <2>2, <2>3, TypeNext DEF FailDecision, SkipExecution, TablesOK, outside
<1>8. CASE Approve(w)
  <2>1. p \in Proposals /\ TokenOf[p] \in Tokens /\ jobs[w].pc = "decide"
    BY <1>2, <1>8 DEF Approve, Undecided, At
  <2>2. execs' \in [Proposals -> Execution] /\ PollsLeft'
    BY <1>6, <1>8, <2>1 DEF Approve
  <2>3. tokens' \in [Tokens -> TokenRow]
    <3>1. WithResult(tokens[TokenOf[p]], p) \in TokenRow
      BY <1>1, <2>1, TokenTypes DEF TablesOK
    <3>2. QED
      BY <1>1, <1>8, <2>1, <3>1 DEF Approve, TablesOK
  <2>4. decided' \in [Proposals -> Result \cup {NULL}]
    BY <1>1, <1>8, <2>1 DEF Approve, TablesOK
  <2>5. JobOK([jobs[w] EXCEPT !.pc = "enqueue"])
    BY <1>2, <2>1 DEF JobOK, Job, Placed
  <2>6. JobsOK'
    BY <1>1, <1>8, <2>5, GoesOK DEF Approve
  <2>7. QED
    BY <1>1, <1>8, <2>2, <2>3, <2>4, <2>6, TypeNext DEF Approve, TablesOK, outside
<1>9. CASE EnqueueSend(w)
  <2>1. JobsOK'
    BY <1>1, <1>9, OnwardOK DEF EnqueueSend
  <2>2. messages' \subseteq Message
    BY <1>1, <1>2, <1>9, MessageTypes DEF EnqueueSend, At, TablesOK
  <2>3. QED
    BY <1>1, <1>9, <2>1, <2>2, TypeNext DEF EnqueueSend, TablesOK, PollsLeft, database, outside
<1>10. QED
  BY <1>3, <1>4, <1>5, <1>7, <1>8, <1>9 DEF Finalize

(* The steps that send a transaction. *)
LEMMA SendType ==
  ASSUME TypeInv, NEW w \in Workers,
         SendSteps(w) \/ \E m \in messages : StartSend(w, m)
  PROVE  TypeInv'
<1>1. TablesOK /\ JobsOK /\ PollsLeft
  BY TypeParts
<1> DEFINE p == jobs[w].proposal
<1>2. /\ jobs[w] \in Job /\ JobOK(jobs[w])
      /\ jobs[w].pc \in {"send", "submitted", "send failed", "note hash", "note failure"} =>
           p \in Proposals /\ TokenOf[p] \in Tokens /\ jobs[w].todo = {}
  BY <1>1, JobFacts DEF Placed, JobOK
<1>3. ASSUME NEW m \in messages, StartSend(w, m)
      PROVE  TypeInv'
  <2>1. m.proposal \in Proposals
    BY <1>1, MessageTypes DEF TablesOK
  <2>2. Claimed(execs[m.proposal]) \in Execution /\ Claimed(execs[m.proposal]).status # "SUBMITTED"
    <3>1. execs[m.proposal] \in Execution
      BY <1>1, <2>1 DEF TablesOK
    <3>2. QED
      BY <3>1, ExecTypes, ExecColumns
  <2>3. execs' = execs \/ execs' = [execs EXCEPT ![m.proposal] = Claimed(execs[m.proposal])]
    BY <1>3 DEF StartSend
  <2>4. execs' \in [Proposals -> Execution] /\ PollsLeft'
    BY <1>1, <2>1, <2>2, <2>3, ExecWritten DEF TablesOK, PollsLeft
  <2>5. JobsOK'
    BY <1>1, <1>3, <2>1, Job1OK, IdleJobOK, GoesOK DEF StartSend
  <2>6. QED
    BY <1>1, <1>3, <2>4, <2>5, TypeNext DEF StartSend, Take, TablesOK, outside
<1>4. CASE Broadcast(w)
  <2>1. PICK state \in {"PENDING", "GONE"}, known \in BOOLEAN :
          /\ sent' = Append(sent, [proposal |-> p, state |-> state, known |-> known])
          /\ Goes(w, IF known
                     THEN [jobs[w] EXCEPT !.pc = "submitted", !.tx = Len(sent) + 1]
                     ELSE [jobs[w] EXCEPT !.pc = "send failed"])
    BY <1>4 DEF Broadcast
  <2>2. p \in Proposals /\ jobs[w].pc = "send" /\ Len(sent) < MaxTx /\ Len(sent) \in Nat
    <3>1. sent \in Seq(Transaction)
      BY <1>1 DEF TablesOK
    <3>2. jobs[w].pc = "send" /\ Len(sent) < MaxTx
      BY <1>4 DEF Broadcast, At
    <3>3. Len(sent) \in Nat
      BY <3>1
    <3>4. QED
      BY <1>2, <3>2, <3>3
  <2>3. [proposal |-> p, state |-> state, known |-> known] \in Transaction
    BY <2>2, WorkersAssumption DEF Transaction
  <2>4. sent' \in Seq(Transaction) /\ Len(sent') <= MaxTx
    <3> DEFINE new == [proposal |-> p, state |-> state, known |-> known]
    <3>1. Len(sent') = Len(sent) + 1 /\ sent' \in Seq(Transaction)
      <4>1. sent' = Append(sent, new) /\ new \in Transaction /\ sent \in Seq(Transaction)
        BY <1>1, <2>1, <2>3 DEF TablesOK
      <4> HIDE DEF new
      <4>2. QED
        BY <4>1
    <3>2. QED
      BY <2>2, <3>1, RowsAssumption
  <2>5. Len(sent) + 1 \in Tx
    BY <2>2, RowsAssumption DEF Tx
  <2>6. /\ JobOK([jobs[w] EXCEPT !.pc = "submitted", !.tx = Len(sent) + 1])
        /\ JobOK([jobs[w] EXCEPT !.pc = "send failed"])
    <3> DEFINE tx == Len(sent) + 1
    <3> HIDE DEF tx
    <3>1. tx \in Tx
      BY <2>5 DEF tx
    <3>2. /\ JobOK([jobs[w] EXCEPT !.pc = "submitted", !.tx = tx])
          /\ JobOK([jobs[w] EXCEPT !.pc = "send failed"])
      BY <1>2, <2>2, <3>1 DEF JobOK, Job, Placed
    <3>3. QED
      BY <3>2 DEF tx
  <2>7. JobsOK'
    BY <1>1, <2>1, <2>6, GoesOK
  <2>8. QED
    BY <1>1, <1>4, <2>4, <2>7, TypeNext DEF Broadcast, TablesOK, PollsLeft, database
<1>5. CASE NotSent(w)
  <2>1. JobOK([jobs[w] EXCEPT !.pc = "send failed"])
    BY <1>2, <1>5 DEF NotSent, At, JobOK, Job, Placed
  <2>2. JobsOK'
    BY <1>1, <1>5, <2>1, GoesOK DEF NotSent
  <2>3. QED
    BY <1>1, <1>5, <2>2, TypeNext DEF NotSent, TablesOK, PollsLeft, database, outside
<1>6. CASE WriteSubmitted(w)
  <2>1. p \in Proposals /\ jobs[w].pc = "submitted" /\ jobs[w].tx \in Tx
    BY <1>2, <1>6 DEF WriteSubmitted, At, JobOK
  <2>2. /\ Submitted(execs[p], jobs[w].tx) \in Execution
        /\ Submitted(execs[p], jobs[w].tx).polls < MaxPolls
    <3>1. execs[p] \in Execution
      BY <1>1, <2>1 DEF TablesOK
    <3>2. Submitted(execs[p], jobs[w].tx).polls = 0
      BY <3>1, ExecColumns
    <3>3. Submitted(execs[p], jobs[w].tx) \in Execution
      BY <2>1, <3>1, ExecTypes
    <3>4. 0 < MaxPolls
      BY RowsAssumption
    <3>5. QED
      BY <3>2, <3>3, <3>4
  <2>3. execs' \in [Proposals -> Execution] /\ PollsLeft'
    BY <1>1, <1>6, <2>1, <2>2, ExecWritten DEF WriteSubmitted
  <2>4. JobOK([jobs[w] EXCEPT !.pc = "note hash"])
    BY <1>2, <2>1 DEF JobOK, Job, Placed
  <2>5. JobsOK'
    BY <1>1, <1>6, <2>4, GoesOK DEF WriteSubmitted
  <2>6. QED
    BY <1>1, <1>6, <2>3, <2>5, TypeNext DEF WriteSubmitted, TablesOK, outside
<1>7. CASE WriteSendFailed(w)
  <2>1. p \in Proposals /\ jobs[w].pc = "send failed"
    BY <1>2, <1>7 DEF WriteSendFailed, At, JobOK
  <2>2. SendFailed(execs[p]) \in Execution /\ SendFailed(execs[p]).status # "SUBMITTED"
    BY <1>1, <2>1, ExecTypes, ExecColumns DEF TablesOK
  <2>3. execs' \in [Proposals -> Execution] /\ PollsLeft'
    BY <1>1, <1>7, <2>1, <2>2, ExecWritten DEF WriteSendFailed
  <2>4. JobOK([jobs[w] EXCEPT !.pc = "note failure"])
    BY <1>2, <2>1 DEF JobOK, Job, Placed
  <2>5. JobsOK'
    BY <1>1, <1>7, <2>4, GoesOK DEF WriteSendFailed
  <2>6. QED
    BY <1>1, <1>7, <2>3, <2>5, TypeNext DEF WriteSendFailed, TablesOK, outside
<1>8. CASE NoteSend(w)
  <2> DEFINE token == tokens[TokenOf[p]]
  <2>1. p \in Proposals /\ TokenOf[p] \in Tokens
    BY <1>2, <1>8 DEF NoteSend, At
  <2>2. /\ jobs[w].pc = "note hash" => [token EXCEPT !.sync_tx = jobs[w].tx] \in TokenRow
        /\ [token EXCEPT !.sync = "FAILED"] \in TokenRow
    BY <1>1, <1>2, <2>1, TokenTypes DEF TablesOK, JobOK
  <2>3. tokens' \in [Tokens -> TokenRow]
    BY <1>1, <1>8, <2>1, <2>2 DEF NoteSend, At, TablesOK
  <2>4. JobsOK'
    BY <1>1, <1>8, IdleJobOK, GoesOK DEF NoteSend
  <2>5. QED
    BY <1>1, <1>8, <2>3, <2>4, TypeNext DEF NoteSend, TablesOK, PollsLeft, outside
<1>9. QED
  BY <1>3, <1>4, <1>5, <1>6, <1>7, <1>8 DEF SendSteps

(* The steps that poll. *)
LEMMA PollType ==
  ASSUME TypeInv, NEW w \in Workers, StartPoll(w) \/ Poll(w)
  PROVE  TypeInv'
<1>1. TablesOK /\ JobsOK /\ PollsLeft
  BY TypeParts
<1> DEFINE p == jobs[w].proposal
           polls == jobs[w].read.polls
<1>2. jobs[w] \in Job /\ JobOK(jobs[w]) /\ jobs[w].todo \subseteq Snapshot
  BY <1>1, JobFacts
<1>3. jobs[w].pc \in {"answered", "note poll"} =>
        /\ p \in Proposals /\ TokenOf[p] \in Tokens /\ execs[p] \in Execution
        /\ polls \in 0..MaxPolls /\ polls < MaxPolls
  BY <1>1, <1>2, JobFacts DEF Placed, JobOK, Snapshot, TablesOK
<1>4. CASE StartPoll(w)
  <2> DEFINE reads == {[proposal |-> q, tx_hash |-> execs[q].tx_hash, polls |-> execs[q].polls] : q \in Pollable}
             job == [IdleJob EXCEPT !.pc = "poll", !.todo = reads]
  <2>1. reads \subseteq Snapshot /\ \A s \in reads : s.polls < MaxPolls
    <3>1. ASSUME NEW q \in Pollable
          PROVE  /\ q \in Proposals
                 /\ execs[q].tx_hash \in Tx
                 /\ execs[q].polls \in 0..MaxPolls
                 /\ execs[q].polls < MaxPolls
      BY <1>1, <3>1 DEF Pollable, TablesOK, Execution, PollsLeft
    <3>2. QED
      BY <3>1 DEF Snapshot
  <2>2. JobOK(job)
    <3> HIDE DEF reads
    <3> QED
      BY <2>1 DEF JobOK, IdleJob, Job, Placed
  <2>3. JobsOK'
    BY <1>1, <1>4, <2>2, GoesOK DEF StartPoll
  <2>4. QED
    BY <1>1, <1>4, <2>3, TypeNext DEF StartPoll, TablesOK, PollsLeft, database, outside
<1>5. CASE AskSoroban(w)
  <2>1. PICK read \in jobs[w].todo : \E answer \in SorobanAnswers(read.tx_hash) :
          Goes(w, [jobs[w] EXCEPT !.pc = "answered", !.read = read, !.proposal = read.proposal, !.answer = answer])
    BY <1>5 DEF AskSoroban
  <2>2. PICK answer \in SorobanAnswers(read.tx_hash) :
          Goes(w, [jobs[w] EXCEPT !.pc = "answered", !.read = read, !.proposal = read.proposal, !.answer = answer])
    BY <2>1
  <2>3. answer \in {"SUCCESS", "FAILED", "NOT_FOUND", "ERROR"}
    BY <2>2 DEF SorobanAnswers
  <2>4. read \in Snapshot /\ read.proposal \in Proposals
    BY <1>2 DEF Snapshot
  <2> DEFINE job == [jobs[w] EXCEPT !.pc = "answered", !.read = read, !.proposal = read.proposal, !.answer = answer]
  <2>5. JobOK(job)
    <3> DEFINE q == read.proposal
    <3>1. q \in Proposals /\ q = read.proposal
      BY <2>4
    <3>2. job = [jobs[w] EXCEPT !.pc = "answered", !.read = read, !.proposal = q, !.answer = answer]
      OBVIOUS
    <3> HIDE DEF job, q
    <3>3. /\ job \in Job
          /\ job.pc = "answered" /\ job.read = read /\ job.proposal = q /\ job.todo = jobs[w].todo
      BY <1>2, <2>3, <2>4, <3>1, <3>2 DEF Job
    <3>4. QED
      BY <1>2, <3>1, <3>3 DEF JobOK, Placed
  <2>6. JobsOK'
    BY <1>1, <2>2, <2>5, GoesOK
  <2>7. QED
    BY <1>1, <1>5, <2>6, TypeNext DEF AskSoroban, TablesOK, PollsLeft, database, outside
<1>6. CASE Synced(w)
  <2>1. jobs[w].pc = "answered"
    BY <1>6 DEF Synced, At
  <2> DEFINE exec == [execs[p] EXCEPT !.status = "SUCCESS"]
             token == [tokens[TokenOf[p]] EXCEPT !.sync = "SYNCED"]
  <2>2. exec \in Execution /\ exec.status # "SUBMITTED" /\ token \in TokenRow
    <3>1. exec \in Execution
      BY <1>3, <2>1, ExecTypes
    <3>2. exec.status # "SUBMITTED"
      BY <1>3, <2>1 DEF Execution
    <3>3. token \in TokenRow
      BY <1>1, <1>3, <2>1, TokenTypes DEF TablesOK
    <3>4. QED
      BY <3>1, <3>2, <3>3
  <2>3. /\ execs' = execs \/ execs' = [execs EXCEPT ![p] = exec]
        /\ tokens' = tokens \/ tokens' = [tokens EXCEPT ![TokenOf[p]] = token]
    BY <1>6 DEF Synced
  <2>4. execs' \in [Proposals -> Execution] /\ PollsLeft' /\ tokens' \in [Tokens -> TokenRow]
    <3> HIDE DEF exec, token, p
    <3>1. execs' \in [Proposals -> Execution] /\ PollsLeft'
      <4>1. CASE execs' = execs
        BY <1>1, <4>1 DEF TablesOK, PollsLeft
      <4>2. CASE execs' = [execs EXCEPT ![p] = exec]
        BY <1>1, <1>3, <2>1, <2>2, <4>2, ExecWritten
      <4>3. QED
        BY <2>3, <4>1, <4>2
    <3>2. tokens' \in [Tokens -> TokenRow]
      BY <1>1, <1>3, <2>1, <2>2, <2>3 DEF TablesOK
    <3>3. QED
      BY <3>1, <3>2
  <2>5. JobsOK'
    BY <1>1, <1>6, NextSnapshotOK DEF Synced
  <2>6. QED
    BY <1>1, <1>6, <2>4, <2>5, TypeNext DEF Synced, TablesOK, outside
<1>7. jobs[w].pc = "answered" => JobOK([jobs[w] EXCEPT !.pc = "note poll"])
  BY <1>2 DEF JobOK, Job, Placed
<1>8. CASE WritePollFailed(w)
  <2>1. jobs[w].pc = "answered"
    BY <1>8 DEF WritePollFailed, At
  <2>2. PollFailed(execs[p], polls) \in Execution /\ PollFailed(execs[p], polls).status # "SUBMITTED"
    BY <1>3, <2>1, PollTypes, ExecColumns
  <2>3. execs' \in [Proposals -> Execution] /\ PollsLeft'
    BY <1>1, <1>3, <1>8, <2>1, <2>2, ExecWritten DEF WritePollFailed
  <2>4. JobsOK'
    BY <1>1, <1>7, <1>8, <2>1, GoesOK DEF WritePollFailed
  <2>5. QED
    BY <1>1, <1>8, <2>3, <2>4, TypeNext DEF WritePollFailed, TablesOK, outside
<1>9. CASE WritePolled(w)
  <2>1. jobs[w].pc = "answered"
    BY <1>9 DEF WritePolled, At
  <2>2. Polled(execs[p], polls) \in Execution
    BY <1>3, <2>1, PollTypes
  <2>3. Polled(execs[p], polls).status = "SUBMITTED" => Polled(execs[p], polls).polls < MaxPolls
    <3>1. /\ Polled(execs[p], polls).polls = polls + 1
          /\ Polled(execs[p], polls).status = IF Exhausted(polls) THEN "REQUIRES_REVIEW" ELSE execs[p].status
      BY <1>3, <2>1, ExecColumns
    <3>2. ~Exhausted(polls) => polls + 1 < MaxPolls
      BY <1>3, <2>1, RowsAssumption DEF Exhausted
    <3>3. QED
      BY <3>1, <3>2
  <2>4. execs' \in [Proposals -> Execution] /\ PollsLeft'
    BY <1>1, <1>3, <1>9, <2>1, <2>2, <2>3, ExecWritten DEF WritePolled
  <2>5. JobsOK'
    BY <1>1, <1>7, <1>9, <2>1, GoesOK, NextSnapshotOK DEF WritePolled
  <2>6. QED
    BY <1>1, <1>9, <2>4, <2>5, TypeNext DEF WritePolled, TablesOK, outside
<1>10. CASE NotePoll(w)
  <2> DEFINE sync == IF jobs[w].answer = "FAILED" THEN "FAILED" ELSE "REQUIRES_REVIEW"
             token == [tokens[TokenOf[p]] EXCEPT !.sync = sync]
  <2>1. token \in TokenRow /\ TokenOf[p] \in Tokens
    <3>1. sync \in {"SYNCED", "PENDING", "FAILED", "REQUIRES_REVIEW"}
      OBVIOUS
    <3>2. tokens[TokenOf[p]] \in TokenRow /\ TokenOf[p] \in Tokens
      BY <1>1, <1>3, <1>10 DEF NotePoll, At, TablesOK
    <3> HIDE DEF sync
    <3>3. QED
      BY <3>1, <3>2, TokenTypes
  <2>2. tokens' = [tokens EXCEPT ![TokenOf[p]] = token]
    BY <1>10 DEF NotePoll
  <2>3. tokens' \in [Tokens -> TokenRow]
    <3> HIDE DEF token, p
    <3> QED
      BY <1>1, <2>1, <2>2 DEF TablesOK
  <2>4. JobsOK'
    BY <1>1, <1>10, NextSnapshotOK DEF NotePoll
  <2>5. QED
    BY <1>1, <1>10, <2>3, <2>4, TypeNext DEF NotePoll, TablesOK, PollsLeft, outside
<1>11. QED
  BY <1>4, <1>5, <1>6, <1>8, <1>9, <1>10 DEF Poll

(* The steps of the retry. *)
LEMMA RetryType ==
  ASSUME TypeInv, NEW w \in Workers, StartRetry(w) \/ Retry(w)
  PROVE  TypeInv'
<1>1. TablesOK /\ JobsOK /\ PollsLeft
  BY TypeParts
<1>2. jobs[w] \in Job /\ JobOK(jobs[w]) /\ jobs[w].rest \subseteq Proposals
  BY <1>1, JobFacts
<1>3. CASE StartRetry(w)
  <2>1. Stale \in SUBSET Proposals
    BY DEF Stale
  <2>2. JobOK([IdleJob EXCEPT !.pc = "mark", !.rest = Stale])
    BY <2>1, LoopJobOK
  <2>3. JobsOK'
    BY <1>1, <1>3, <2>2, GoesOK DEF StartRetry
  <2>4. QED
    BY <1>1, <1>3, <2>3, TypeNext DEF StartRetry, TablesOK, PollsLeft, database, outside
<1>4. CASE MarkStale(w)
  <2>1. \A p \in Proposals : execs'[p] = execs[p] \/ execs'[p] = InReview(execs[p])
    BY <1>4 DEF MarkStale
  <2>2. \A p \in Proposals : /\ execs[p] \in Execution
                             /\ InReview(execs[p]) \in Execution
                             /\ InReview(execs[p]).status # "SUBMITTED"
    <3>1. ASSUME NEW p \in Proposals PROVE execs[p] \in Execution
      BY <1>1 DEF TablesOK
    <3>2. QED
      BY <3>1, ExecTypes, ExecColumns
  <2>3. execs' \in [Proposals -> Execution]
    BY <1>4, <2>2 DEF MarkStale
  <2>4. PollsLeft'
    BY <1>1, <2>1, <2>2 DEF PollsLeft
  <2>5. JobOK([IdleJob EXCEPT !.pc = "list"])
    BY DEF JobOK, IdleJob, Job, Placed
  <2>6. JobsOK'
    BY <1>1, <1>4, <2>5, GoesOK DEF MarkStale
  <2>7. QED
    BY <1>1, <1>4, <2>3, <2>4, <2>6, TypeNext DEF MarkStale, TablesOK, outside
<1>5. CASE ListRetries(w)
  <2>1. Retryable \in SUBSET Proposals
    BY DEF Retryable
  <2>2. JobOK([IdleJob EXCEPT !.pc = "next", !.rest = Retryable])
    BY <2>1, LoopJobOK
  <2>3. JobsOK'
    BY <1>1, <1>5, <2>2, IdleJobOK, GoesOK DEF ListRetries
  <2>4. QED
    BY <1>1, <1>5, <2>3, TypeNext DEF ListRetries, TablesOK, PollsLeft, database, outside
<1>6. ASSUME NEW p \in Proposals, NextRetry(w, p)
      PROVE  TypeInv'
  <2> DEFINE rest == jobs[w].rest \ {p}
  <2>1. rest \in SUBSET Proposals
    BY <1>2
  <2> HIDE DEF rest
  <2>2. JobOK([Job1("tally", p) EXCEPT !.rest = rest])
    BY <2>1 DEF JobOK, Job1, IdleJob, Job, Placed
  <2>3. JobsOK'
    BY <1>1, <1>6, <2>2, GoesOK DEF NextRetry, rest
  <2>4. QED
    BY <1>1, <1>6, <2>3, TypeNext DEF NextRetry, TablesOK, PollsLeft, database, outside
<1>7. QED
  BY <1>3, <1>4, <1>5, <1>6 DEF Retry

(* A worker dies. *)
LEMMA CrashType ==
  ASSUME TypeInv, NEW w \in Workers, Crash(w)
  PROVE  TypeInv'
<1>1. TablesOK /\ JobsOK /\ PollsLeft
  BY TypeParts
<1>2. JobsOK'
  BY <1>1, IdleJobOK, GoesOK DEF Crash
<1>3. crashes' \in 0..MaxCrashes
  BY <1>1, WorkersAssumption DEF Crash, TablesOK
<1>4. QED
  BY <1>1, <1>2, <1>3, TypeNext DEF Crash, TablesOK, PollsLeft, database, outside

(* No step leaves the types. *)
LEMMA TypeStep == TypeInv /\ [Next]_vars => TypeInv'
<1> SUFFICES ASSUME TypeInv, [Next]_vars PROVE TypeInv'
  OBVIOUS
<1>1. CASE UNCHANGED vars
  <2>1. TablesOK /\ JobsOK /\ PollsLeft
    BY TypeParts
  <2>2. QED
    BY <1>1, <2>1, JobsUnchanged, TypeNext DEF vars, database, outside, TablesOK, PollsLeft
<1>2. ASSUME NEW w \in Workers,
             \/ \E m \in messages : StartResults(w, m) \/ StartSend(w, m)
             \/ StartFinish(w) \/ StartPoll(w) \/ StartRetry(w)
             \/ Working(w)
             \/ Crash(w)
      PROVE  TypeInv'
  BY <1>2, FinishType, IndexType, FinalizeType, SendType, PollType, RetryType, CrashType DEF Working
<1>3. QED
  BY <1>1, <1>2, WorldType DEF Next

(* TypeOK: every table, every message, every transaction and every worker  *)
(* stays within its type - a polled transaction never counts more polls    *)
(* than the setting allows, and no worker forgets the row it works on.     *)
THEOREM ExecutionTypes == Spec => []TypeOK
<1>1. Init => TypeInv
  BY TypeInit
<1>2. TypeInv /\ [Next]_vars => TypeInv'
  BY TypeStep
<1>3. TypeInv => TypeOK
  BY DEF TypeInv
<1>4. QED
  BY <1>1, <1>2, <1>3, PTL DEF Spec

-----------------------------------------------------------------------------
(* One freeze.                                                             *)

(* Votes are ended by one worker: a tick is over before the next begins.   *)
SingleFinisher == \A v, w \in Workers : "finish" \in Roles[v] \cap Roles[w] => v = w

(* A worker that ends votes, and one that has the freeze of p to queue or  *)
(* to carry out.                                                           *)
Ending(job)      == job.pc \in {"finish", "freeze"}
Freezing(job, p) ==
  /\ job.pc \in {"freeze", "index", "snapshot"}
  /\ job.proposal = p
  /\ job.pc # "freeze" => job.freezing

(* The votes a tick has yet to end are open.                               *)
EndingOpen ==
  \A w \in Workers : Ending(jobs[w]) =>
    /\ "finish" \in Roles[w]
    /\ \A p \in jobs[w].rest : status[p] = "VOTING"

(* A freeze under way is the only one, and nothing is frozen yet.          *)
FreezeAlone ==
  \A p \in Proposals :
    /\ \A w \in Workers : Freezing(jobs[w], p) =>
         /\ status[p] = "VOTED"
         /\ votes[p].frozen = NULL
         /\ Results(p, TRUE) \notin messages
         /\ \A v \in Workers : Freezing(jobs[v], p) => v = w
    /\ Results(p, TRUE) \in messages => status[p] = "VOTED" /\ votes[p].frozen = NULL
    /\ votes[p].frozen # NULL => status[p] = "VOTED"

FreezeInv == EndingOpen /\ FreezeAlone

(* A step that ends no vote and neither queues, begins nor carries out a   *)
(* freeze.                                                                 *)
FreezeCalm ==
  /\ \A w \in Workers :
       /\ \A p \in Proposals : Freezing(jobs'[w], p) => Freezing(jobs[w], p)
       /\ Ending(jobs'[w]) => Ending(jobs[w]) /\ jobs'[w].rest \subseteq jobs[w].rest
  /\ \A p \in Proposals :
       /\ Results(p, TRUE) \in messages' => Results(p, TRUE) \in messages
       /\ votes'[p].frozen = votes[p].frozen
       /\ status'[p] = status[p] \/ (status[p] = "QUEUED" /\ status'[p] = "VOTING")

(* Such a step disturbs none that is under way. *)
LEMMA FreezeUndisturbed ==
  ASSUME TypeInv, FreezeInv, FreezeCalm
  PROVE  FreezeInv'
<1>1. EndingOpen'
  <2> SUFFICES ASSUME NEW w \in Workers, Ending(jobs'[w])
               PROVE  "finish" \in Roles[w] /\ \A p \in jobs'[w].rest : status'[p] = "VOTING"
    BY DEF EndingOpen
  <2>1. Ending(jobs[w]) /\ jobs'[w].rest \subseteq jobs[w].rest /\ jobs[w].rest \subseteq Proposals
    BY JobFacts, TypeParts DEF FreezeCalm
  <2>2. \A p \in jobs'[w].rest : status[p] = "VOTING" /\ p \in Proposals
    BY <2>1 DEF FreezeInv, EndingOpen
  <2>3. QED
    BY <2>1, <2>2 DEF FreezeInv, EndingOpen, FreezeCalm
<1>2. FreezeAlone'
  BY DEF FreezeInv, FreezeAlone, FreezeCalm
<1>3. QED
  BY <1>1, <1>2 DEF FreezeInv

(* One worker moves on to something that is no part of it. *)
LEMMA FreezeGoes ==
  ASSUME TypeInv, NEW w \in Workers, NEW job, Goes(w, job),
         job.pc \notin {"finish", "freeze", "index", "snapshot"}
  PROVE  \A v \in Workers :
           /\ \A p \in Proposals : Freezing(jobs'[v], p) => Freezing(jobs[v], p)
           /\ Ending(jobs'[v]) => Ending(jobs[v]) /\ jobs'[v].rest \subseteq jobs[v].rest
<1>1. jobs'[w] = job /\ \A v \in Workers \ {w} : jobs'[v] = jobs[v]
  BY DEF TypeInv, TypeOK, Goes
<1>2. QED
  BY <1>1 DEF Freezing, Ending

(* The next row of a loop, and the next transaction to poll, are not.      *)
LEMMA FreezeLoops ==
  ASSUME TypeInv, NEW w \in Workers, Onward(w) \/ NextSnapshot(w)
  PROVE  \A v \in Workers :
           /\ \A p \in Proposals : Freezing(jobs'[v], p) => Freezing(jobs[v], p)
           /\ Ending(jobs'[v]) => Ending(jobs[v]) /\ jobs'[v].rest \subseteq jobs[v].rest
<1> DEFINE todo == jobs[w].todo \ {jobs[w].read}
<1>1. /\ IdleJob.pc = "idle"
      /\ [IdleJob EXCEPT !.pc = "next", !.rest = jobs[w].rest].pc = "next"
      /\ [IdleJob EXCEPT !.pc = "poll", !.todo = todo].pc = "poll"
  BY DEF IdleJob
<1>2. QED
  BY <1>1, FreezeGoes DEF Onward, NextSnapshot

(* Only five kinds of step are not calm. *)
LEMMA FreezeSteps ==
  ASSUME TypeInv, [Next]_vars
  PROVE  \/ FreezeCalm
         \/ \E w \in Workers :
              \/ StartFinish(w) \/ EnqueueFreeze(w) \/ SaveSnapshot(w)
              \/ \E p \in Proposals : FinishVote(w, p)
              \/ \E m \in messages : StartResults(w, m)
<1> DEFINE Same ==
      \A v \in Workers :
        /\ \A p \in Proposals : Freezing(jobs'[v], p) => Freezing(jobs[v], p)
        /\ Ending(jobs'[v]) => Ending(jobs[v]) /\ jobs'[v].rest \subseteq jobs[v].rest
<1>1. /\ status \in [Proposals -> {"QUEUED", "VOTING", "VOTED"}]
      /\ messages \subseteq Message
      /\ jobs \in [Workers -> Job]
      /\ votes \in [Proposals -> [current : Tally, frozen : Tally \cup {NULL}]]
  BY DEF TypeInv, TypeOK
<1>2. UNCHANGED jobs => Same
  OBVIOUS
<1>3. ASSUME Same, status' = status, votes' = votes,
             \A p \in Proposals : Results(p, TRUE) \in messages' => Results(p, TRUE) \in messages
      PROVE  FreezeCalm
  BY <1>3 DEF FreezeCalm
<1>4. \A p, q \in Proposals : Results(p, FALSE) # Results(q, TRUE) /\ Send(p) # Results(q, TRUE)
  BY DEF Results, Send
<1>5. CASE UNCHANGED vars
  BY <1>2, <1>3, <1>5 DEF vars, database
<1>6. ASSUME NEW p \in Proposals, StartVote(p)
      PROVE  FreezeCalm
  <2>1. /\ Same /\ votes' = votes /\ messages' = messages
        /\ \A q \in Proposals : status'[q] = status[q] \/ (status[q] = "QUEUED" /\ status'[q] = "VOTING")
    BY <1>1, <1>2, <1>6 DEF StartVote
  <2> HIDE DEF Same
  <2>2. Same => /\ \A v \in Workers : \A q \in Proposals : Freezing(jobs'[v], q) => Freezing(jobs[v], q)
                /\ \A v \in Workers : Ending(jobs'[v]) => Ending(jobs[v]) /\ jobs'[v].rest \subseteq jobs[v].rest
    BY DEF Same
  <2>3. QED
    BY <2>1, <2>2 DEF FreezeCalm
<1>7. ASSUME NEW p \in Proposals, EnqueueUpdate(p)
      PROVE  FreezeCalm
  BY <1>2, <1>3, <1>4, <1>7 DEF EnqueueUpdate, database
<1>8. ASSUME NEW p \in Proposals, LeaseEnds(p) \/ \E t \in Tally : Vote(p, t)
      PROVE  FreezeCalm
  BY <1>2, <1>3, <1>8 DEF LeaseEnds, Vote, database
<1>9. ASSUME NEW i \in Tx, NEW outcome \in {"SUCCESS", "FAILED", "GONE"}, Include(i, outcome)
      PROVE  FreezeCalm
  BY <1>2, <1>3, <1>9 DEF Include, database
<1>10. ASSUME NEW w \in Workers, StartPoll(w) \/ StartRetry(w) \/ Crash(w)
       PROVE  FreezeCalm
  <2>1. PICK job : Goes(w, job) /\ job.pc \in {"poll", "mark", "idle"}
    <3>1. \A todo, rest : /\ [IdleJob EXCEPT !.pc = "poll", !.todo = todo].pc = "poll"
                          /\ [IdleJob EXCEPT !.pc = "mark", !.rest = rest].pc = "mark"
                          /\ IdleJob.pc = "idle"
      BY DEF IdleJob
    <3>2. QED
      BY <1>10, <3>1 DEF StartPoll, StartRetry, Crash
  <2>2. Same
    BY <2>1, FreezeGoes
  <2>3. QED
    BY <1>3, <1>10, <2>2 DEF StartPoll, StartRetry, Crash, database
<1>11. ASSUME NEW w \in Workers, NEW m \in messages, StartSend(w, m)
       PROVE  FreezeCalm
  <2>1. Job1("send", m.proposal).pc = "send" /\ IdleJob.pc = "idle"
    BY DEF Job1, IdleJob
  <2>2. Same
    BY <1>11, <2>1, FreezeGoes DEF StartSend
  <2>3. QED
    BY <1>3, <1>11, <2>2 DEF StartSend, Take
<1>12. ASSUME NEW w \in Workers, ReadBallots(w)
       PROVE  FreezeCalm
  <2> DEFINE job == [jobs[w] EXCEPT !.pc = "snapshot", !.tally = ballots[jobs[w].proposal]]
  <2>1. /\ jobs'[w] = job /\ \A v \in Workers \ {w} : jobs'[v] = jobs[v]
        /\ jobs[w].pc = "index"
    BY <1>1, <1>12 DEF ReadBallots, Goes, At
  <2>2. job.pc = "snapshot" /\ job.proposal = jobs[w].proposal /\ job.freezing = jobs[w].freezing
    <3>1. jobs[w] \in Job
      BY <1>1
    <3>2. QED
      BY <3>1 DEF Job
  <2> HIDE DEF job
  <2>3. Same
    BY <2>1, <2>2 DEF Freezing, Ending
  <2>4. QED
    BY <1>3, <1>12, <2>3 DEF ReadBallots, database
<1>13. ASSUME NEW w \in Workers, NEW pc \in {"hold", "save", "decide", "enqueue", "submitted", "send failed",
                                             "note hash", "note failure", "answered", "note poll"},
              NEW job, job.pc = pc, Goes(w, job)
       PROVE  Same
  BY <1>13, FreezeGoes
<1>14. ASSUME NEW w \in Workers, IndexingFails(w) \/ Hold(w)
       PROVE  FreezeCalm
  <2>1. [jobs[w] EXCEPT !.pc = "hold"].pc = "hold" /\ IdleJob.pc = "idle"
    BY <1>1 DEF Job, IdleJob
  <2>2. Same
    BY <1>14, <2>1, FreezeGoes DEF IndexingFails, Hold
  <2>3. QED
    BY <1>3, <1>14, <2>2 DEF IndexingFails, Hold, database
<1>15. ASSUME NEW w \in Workers, Finalize(w)
       PROVE  FreezeCalm
  <2>1. CASE CountVotes(w)
    <3> DEFINE job == [jobs[w] EXCEPT !.pc = "save", !.result = Counted(jobs[w].proposal)]
    <3>1. job.pc = "save" /\ Goes(w, job)
      BY <1>1, <2>1 DEF CountVotes, Job
    <3> HIDE DEF job
    <3>2. QED
      BY <1>3, <1>13, <2>1, <3>1 DEF CountVotes, database
  <2>2. CASE SaveResults(w)
    <3>1. \A result, fresh : [jobs[w] EXCEPT !.pc = "decide", !.result = result, !.fresh = fresh].pc = "decide"
      BY <1>1 DEF Job
    <3>2. \E job : job.pc = "decide" /\ Goes(w, job)
      BY <2>2, <3>1 DEF SaveResults
    <3>3. QED
      BY <1>3, <1>13, <2>2, <3>2 DEF SaveResults
  <2>3. CASE Leave(w) \/ FailDecision(w) \/ SkipExecution(w)
    BY <1>3, <2>3, FreezeLoops DEF Leave, FailDecision, SkipExecution, database
  <2>4. CASE Approve(w)
    <3> DEFINE job == [jobs[w] EXCEPT !.pc = "enqueue"]
    <3>1. job.pc = "enqueue" /\ Goes(w, job)
      BY <1>1, <2>4 DEF Approve, Job
    <3> HIDE DEF job
    <3>2. QED
      BY <1>3, <1>13, <2>4, <3>1 DEF Approve
  <2>5. CASE EnqueueSend(w)
    <3>1. jobs[w].proposal \in Proposals
      BY <2>5, JobFacts, TypeParts DEF EnqueueSend, At, Placed
    <3>2. QED
      BY <1>3, <1>4, <2>5, <3>1, FreezeLoops DEF EnqueueSend, database
  <2>6. QED
    BY <1>15, <2>1, <2>2, <2>3, <2>4, <2>5 DEF Finalize
<1>16. ASSUME NEW w \in Workers, SendSteps(w)
       PROVE  FreezeCalm
  <2>1. \A tx : /\ [jobs[w] EXCEPT !.pc = "submitted", !.tx = tx].pc = "submitted"
                /\ [jobs[w] EXCEPT !.pc = "send failed"].pc = "send failed"
                /\ [jobs[w] EXCEPT !.pc = "note hash"].pc = "note hash"
                /\ [jobs[w] EXCEPT !.pc = "note failure"].pc = "note failure"
                /\ IdleJob.pc = "idle"
    BY <1>1 DEF Job, IdleJob
  <2>2. PICK job : /\ Goes(w, job)
                   /\ job.pc \in {"submitted", "send failed", "note hash", "note failure", "idle"}
    BY <1>16, <2>1 DEF SendSteps, Broadcast, NotSent, WriteSubmitted, WriteSendFailed, NoteSend
  <2>3. Same
    BY <2>2, FreezeGoes
  <2>4. UNCHANGED <<status, votes, messages>>
    BY <1>16 DEF SendSteps, Broadcast, NotSent, WriteSubmitted, WriteSendFailed, NoteSend, database
  <2>5. QED
    BY <1>3, <2>3, <2>4
<1>17. ASSUME NEW w \in Workers, Poll(w)
       PROVE  FreezeCalm
  <2>1. \A read, answer :
          /\ [jobs[w] EXCEPT !.pc = "answered", !.read = read, !.proposal = read.proposal, !.answer = answer].pc
               = "answered"
          /\ [jobs[w] EXCEPT !.pc = "note poll"].pc = "note poll"
    BY <1>1 DEF Job
  <2>2. NextSnapshot(w) \/ \E job : Goes(w, job) /\ job.pc \in {"answered", "note poll"}
    BY <1>17, <2>1 DEF Poll, AskSoroban, Synced, WritePollFailed, WritePolled, NotePoll
  <2>3. Same
    BY <2>2, FreezeGoes, FreezeLoops
  <2>4. UNCHANGED <<status, votes, messages>>
    BY <1>17 DEF Poll, AskSoroban, Synced, WritePollFailed, WritePolled, NotePoll, database
  <2>5. QED
    BY <1>3, <2>3, <2>4
<1>18. ASSUME NEW w \in Workers, Retry(w)
       PROVE  FreezeCalm
  <2>1. \A rest, p : /\ [IdleJob EXCEPT !.pc = "next", !.rest = rest].pc = "next"
                     /\ [IdleJob EXCEPT !.pc = "list"].pc = "list"
                     /\ [Job1("tally", p) EXCEPT !.rest = rest].pc = "tally"
                     /\ IdleJob.pc = "idle"
    BY DEF IdleJob, Job1
  <2>2. Same
    <3>1. MarkStale(w) => Same
      BY <2>1, FreezeGoes DEF MarkStale
    <3>2. ListRetries(w) => Same
      BY <2>1, FreezeGoes DEF ListRetries
    <3>3. ASSUME NEW p \in Proposals, NextRetry(w, p)
          PROVE  Same
      BY <2>1, <3>3, FreezeGoes DEF NextRetry
    <3>4. QED
      BY <1>18, <3>1, <3>2, <3>3 DEF Retry
  <2>3. UNCHANGED <<status, votes, messages>>
    BY <1>18 DEF Retry, MarkStale, ListRetries, NextRetry, database
  <2>4. QED
    BY <1>3, <2>2, <2>3
<1>19. QED
  BY <1>5, <1>6, <1>7, <1>8, <1>9, <1>10, <1>11, <1>12, <1>14, <1>15, <1>16, <1>17, <1>18
     DEF Next, Working, Finish, Index

(* A tick takes up open votes only, and no other tick has them.            *)
LEMMA EndingStarts ==
  ASSUME SingleFinisher, TypeInv, FreezeInv, NEW w \in Workers, StartFinish(w)
  PROVE  FreezeInv' /\ UNCHANGED votes
<1>1. PICK ended \in SUBSET {p \in Proposals : status[p] = "VOTING"} :
        Goes(w, [IdleJob EXCEPT !.pc = "finish", !.rest = ended])
  BY DEF StartFinish
<1>2. /\ jobs'[w].pc = "finish" /\ jobs'[w].rest = ended
      /\ \A v \in Workers \ {w} : jobs'[v] = jobs[v]
  BY <1>1 DEF TypeInv, TypeOK, Goes, IdleJob
<1>3. UNCHANGED <<status, votes, messages>> /\ "finish" \in Roles[w]
  BY DEF StartFinish, Free, database
<1>4. EndingOpen'
  BY <1>2, <1>3 DEF FreezeInv, EndingOpen
<1>5. \A v \in Workers, p \in Proposals : Freezing(jobs'[v], p) => Freezing(jobs[v], p)
  BY <1>2 DEF Freezing
<1>6. FreezeAlone'
  BY <1>3, <1>5 DEF FreezeInv, FreezeAlone
<1>7. QED
  BY <1>3, <1>4, <1>6 DEF FreezeInv

(* A vote that ends was open, so nobody has begun to freeze it. *)
LEMMA EndingOne ==
  ASSUME SingleFinisher, TypeInv, FreezeInv, NEW w \in Workers, NEW p \in Proposals, FinishVote(w, p)
  PROVE  FreezeInv' /\ UNCHANGED votes
<1>1. jobs[w] \in Job /\ status \in [Proposals -> {"QUEUED", "VOTING", "VOTED"}]
  BY DEF TypeInv, TypeOK
<1>2. /\ jobs'[w].pc = "freeze" /\ jobs'[w].proposal = p /\ jobs'[w].rest = jobs[w].rest \ {p}
      /\ \A v \in Workers \ {w} : jobs'[v] = jobs[v]
  <2>1. jobs' = [jobs EXCEPT ![w] = [jobs[w] EXCEPT !.pc = "freeze", !.proposal = p,
                                                    !.rest = jobs[w].rest \ {p}]]
    BY DEF FinishVote, Goes
  <2>2. jobs \in [Workers -> Job]
    BY DEF TypeInv, TypeOK
  <2>3. QED
    BY <1>1, <2>1, <2>2 DEF Job
<1>3. /\ UNCHANGED <<votes, messages>>
      /\ status'[p] = "VOTED" /\ \A q \in Proposals \ {p} : status'[q] = status[q]
      /\ Ending(jobs[w]) /\ p \in jobs[w].rest
  BY <1>1 DEF FinishVote, At, Ending
<1>4. "finish" \in Roles[w] /\ status[p] = "VOTING" /\ \A v \in Workers \ {w} : ~Ending(jobs[v])
  BY <1>3 DEF FreezeInv, EndingOpen, SingleFinisher
<1>5. /\ \A v \in Workers : ~Freezing(jobs[v], p)
      /\ Results(p, TRUE) \notin messages /\ votes[p].frozen = NULL
  BY <1>4 DEF FreezeInv, FreezeAlone
<1>6. EndingOpen'
  <2>1. \A q \in jobs'[w].rest : status'[q] = "VOTING"
    <3>1. \A q \in jobs[w].rest : q \in Proposals /\ status[q] = "VOTING"
      BY <1>3, JobFacts, TypeParts DEF FreezeInv, EndingOpen
    <3>2. QED
      BY <1>2, <1>3, <3>1
  <2>2. QED
    BY <1>2, <1>4, <2>1 DEF EndingOpen
<1>7. \A v \in Workers, q \in Proposals : Freezing(jobs'[v], q) =>
        \/ v = w /\ q = p
        \/ q # p /\ v # w /\ Freezing(jobs[v], q)
  BY <1>2, <1>5 DEF Freezing
<1>8. FreezeAlone'
  BY <1>3, <1>5, <1>7 DEF FreezeInv, FreezeAlone
<1>9. QED
  BY <1>3, <1>6, <1>8 DEF FreezeInv

(* A freeze that is queued has left its tick. *)
LEMMA FreezeQueued ==
  ASSUME TypeInv, FreezeInv, NEW w \in Workers, EnqueueFreeze(w)
  PROVE  FreezeInv' /\ UNCHANGED votes
<1> DEFINE p == jobs[w].proposal
           again == [IdleJob EXCEPT !.pc = "finish", !.rest = jobs[w].rest]
<1>1. /\ again.pc = "finish" /\ again.rest = jobs[w].rest
      /\ IdleJob.pc = "idle"
  BY DEF IdleJob
<1>2. /\ jobs'[w] \in {again, IdleJob}
      /\ \A v \in Workers \ {w} : jobs'[v] = jobs[v]
  BY DEF EnqueueFreeze, Goes, TypeInv, TypeOK
<1>3. /\ p \in Proposals /\ Ending(jobs[w]) /\ Freezing(jobs[w], p)
      /\ UNCHANGED <<status, votes>> /\ messages' = messages \cup {Results(p, TRUE)}
  BY JobFacts, TypeParts DEF EnqueueFreeze, At, Placed, Ending, Freezing, database
<1> HIDE DEF again
<1>4. EndingOpen'
  BY <1>1, <1>2, <1>3 DEF FreezeInv, EndingOpen, Ending
<1>5. \A v \in Workers, q \in Proposals : Freezing(jobs'[v], q) => v # w /\ Freezing(jobs[v], q)
  BY <1>1, <1>2 DEF Freezing
<1>6. \A q \in Proposals : Results(q, TRUE) \in messages' => Results(q, TRUE) \in messages \/ q = p
  BY <1>3 DEF Results
<1>7. FreezeAlone'
  <2>1. \A v \in Workers : ~Freezing(jobs'[v], p)
    BY <1>3, <1>5 DEF FreezeInv, FreezeAlone
  <2>2. status[p] = "VOTED" /\ votes[p].frozen = NULL
    BY <1>3 DEF FreezeInv, FreezeAlone
  <2>3. status' = status /\ votes' = votes
    BY <1>3
  <2> HIDE DEF p
  <2>4. ASSUME NEW q \in Proposals
        PROVE  /\ \A v \in Workers : Freezing(jobs'[v], q) =>
                    /\ status[q] = "VOTED"
                    /\ votes[q].frozen = NULL
                    /\ Results(q, TRUE) \notin messages'
                    /\ \A x \in Workers : Freezing(jobs'[x], q) => x = v
               /\ Results(q, TRUE) \in messages' => status[q] = "VOTED" /\ votes[q].frozen = NULL
               /\ votes[q].frozen # NULL => status[q] = "VOTED"
    <3>1. CASE q = p
      BY <2>1, <2>2, <3>1
    <3>2. CASE q # p
      BY <1>5, <1>6, <3>2 DEF FreezeInv, FreezeAlone
    <3>3. QED
      BY <3>1, <3>2
  <2>5. QED
    BY <2>3, <2>4 DEF FreezeAlone
<1>8. QED
  BY <1>3, <1>4, <1>7 DEF FreezeInv

(* A freeze that is taken has left the queue. *)
LEMMA FreezeTaken ==
  ASSUME TypeInv, FreezeInv, NEW w \in Workers, NEW m \in messages, StartResults(w, m)
  PROVE  FreezeInv' /\ UNCHANGED votes
<1> DEFINE p == m.proposal
           job == [Job1("index", p) EXCEPT !.freezing = m.freezing]
<1>1. m \in Message /\ p \in Proposals /\ m.kind = "results" /\ m.freezing \in BOOLEAN
  BY MessageTypes DEF TypeInv, TypeOK, StartResults
<1>2. m.freezing => m = Results(p, TRUE)
  BY <1>1 DEF Message, Results
<1>3. job.pc = "index" /\ job.proposal = p /\ job.freezing = m.freezing
  BY DEF Job1, IdleJob
<1>4. /\ jobs'[w] = job /\ \A v \in Workers \ {w} : jobs'[v] = jobs[v]
      /\ UNCHANGED <<status, votes>> /\ messages' = messages \ {m}
  BY DEF StartResults, Goes, Take, TypeInv, TypeOK, database
<1> HIDE DEF job
<1>5. EndingOpen'
  BY <1>3, <1>4 DEF FreezeInv, EndingOpen, Ending
<1>6. \A v \in Workers, q \in Proposals : Freezing(jobs'[v], q) =>
        \/ v # w /\ Freezing(jobs[v], q)
        \/ v = w /\ q = p /\ m.freezing
  BY <1>3, <1>4 DEF Freezing
<1>7. FreezeAlone'
  <2>1. CASE m.freezing
    <3>1. Results(p, TRUE) \in messages /\ Results(p, TRUE) \notin messages'
      BY <1>2, <1>4, <2>1
    <3>2. status[p] = "VOTED" /\ votes[p].frozen = NULL /\ \A v \in Workers : ~Freezing(jobs[v], p)
      BY <1>1, <3>1 DEF FreezeInv, FreezeAlone
    <3>3. \A q \in Proposals : Results(q, TRUE) \in messages' => Results(q, TRUE) \in messages
      BY <1>4
    <3> HIDE DEF p
    <3>4. ASSUME NEW q \in Proposals
          PROVE  /\ \A v \in Workers : Freezing(jobs'[v], q) =>
                      /\ status[q] = "VOTED"
                      /\ votes[q].frozen = NULL
                      /\ Results(q, TRUE) \notin messages'
                      /\ \A x \in Workers : Freezing(jobs'[x], q) => x = v
                 /\ Results(q, TRUE) \in messages' => status[q] = "VOTED" /\ votes[q].frozen = NULL
                 /\ votes[q].frozen # NULL => status[q] = "VOTED"
      <4>1. CASE q = p
        BY <1>6, <3>1, <3>2, <4>1
      <4>2. CASE q # p
        BY <1>6, <3>3, <4>2 DEF FreezeInv, FreezeAlone
      <4>3. QED
        BY <4>1, <4>2
    <3>5. QED
      BY <1>4, <3>4 DEF FreezeAlone
  <2>2. CASE ~m.freezing
    <3>1. /\ \A v \in Workers, q \in Proposals : Freezing(jobs'[v], q) => Freezing(jobs[v], q)
          /\ \A q \in Proposals : Results(q, TRUE) \in messages' => Results(q, TRUE) \in messages
      BY <1>4, <1>6, <2>2
    <3>2. QED
      BY <1>4, <3>1 DEF FreezeInv, FreezeAlone
  <2>3. QED
    BY <2>1, <2>2
<1>8. QED
  BY <1>4, <1>5, <1>7 DEF FreezeInv

(* What is saved replaces no frozen tally, for whoever freezes was the     *)
(* only one to do so.                                                      *)
LEMMA FreezeSaved ==
  ASSUME TypeInv, FreezeInv, NEW w \in Workers, SaveSnapshot(w)
  PROVE  /\ FreezeInv'
         /\ \A p \in Proposals : votes[p].frozen # NULL => votes'[p].frozen = votes[p].frozen
<1> DEFINE p == jobs[w].proposal
           frozen == IF jobs[w].freezing THEN jobs[w].tally ELSE votes[p].frozen
<1>1. p \in Proposals /\ votes \in [Proposals -> [current : Tally, frozen : Tally \cup {NULL}]]
  BY JobFacts, TypeParts DEF SaveSnapshot, At, Placed, TypeInv, TypeOK
<1>2. /\ UNCHANGED <<status, messages>> /\ jobs[w].pc = "snapshot"
      /\ votes'[p].frozen = frozen
      /\ \A q \in Proposals \ {p} : votes'[q] = votes[q]
  BY <1>1 DEF SaveSnapshot, At
<1>3. jobs[w].freezing => Freezing(jobs[w], p)
  BY <1>2 DEF Freezing
<1>4. votes[p].frozen # NULL => frozen = votes[p].frozen
  BY <1>1, <1>3 DEF FreezeInv, FreezeAlone
<1>5. /\ jobs'[w] = Job1("tally", p) /\ Job1("tally", p).pc = "tally"
      /\ \A v \in Workers \ {w} : jobs'[v] = jobs[v]
  BY DEF SaveSnapshot, Goes, TypeInv, TypeOK, Job1, IdleJob
<1>6. \A v \in Workers :
        /\ \A q \in Proposals : Freezing(jobs'[v], q) => v # w /\ Freezing(jobs[v], q)
        /\ Ending(jobs'[v]) => v # w /\ jobs'[v] = jobs[v]
  BY <1>5 DEF Freezing, Ending
<1>7. EndingOpen'
  BY <1>2, <1>6 DEF FreezeInv, EndingOpen
<1>8. FreezeAlone'
  <2>1. CASE jobs[w].freezing
    <3>1. /\ status[p] = "VOTED" /\ Results(p, TRUE) \notin messages
          /\ \A v \in Workers : ~Freezing(jobs'[v], p)
      BY <1>1, <1>3, <1>6, <2>1 DEF FreezeInv, FreezeAlone
    <3>2. status' = status /\ messages' = messages /\ \A q \in Proposals \ {p} : votes'[q] = votes[q]
      BY <1>2
    <3> HIDE DEF p
    <3>3. ASSUME NEW q \in Proposals
          PROVE  /\ \A v \in Workers : Freezing(jobs'[v], q) =>
                      /\ status[q] = "VOTED"
                      /\ votes'[q].frozen = NULL
                      /\ Results(q, TRUE) \notin messages
                      /\ \A x \in Workers : Freezing(jobs'[x], q) => x = v
                 /\ Results(q, TRUE) \in messages => status[q] = "VOTED" /\ votes'[q].frozen = NULL
                 /\ votes'[q].frozen # NULL => status[q] = "VOTED"
      <4>1. CASE q = p
        BY <3>1, <4>1
      <4>2. CASE q # p
        BY <1>6, <3>2, <4>2 DEF FreezeInv, FreezeAlone
      <4>3. QED
        BY <4>1, <4>2
    <3>4. QED
      BY <3>2, <3>3 DEF FreezeAlone
  <2>2. CASE ~jobs[w].freezing
    <3>1. \A q \in Proposals : votes'[q].frozen = votes[q].frozen
      <4>1. votes'[p].frozen = votes[p].frozen
        BY <1>2, <2>2, Zenon
      <4>2. QED
        BY <1>2, <4>1
    <3>2. QED
      BY <1>2, <1>6, <3>1 DEF FreezeInv, FreezeAlone
  <2>3. QED
    BY <2>1, <2>2
<1>9. QED
  BY <1>2, <1>4, <1>7, <1>8 DEF FreezeInv

(* Every step keeps the freeze alone, and what is frozen.                  *)
LEMMA FreezeStep ==
  ASSUME SingleFinisher, TypeInv, FreezeInv, [Next]_vars
  PROVE  /\ FreezeInv'
         /\ \A p \in Proposals : votes[p].frozen # NULL => votes'[p].frozen = votes[p].frozen
<1>1. CASE FreezeCalm
  BY <1>1, FreezeUndisturbed DEF FreezeCalm
<1>2. QED
  BY <1>1, FreezeSteps, EndingStarts, EndingOne, FreezeQueued, FreezeTaken, FreezeSaved

(* FrozenStays, while votes are ended by one tick at a time: whatever      *)
(* indexings are under way, retried or repeated, the snapshot of the votes *)
(* that the decision is to be taken on is never replaced.                  *)
THEOREM FrozenOnce ==
  ASSUME SingleFinisher
  PROVE  Spec => FrozenStays
<1>1. Init => TypeInv /\ FreezeInv
  <2>1. Init => FreezeInv
    <3> SUFFICES ASSUME Init PROVE FreezeInv
      OBVIOUS
    <3>1. /\ \A w \in Workers : jobs[w].pc = "idle"
          /\ messages = {} /\ \A p \in Proposals : votes[p].frozen = NULL
      BY DEF Init, IdleJob
    <3>2. QED
      BY <3>1 DEF FreezeInv, EndingOpen, FreezeAlone, Ending, Freezing
  <2>2. QED
    BY <2>1, TypeInit
<1>2. TypeInv /\ FreezeInv /\ [Next]_vars => (TypeInv /\ FreezeInv)'
  BY TypeStep, FreezeStep
<1>3. TypeInv /\ FreezeInv /\ [Next]_vars =>
        [\A p \in Proposals : votes[p].frozen # NULL => votes'[p].frozen = votes[p].frozen]_vars
  BY FreezeStep
<1>4. QED
  BY <1>1, <1>2, <1>3, PTL DEF Spec, FrozenStays

-----------------------------------------------------------------------------
(* The registry row and the contract.                                      *)

(* A transaction that was sent for a proposal, now and after a step.       *)
SentFor(tx, p)    == tx \in DOMAIN sent /\ sent[tx].proposal = p
NowSentFor(tx, p) == tx \in DOMAIN sent' /\ sent'[tx].proposal = p

(* Hashes that were noted, are about to be, or are polled were sent for    *)
(* that proposal, and an answer of success is true.                        *)
HashesTrue ==
  /\ \A p \in Proposals : execs[p].tx_hash # NULL => SentFor(execs[p].tx_hash, p)
  /\ \A w \in Workers :
       /\ jobs[w].pc = "submitted" => SentFor(jobs[w].tx, jobs[w].proposal)
       /\ \A s \in jobs[w].todo : SentFor(s.tx_hash, s.proposal)
       /\ jobs[w].pc = "answered" /\ jobs[w].answer = "SUCCESS" =>
            sent[jobs[w].read.tx_hash].state = "SUCCESS"

Executed(p) == \E i \in DOMAIN sent : sent[i].proposal = p /\ sent[i].state = "SUCCESS"

(* A transaction of p that a poll asks about, or may yet ask about. *)
Names(p, i) ==
  \/ execs[p].status = "SUBMITTED" /\ execs[p].tx_hash = i
  \/ \E w \in Workers :
       \/ jobs[w].pc = "submitted" /\ jobs[w].proposal = p /\ jobs[w].tx = i
       \/ \E s \in jobs[w].todo : s.proposal = p /\ s.tx_hash = i

(* One proposal of a token at a time has an execution open. *)
OneOpen == \A p, q \in Proposals : Open(p) /\ Open(q) /\ TokenOf[p] = TokenOf[q] => p = q

(* The row of its token says what that proposal wants. *)
RowFollows == \A p \in Proposals : Open(p) => tokens[TokenOf[p]].whitelisted = (p \in Adds)

(* If a transaction that is asked about has succeeded, the contract does   *)
(* so too: no other proposal's has succeeded since.                        *)
ContractFollows ==
  \A p \in Proposals : \A i \in DOMAIN sent :
    Names(p, i) /\ sent[i].state = "SUCCESS" => registry[TokenOf[p]] = (p \in Adds)

SyncInv == HashesTrue /\ OneOpen /\ RowFollows /\ ContractFollows /\ SyncedMeansUpToDate

(* The network changes with a broadcast and an outcome only. *)
LEMMA SyncNetwork ==
  ASSUME [Next]_vars
  PROVE  \/ UNCHANGED <<sent, registry>>
         \/ \E w \in Workers : Broadcast(w)
         \/ \E i \in Tx, outcome \in {"SUCCESS", "FAILED", "GONE"} : Include(i, outcome)
<1>1. CASE UNCHANGED vars
  BY <1>1 DEF vars, outside
<1>2. ASSUME NEW p \in Proposals, StartVote(p) \/ EnqueueUpdate(p) \/ LeaseEnds(p) \/ \E t \in Tally : Vote(p, t)
      PROVE  UNCHANGED <<sent, registry>>
  BY <1>2 DEF StartVote, EnqueueUpdate, LeaseEnds, Vote, outside
<1>3. ASSUME NEW w \in Workers,
             \/ \E m \in messages : StartResults(w, m) \/ StartSend(w, m)
             \/ StartFinish(w) \/ StartPoll(w) \/ StartRetry(w) \/ Crash(w)
             \/ Finish(w) \/ Index(w) \/ Retry(w)
      PROVE  UNCHANGED <<sent, registry>>
  BY <1>3 DEF StartResults, StartSend, StartFinish, StartPoll, StartRetry, Crash,
              Finish, FinishVote, EnqueueFreeze, Index, ReadBallots, IndexingFails, SaveSnapshot, Hold,
              Retry, MarkStale, ListRetries, NextRetry, outside
<1>4. ASSUME NEW w \in Workers, Finalize(w) \/ Poll(w)
      PROVE  UNCHANGED <<sent, registry>>
  BY <1>4 DEF Finalize, CountVotes, SaveResults, Leave, FailDecision, SkipExecution, Approve, EnqueueSend,
              Poll, AskSoroban, Synced, WritePollFailed, WritePolled, NotePoll, outside
<1>5. ASSUME NEW w \in Workers, SendSteps(w)
      PROVE  UNCHANGED <<sent, registry>> \/ Broadcast(w)
  BY <1>5 DEF SendSteps, NotSent, WriteSubmitted, WriteSendFailed, NoteSend, outside
<1>6. QED
  BY <1>1, <1>2, <1>3, <1>4, <1>5 DEF Next, Working

(* What a broadcast and an outcome change. *)
LEMMA SentGrows ==
  ASSUME TypeInv, [Next]_vars
  PROVE  \A i \in DOMAIN sent :
           /\ i \in DOMAIN sent'
           /\ sent'[i].proposal = sent[i].proposal
           /\ sent[i].state = "SUCCESS" => sent'[i].state = "SUCCESS"
<1>1. sent \in Seq(Transaction)
  BY DEF TypeInv, TypeOK
<1>2. ASSUME NEW w \in Workers, Broadcast(w), NEW i \in DOMAIN sent
      PROVE  i \in DOMAIN sent' /\ sent'[i] = sent[i]
  <2>1. PICK t : sent' = Append(sent, t)
    BY <1>2 DEF Broadcast
  <2>2. QED
    BY <1>1, <1>2, <2>1
<1>3. ASSUME NEW j \in Tx, NEW outcome \in {"SUCCESS", "FAILED", "GONE"}, Include(j, outcome), NEW i \in DOMAIN sent
      PROVE  /\ i \in DOMAIN sent'
             /\ sent'[i].proposal = sent[i].proposal
             /\ sent[i].state = "SUCCESS" => sent'[i].state = "SUCCESS"
  <2>1. sent' = [sent EXCEPT ![j].state = outcome] /\ j \in DOMAIN sent /\ sent[j].state = "PENDING"
    BY <1>3 DEF Include
  <2>2. sent[j] \in Transaction
    BY <1>1, <2>1
  <2>3. QED
    BY <1>1, <1>3, <2>1, <2>2 DEF Transaction
<1>4. QED
  BY <1>2, <1>3, SyncNetwork

(* A token's row changes with a decision, a hold, and the notes of the     *)
(* sender and the poller.                                                  *)
LEMMA SyncRows ==
  ASSUME TypeInv, [Next]_vars, NEW k \in Tokens
  PROVE  \/ \E w \in Workers : /\ Approve(w) /\ TokenOf[jobs[w].proposal] = k
                               /\ tokens'[k] = WithResult(tokens[k], jobs[w].proposal)
         \/ /\ tokens'[k].whitelisted = tokens[k].whitelisted
            /\ tokens'[k].sync = "SYNCED" =>
                 \/ tokens[k].sync = "SYNCED"
                 \/ \E w \in Workers : Synced(w) /\ TokenOf[jobs[w].proposal] = k
<1>1. tokens \in [Tokens -> TokenRow] /\ tokens[k] \in TokenRow
  BY DEF TypeInv, TypeOK
<1>2. CASE UNCHANGED tokens
  BY <1>2
<1>3. ASSUME NEW w \in Workers, Hold(w)
      PROVE  /\ tokens'[k].whitelisted = tokens[k].whitelisted
             /\ tokens'[k].sync = "SYNCED" => tokens[k].sync = "SYNCED"
  <2>1. tokens'[k] = tokens[k] \/ tokens'[k] = HeldToken(tokens[k])
    BY <1>1, <1>3 DEF Hold
  <2>2. QED
    BY <1>1, <2>1 DEF HeldToken, TokenRow
<1>4. ASSUME NEW w \in Workers, Approve(w)
      PROVE  \/ /\ TokenOf[jobs[w].proposal] = k
                /\ tokens'[k] = WithResult(tokens[k], jobs[w].proposal)
             \/ tokens'[k] = tokens[k]
  BY <1>1, <1>4 DEF Approve
<1>5. ASSUME NEW w \in Workers, NoteSend(w) \/ NotePoll(w)
      PROVE  /\ tokens'[k].whitelisted = tokens[k].whitelisted
             /\ tokens'[k].sync = "SYNCED" => tokens[k].sync = "SYNCED"
  <2>1. \/ tokens'[k] = tokens[k]
        \/ tokens'[k] = [tokens[k] EXCEPT !.sync_tx = jobs[w].tx]
        \/ \E s \in {"FAILED", "REQUIRES_REVIEW"} : tokens'[k] = [tokens[k] EXCEPT !.sync = s]
    BY <1>1, <1>5 DEF NoteSend, NotePoll
  <2>2. QED
    BY <1>1, <2>1 DEF TokenRow
<1>6. ASSUME NEW w \in Workers, Synced(w)
      PROVE  /\ tokens'[k].whitelisted = tokens[k].whitelisted
             /\ TokenOf[jobs[w].proposal] # k => tokens'[k] = tokens[k]
  <2>1. \/ tokens'[k] = tokens[k]
        \/ tokens'[k] = [tokens[k] EXCEPT !.sync = "SYNCED"] /\ TokenOf[jobs[w].proposal] = k
    BY <1>1, <1>6 DEF Synced
  <2>2. QED
    BY <1>1, <2>1 DEF TokenRow
<1>7. CASE UNCHANGED vars
  BY <1>2, <1>7 DEF vars, database
<1>8. ASSUME NEW p \in Proposals, StartVote(p) \/ EnqueueUpdate(p) \/ LeaseEnds(p) \/ \E t \in Tally : Vote(p, t)
      PROVE  UNCHANGED tokens
  BY <1>8 DEF StartVote, EnqueueUpdate, LeaseEnds, Vote, database
<1>9. ASSUME NEW i \in Tx, NEW outcome \in {"SUCCESS", "FAILED", "GONE"}, Include(i, outcome)
      PROVE  UNCHANGED tokens
  BY <1>9 DEF Include, database
<1>10. ASSUME NEW w \in Workers,
             \/ \E m \in messages : StartResults(w, m) \/ StartSend(w, m)
             \/ StartFinish(w) \/ StartPoll(w) \/ StartRetry(w) \/ Crash(w)
             \/ Finish(w) \/ ReadBallots(w) \/ IndexingFails(w) \/ SaveSnapshot(w) \/ Retry(w)
      PROVE  UNCHANGED tokens
  BY <1>10 DEF StartResults, StartSend, StartFinish, StartPoll, StartRetry, Crash,
              Finish, FinishVote, EnqueueFreeze, ReadBallots, IndexingFails, SaveSnapshot,
              Retry, MarkStale, ListRetries, NextRetry, database
<1>11. ASSUME NEW w \in Workers, Finalize(w) \/ Poll(w) \/ SendSteps(w)
      PROVE  UNCHANGED tokens \/ Approve(w) \/ Synced(w) \/ NotePoll(w) \/ NoteSend(w)
  BY <1>11 DEF Finalize, CountVotes, SaveResults, Leave, FailDecision, SkipExecution, EnqueueSend,
              Poll, AskSoroban, WritePollFailed, WritePolled,
              SendSteps, Broadcast, NotSent, WriteSubmitted, WriteSendFailed, database
<1>12. QED
  BY <1>2, <1>3, <1>4, <1>5, <1>6, <1>7, <1>8, <1>9, <1>10, <1>11 DEF Next, Working, Index

(* A hash is noted by the worker that sent it. *)
LEMMA HashesNoted ==
  ASSUME TypeInv, [Next]_vars, NEW p \in Proposals
  PROVE  \/ execs'[p].tx_hash \in {execs[p].tx_hash, NULL}
         \/ \E w \in Workers : /\ jobs[w].pc = "submitted" /\ jobs[w].proposal = p
                               /\ execs'[p].tx_hash = jobs[w].tx
<1>1. execs \in [Proposals -> Execution] /\ execs[p] \in Execution /\ messages \subseteq Message
  BY DEF TypeInv, TypeOK
<1>2. CASE UNCHANGED execs
  BY <1>2
<1>3. CASE UNCHANGED vars
  BY <1>2, <1>3 DEF vars, database
<1>4. ASSUME NEW q \in Proposals, StartVote(q) \/ EnqueueUpdate(q) \/ LeaseEnds(q) \/ \E t \in Tally : Vote(q, t)
      PROVE  execs'[p].tx_hash = execs[p].tx_hash
  <2>1. UNCHANGED execs \/ execs' = [execs EXCEPT ![q].started = "lease over"]
    BY <1>4 DEF StartVote, EnqueueUpdate, LeaseEnds, Vote, database
  <2>2. [execs[q] EXCEPT !.started = "lease over"].tx_hash = execs[q].tx_hash
    BY <1>1 DEF Execution
  <2>3. execs'[p] = execs[p] \/ (p = q /\ execs'[p] = [execs[q] EXCEPT !.started = "lease over"])
    BY <1>1, <2>1
  <2>4. QED
    BY <2>2, <2>3
<1>5. ASSUME NEW i \in Tx, NEW outcome \in {"SUCCESS", "FAILED", "GONE"}, Include(i, outcome)
      PROVE  UNCHANGED execs
  BY <1>5 DEF Include, database
<1>6. ASSUME NEW w \in Workers,
             \/ \E m \in messages : StartResults(w, m)
             \/ StartFinish(w) \/ StartPoll(w) \/ StartRetry(w) \/ Crash(w)
             \/ Finish(w) \/ ReadBallots(w) \/ IndexingFails(w) \/ SaveSnapshot(w)
             \/ ListRetries(w) \/ \E q \in Proposals : NextRetry(w, q)
      PROVE  UNCHANGED execs
  BY <1>6 DEF StartResults, StartFinish, StartPoll, StartRetry, Crash,
              Finish, FinishVote, EnqueueFreeze, ReadBallots, IndexingFails, SaveSnapshot,
              ListRetries, NextRetry, database
<1>7. ASSUME NEW w \in Workers, Hold(w) \/ MarkStale(w)
      PROVE  execs'[p].tx_hash = execs[p].tx_hash
  <2>1. execs'[p] \in {execs[p], InReview(execs[p])}
    BY <1>1, <1>7 DEF Hold, MarkStale
  <2>2. QED
    BY <1>1, <2>1, ExecColumns
<1>8. ASSUME NEW w \in Workers, Finalize(w)
      PROVE  execs'[p].tx_hash \in {execs[p].tx_hash, NULL}
  <2>1. execs'[p] \in {execs[p], Fresh("FAILED"), Fresh("SKIPPED"), Fresh("PENDING")}
    BY <1>1, <1>8 DEF Finalize, CountVotes, SaveResults, Leave, FailDecision, SkipExecution, Approve, EnqueueSend,
                      database
  <2>2. QED
    BY <2>1 DEF Fresh
<1>9. ASSUME NEW w \in Workers, NEW m \in messages, StartSend(w, m)
      PROVE  execs'[p].tx_hash = execs[p].tx_hash
  <2>1. execs'[p] \in {execs[p], Claimed(execs[p])}
    BY <1>1, <1>9 DEF StartSend
  <2>2. QED
    BY <1>1, <2>1, ExecColumns
<1>10. ASSUME NEW w \in Workers, SendSteps(w)
       PROVE  \/ execs'[p].tx_hash \in {execs[p].tx_hash, NULL}
              \/ /\ jobs[w].pc = "submitted" /\ jobs[w].proposal = p
                 /\ execs'[p].tx_hash = jobs[w].tx
  <2>1. \/ execs'[p] \in {execs[p], SendFailed(execs[p])}
        \/ /\ jobs[w].pc = "submitted" /\ jobs[w].proposal = p
           /\ execs'[p] = Submitted(execs[p], jobs[w].tx)
    BY <1>1, <1>10 DEF SendSteps, Broadcast, NotSent, WriteSubmitted, WriteSendFailed, NoteSend, At, database
  <2>2. QED
    BY <1>1, <2>1, ExecColumns
<1>11. ASSUME NEW w \in Workers, Poll(w)
       PROVE  execs'[p].tx_hash = execs[p].tx_hash
  <2>1. \/ execs'[p] \in {execs[p], PollFailed(execs[p], jobs[w].read.polls), Polled(execs[p], jobs[w].read.polls)}
        \/ execs'[p] = [execs[p] EXCEPT !.status = "SUCCESS"]
    BY <1>1, <1>11 DEF Poll, AskSoroban, Synced, WritePollFailed, WritePolled, NotePoll, database
  <2>2. [execs[p] EXCEPT !.status = "SUCCESS"].tx_hash = execs[p].tx_hash
    BY <1>1 DEF Execution
  <2>3. \A polls : /\ PollFailed(execs[p], polls).tx_hash = execs[p].tx_hash
                   /\ Polled(execs[p], polls).tx_hash = execs[p].tx_hash
    BY <1>1, ExecColumns
  <2>4. QED
    BY <2>1, <2>2, <2>3
<1>12. QED
  BY <1>2, <1>3, <1>4, <1>5, <1>6, <1>7, <1>8, <1>9, <1>10, <1>11 DEF Next, Working, Index, Retry

(* A worker that takes nothing up that matters to the registry row, asks   *)
(* for nothing and has nothing more to poll.                               *)
Quiet(w) ==
  \/ jobs'[w] = jobs[w]
  \/ /\ jobs'[w].pc \notin {"enqueue", "send", "submitted", "answered"}
     /\ jobs'[w].todo \subseteq jobs[w].todo

Others(w) == \A v \in Workers \ {w} : jobs'[v] = jobs[v]

(* One worker moves on, quietly. *)
LEMMA QuietMove ==
  ASSUME TypeInv, NEW w \in Workers, NEW job, Goes(w, job),
         job.pc \notin {"enqueue", "send", "submitted", "answered"}, job.todo \subseteq jobs[w].todo
  PROVE  \A v \in Workers : Quiet(v)
  BY DEF TypeInv, TypeOK, Goes, Quiet

(* The loops are quiet. *)
LEMMA QuietLoops ==
  ASSUME TypeInv, NEW w \in Workers, Onward(w) \/ NextSnapshot(w)
  PROVE  \A v \in Workers : Quiet(v)
<1> DEFINE todo == jobs[w].todo \ {jobs[w].read}
           next == [IdleJob EXCEPT !.pc = "next", !.rest = jobs[w].rest]
           poll == [IdleJob EXCEPT !.pc = "poll", !.todo = todo]
<1>1. /\ IdleJob.pc = "idle" /\ IdleJob.todo = {}
      /\ next.pc = "next" /\ next.todo = {}
  BY DEF IdleJob
<1>2. poll.pc = "poll" /\ poll.todo = todo
  <2> HIDE DEF todo
  <2>1. QED
    BY DEF IdleJob
<1>3. todo \subseteq jobs[w].todo
  OBVIOUS
<1>4. Goes(w, next) \/ Goes(w, poll) \/ Goes(w, IdleJob)
  BY DEF Onward, NextSnapshot
<1> HIDE DEF todo, next, poll
<1>5. QED
  BY <1>1, <1>2, <1>3, <1>4, QuietMove

(* Only five kinds of step are not. *)
LEMMA QuietJobs ==
  ASSUME TypeInv, [Next]_vars
  PROVE  \/ \A v \in Workers : Quiet(v)
         \/ \E w \in Workers :
              /\ Others(w)
              /\ \/ Broadcast(w) \/ AskSoroban(w) \/ StartPoll(w) \/ Approve(w)
                 \/ \E m \in messages : StartSend(w, m)
<1>1. jobs \in [Workers -> Job]
  BY DEF TypeInv, TypeOK
<1>2. UNCHANGED jobs => \A v \in Workers : Quiet(v)
  BY DEF Quiet
<1>3. CASE UNCHANGED vars
  BY <1>2, <1>3 DEF vars
<1>4. ASSUME NEW p \in Proposals, StartVote(p) \/ EnqueueUpdate(p) \/ LeaseEnds(p) \/ \E t \in Tally : Vote(p, t)
      PROVE  UNCHANGED jobs
  BY <1>4 DEF StartVote, EnqueueUpdate, LeaseEnds, Vote
<1>5. ASSUME NEW i \in Tx, NEW outcome \in {"SUCCESS", "FAILED", "GONE"}, Include(i, outcome)
      PROVE  UNCHANGED jobs
  BY <1>5 DEF Include
<1> DEFINE Harmless(job, todo) ==
      job.pc \notin {"enqueue", "send", "submitted", "answered"} /\ job.todo \subseteq todo
<1>6. /\ Harmless(IdleJob, {}) /\ Harmless([IdleJob EXCEPT !.pc = "list"], {})
      /\ \A rest : /\ Harmless([IdleJob EXCEPT !.pc = "finish", !.rest = rest], {})
                   /\ Harmless([IdleJob EXCEPT !.pc = "mark", !.rest = rest], {})
                   /\ Harmless([IdleJob EXCEPT !.pc = "next", !.rest = rest], {})
      /\ \A p : /\ Harmless(Job1("tally", p), {})
                /\ \A freezing : Harmless([Job1("index", p) EXCEPT !.freezing = freezing], {})
                /\ \A rest : Harmless([Job1("tally", p) EXCEPT !.rest = rest], {})
  BY DEF IdleJob, Job1
<1>7. ASSUME NEW w \in Workers,
             \/ \E m \in messages : StartResults(w, m)
             \/ StartFinish(w) \/ StartRetry(w) \/ Crash(w) \/ Retry(w)
             \/ EnqueueFreeze(w) \/ SaveSnapshot(w) \/ Hold(w) \/ NoteSend(w)
      PROVE  \A v \in Workers : Quiet(v)
  <2> SUFFICES \E job : Goes(w, job) /\ Harmless(job, {})
    BY QuietMove
  <2> HIDE DEF Harmless
  <2>1. ASSUME NEW m \in messages, StartResults(w, m)
        PROVE  \E job : Goes(w, job) /\ Harmless(job, {})
    BY <1>6, <2>1 DEF StartResults
  <2>2. CASE StartFinish(w) \/ StartRetry(w)
    BY <1>6, <2>2 DEF StartFinish, StartRetry
  <2>3. CASE EnqueueFreeze(w) \/ ListRetries(w)
    BY <1>6, <2>3 DEF EnqueueFreeze, ListRetries
  <2>4. CASE Crash(w) \/ Hold(w) \/ NoteSend(w) \/ MarkStale(w)
    BY <1>6, <2>4 DEF Crash, Hold, NoteSend, MarkStale
  <2>5. CASE SaveSnapshot(w)
    BY <1>6, <2>5 DEF SaveSnapshot
  <2>6. ASSUME NEW p \in Proposals, NextRetry(w, p)
        PROVE  \E job : Goes(w, job) /\ Harmless(job, {})
    BY <1>6, <2>6 DEF NextRetry
  <2>7. QED
    BY <1>7, <2>1, <2>2, <2>3, <2>4, <2>5, <2>6 DEF Retry
<1>8. ASSUME NEW w \in Workers,
             \/ \E p \in Proposals : FinishVote(w, p)
             \/ ReadBallots(w) \/ IndexingFails(w) \/ CountVotes(w) \/ SaveResults(w)
             \/ NotSent(w) \/ WriteSubmitted(w) \/ WriteSendFailed(w)
      PROVE  \A v \in Workers : Quiet(v)
  <2>1. jobs[w] \in Job
    BY <1>1
  <2> DEFINE todo == jobs[w].todo
  <2>2. \A p, rest : Harmless([jobs[w] EXCEPT !.pc = "freeze", !.proposal = p, !.rest = rest], todo)
    BY <2>1 DEF Job
  <2>3. \A tally : Harmless([jobs[w] EXCEPT !.pc = "snapshot", !.tally = tally], todo)
    BY <2>1 DEF Job
  <2>4. \A result, fresh :
          /\ Harmless([jobs[w] EXCEPT !.pc = "save", !.result = result], todo)
          /\ Harmless([jobs[w] EXCEPT !.pc = "decide", !.result = result, !.fresh = fresh], todo)
    BY <2>1 DEF Job
  <2>5. /\ Harmless(IdleJob, todo)
        /\ Harmless([jobs[w] EXCEPT !.pc = "hold"], todo)
        /\ Harmless([jobs[w] EXCEPT !.pc = "send failed"], todo)
        /\ Harmless([jobs[w] EXCEPT !.pc = "note hash"], todo)
        /\ Harmless([jobs[w] EXCEPT !.pc = "note failure"], todo)
    BY <1>6, <2>1 DEF Job
  <2> SUFFICES \E job : Goes(w, job) /\ Harmless(job, todo)
    BY QuietMove
  <2> HIDE DEF Harmless, todo
  <2>6. ASSUME NEW p \in Proposals, FinishVote(w, p)
        PROVE  \E job : Goes(w, job) /\ Harmless(job, todo)
    BY <2>2, <2>6 DEF FinishVote
  <2>7. CASE ReadBallots(w) \/ IndexingFails(w)
    BY <2>3, <2>5, <2>7 DEF ReadBallots, IndexingFails
  <2>8. CASE CountVotes(w) \/ SaveResults(w)
    BY <2>4, <2>8 DEF CountVotes, SaveResults
  <2>9. CASE NotSent(w) \/ WriteSubmitted(w) \/ WriteSendFailed(w)
    BY <2>5, <2>9 DEF NotSent, WriteSubmitted, WriteSendFailed
  <2>10. QED
    BY <1>8, <2>6, <2>7, <2>8, <2>9
<1>9. ASSUME NEW w \in Workers,
             \/ Leave(w) \/ FailDecision(w) \/ SkipExecution(w) \/ EnqueueSend(w)
             \/ Synced(w) \/ WritePollFailed(w) \/ WritePolled(w) \/ NotePoll(w)
      PROVE  \A v \in Workers : Quiet(v)
  <2>1. jobs[w] \in Job
    BY <1>1
  <2>2. [jobs[w] EXCEPT !.pc = "note poll"].pc = "note poll" /\ [jobs[w] EXCEPT !.pc = "note poll"].todo = jobs[w].todo
    BY <2>1 DEF Job
  <2>3. Onward(w) \/ NextSnapshot(w) \/ Goes(w, [jobs[w] EXCEPT !.pc = "note poll"])
    BY <1>9 DEF Leave, FailDecision, SkipExecution, EnqueueSend, Synced, WritePollFailed, WritePolled, NotePoll
  <2>4. QED
    BY <2>2, <2>3, QuietMove, QuietLoops
<1>10. ASSUME NEW w \in Workers,
              \/ Broadcast(w) \/ AskSoroban(w) \/ StartPoll(w) \/ Approve(w)
              \/ \E m \in messages : StartSend(w, m)
       PROVE  Others(w)
  BY <1>1, <1>10 DEF Broadcast, AskSoroban, StartPoll, Approve, StartSend, Goes, Others
<1>11. QED
  BY <1>2, <1>3, <1>4, <1>5, <1>7, <1>8, <1>9, <1>10
     DEF Next, Working, Finish, Index, Finalize, SendSteps, Poll

(* A send is queued for what is approved. *)
LEMMA SendsQueued ==
  ASSUME TypeInv, [Next]_vars, NEW p \in Proposals, Send(p) \in messages'
  PROVE  \/ Send(p) \in messages
         \/ \E w \in Workers : jobs[w].pc = "enqueue" /\ jobs[w].proposal = p
<1>1. \A q, freezing, some : Send(p) \in some \cup {Results(q, freezing)} => Send(p) \in some
  BY DEF Results, Send
<1>2. \A q : Send(q) = Send(p) => q = p
  BY DEF Send
<1>3. CASE UNCHANGED vars
  BY <1>3 DEF vars
<1>4. ASSUME NEW q \in Proposals, StartVote(q) \/ EnqueueUpdate(q) \/ LeaseEnds(q) \/ \E t \in Tally : Vote(q, t)
      PROVE  Send(p) \in messages
  BY <1>1, <1>4 DEF StartVote, EnqueueUpdate, LeaseEnds, Vote
<1>5. ASSUME NEW i \in Tx, NEW outcome \in {"SUCCESS", "FAILED", "GONE"}, Include(i, outcome)
      PROVE  Send(p) \in messages
  BY <1>5 DEF Include
<1>6. ASSUME NEW w \in Workers,
             \/ \E m \in messages : StartResults(w, m) \/ StartSend(w, m)
             \/ StartFinish(w) \/ StartPoll(w) \/ StartRetry(w) \/ Crash(w)
             \/ Finish(w) \/ Index(w) \/ Retry(w)
      PROVE  Send(p) \in messages
  BY <1>1, <1>6 DEF StartResults, StartSend, Take, StartFinish, StartPoll, StartRetry, Crash,
              Finish, FinishVote, EnqueueFreeze, Index, ReadBallots, IndexingFails, SaveSnapshot, Hold,
              Retry, MarkStale, ListRetries, NextRetry
<1>7. ASSUME NEW w \in Workers, Finalize(w) \/ Poll(w) \/ SendSteps(w)
      PROVE  Send(p) \in messages \/ (jobs[w].pc = "enqueue" /\ jobs[w].proposal = p)
  BY <1>2, <1>7 DEF Finalize, CountVotes, SaveResults, Leave, FailDecision, SkipExecution, Approve, EnqueueSend,
              Poll, AskSoroban, Synced, WritePollFailed, WritePolled, NotePoll,
              SendSteps, Broadcast, NotSent, WriteSubmitted, WriteSendFailed, NoteSend, At
<1>8. QED
  BY <1>3, <1>4, <1>5, <1>6, <1>7 DEF Next, Working

(* What was sent for a proposal stays so. *)
LEMMA SentForStays ==
  ASSUME TypeInv, [Next]_vars
  PROVE  \A tx, p : SentFor(tx, p) => NowSentFor(tx, p)
  BY SentGrows DEF SentFor, NowSentFor

(* A broadcast is for the proposal its worker holds. *)
LEMMA BroadcastFor ==
  ASSUME TypeInv, NEW w \in Workers, Broadcast(w)
  PROVE  /\ jobs[w].pc = "send" /\ jobs[w].proposal \in Proposals
         /\ \A i \in DOMAIN sent' : i \in DOMAIN sent \/ (/\ sent'[i].proposal = jobs[w].proposal
                                                          /\ sent'[i].state # "SUCCESS")
         /\ \A i \in DOMAIN sent : sent'[i] = sent[i]
         /\ jobs'[w].pc = "submitted" => /\ NowSentFor(jobs'[w].tx, jobs'[w].proposal)
                                         /\ jobs'[w].proposal = jobs[w].proposal
                                         /\ sent'[jobs'[w].tx].state # "SUCCESS"
         /\ jobs'[w].pc \notin {"enqueue", "send", "answered"}
         /\ jobs'[w].todo = jobs[w].todo
<1>1. PICK state \in {"PENDING", "GONE"}, known \in BOOLEAN :
        /\ sent' = Append(sent, [proposal |-> jobs[w].proposal, state |-> state, known |-> known])
        /\ Goes(w, IF known
                   THEN [jobs[w] EXCEPT !.pc = "submitted", !.tx = Len(sent) + 1]
                   ELSE [jobs[w] EXCEPT !.pc = "send failed"])
  BY WorkersAssumption DEF Broadcast
<1>2. sent \in Seq(Transaction) /\ jobs \in [Workers -> Job] /\ jobs[w] \in Job
  BY DEF TypeInv, TypeOK
<1>3. jobs[w].pc = "send" /\ jobs[w].proposal \in Proposals
  BY JobFacts, TypeParts DEF Broadcast, At, Placed
<1>4. /\ DOMAIN sent' = DOMAIN sent \cup {Len(sent) + 1}
      /\ \A i \in DOMAIN sent : sent'[i] = sent[i]
      /\ sent'[Len(sent) + 1] = [proposal |-> jobs[w].proposal, state |-> state, known |-> known]
  <2> DEFINE t == [proposal |-> jobs[w].proposal, state |-> state, known |-> known]
  <2>1. sent' = Append(sent, t) /\ sent \in Seq(Transaction)
    BY <1>1, <1>2
  <2> HIDE DEF t
  <2>2. /\ DOMAIN sent' = 1..Len(sent) + 1 /\ DOMAIN sent = 1..Len(sent) /\ Len(sent) \in Nat
        /\ \A i \in DOMAIN sent : sent'[i] = sent[i]
        /\ sent'[Len(sent) + 1] = t
    BY <2>1
  <2>3. QED
    BY <2>2 DEF t
<1> DEFINE new == Len(sent) + 1
<1>5. /\ [jobs[w] EXCEPT !.pc = "submitted", !.tx = new].pc = "submitted"
      /\ [jobs[w] EXCEPT !.pc = "submitted", !.tx = new].tx = new
      /\ [jobs[w] EXCEPT !.pc = "submitted", !.tx = new].proposal = jobs[w].proposal
      /\ [jobs[w] EXCEPT !.pc = "submitted", !.tx = new].todo = jobs[w].todo
      /\ [jobs[w] EXCEPT !.pc = "send failed"].pc = "send failed"
      /\ [jobs[w] EXCEPT !.pc = "send failed"].todo = jobs[w].todo
  <2> HIDE DEF new
  <2> QED
    BY <1>2 DEF Job
<1>6. /\ known => jobs'[w] = [jobs[w] EXCEPT !.pc = "submitted", !.tx = new]
      /\ ~known => jobs'[w] = [jobs[w] EXCEPT !.pc = "send failed"]
  BY <1>1, <1>2 DEF Goes
<1>7. /\ jobs'[w].pc = "submitted" => jobs'[w].tx = new /\ jobs'[w].proposal = jobs[w].proposal
      /\ jobs'[w].pc \in {"submitted", "send failed"} /\ jobs'[w].todo = jobs[w].todo
  BY <1>5, <1>6
<1>8. /\ new \in DOMAIN sent' /\ sent'[new].proposal = jobs[w].proposal /\ sent'[new].state # "SUCCESS"
      /\ \A i \in DOMAIN sent' : i \in DOMAIN sent \/ i = new
  BY <1>4
<1> HIDE DEF new
<1>9. QED
  BY <1>3, <1>4, <1>7, <1>8 DEF NowSentFor

(* A poll starts from what the rows name. *)
LEMMA PollFor ==
  ASSUME TypeInv, HashesTrue, NEW w \in Workers, StartPoll(w)
  PROVE  /\ jobs'[w].pc = "poll"
         /\ \A s \in jobs'[w].todo : /\ SentFor(s.tx_hash, s.proposal)
                                      /\ execs[s.proposal].status = "SUBMITTED"
                                      /\ execs[s.proposal].tx_hash = s.tx_hash
<1> DEFINE todo == {[proposal |-> p, tx_hash |-> execs[p].tx_hash, polls |-> execs[p].polls] : p \in Pollable}
<1>1. \A s \in todo : \E p \in Pollable : s.proposal = p /\ s.tx_hash = execs[p].tx_hash
  OBVIOUS
<1>2. \A s \in todo : /\ SentFor(s.tx_hash, s.proposal)
                      /\ execs[s.proposal].status = "SUBMITTED"
                      /\ execs[s.proposal].tx_hash = s.tx_hash
  BY <1>1 DEF Pollable, HashesTrue
<1>3. jobs' = [jobs EXCEPT ![w] = [IdleJob EXCEPT !.pc = "poll", !.todo = todo]]
  BY DEF StartPoll, Goes
<1> HIDE DEF todo
<1>4. jobs'[w].pc = "poll" /\ jobs'[w].todo = todo
  BY <1>3 DEF TypeInv, TypeOK, IdleJob
<1>5. QED
  BY <1>2, <1>4

(* What Soroban answers is what the network holds. *)
LEMMA AnswerFor ==
  ASSUME TypeInv, NEW w \in Workers, AskSoroban(w)
  PROVE  /\ jobs'[w].pc = "answered" /\ jobs'[w].todo = jobs[w].todo
         /\ jobs'[w].answer = "SUCCESS" => sent[jobs'[w].read.tx_hash].state = "SUCCESS"
<1>1. PICK read, answer :
        /\ answer \in SorobanAnswers(read.tx_hash)
        /\ jobs' = [jobs EXCEPT ![w] = [jobs[w] EXCEPT !.pc = "answered", !.read = read,
                                                       !.proposal = read.proposal, !.answer = answer]]
  BY DEF AskSoroban, Goes
<1>2. jobs \in [Workers -> Job] /\ jobs[w] \in Job
  BY DEF TypeInv, TypeOK
<1>3. /\ jobs'[w].pc = "answered" /\ jobs'[w].todo = jobs[w].todo
      /\ jobs'[w].read = read /\ jobs'[w].answer = answer
  BY <1>1, <1>2 DEF Job
<1>4. answer = "SUCCESS" => sent[read.tx_hash].state = "SUCCESS"
  BY <1>1 DEF SorobanAnswers
<1>5. QED
  BY <1>3, <1>4

(* Claims and approvals carry no hash. *)
LEMMA StartsFor ==
  ASSUME TypeInv, NEW w \in Workers, Approve(w) \/ \E m \in messages : StartSend(w, m)
  PROVE  /\ jobs'[w].pc \notin {"submitted", "answered"} /\ jobs'[w].todo \subseteq jobs[w].todo
         /\ \A p \in Proposals : jobs'[w].pc \in {"enqueue", "send"} /\ jobs'[w].proposal = p =>
              \/ Send(p) \in messages
              \/ Approve(w) /\ jobs[w].proposal = p
<1>1. jobs \in [Workers -> Job] /\ jobs[w] \in Job /\ messages \subseteq Message
  BY DEF TypeInv, TypeOK
<1>2. CASE Approve(w)
  <2>1. jobs'[w] = [jobs[w] EXCEPT !.pc = "enqueue"]
    BY <1>1, <1>2 DEF Approve, Goes
  <2>2. jobs'[w].pc = "enqueue" /\ jobs'[w].todo = jobs[w].todo /\ jobs'[w].proposal = jobs[w].proposal
    BY <1>1, <2>1 DEF Job
  <2>3. QED
    BY <1>2, <2>2
<1>3. ASSUME NEW m \in messages, StartSend(w, m)
      PROVE  /\ jobs'[w].pc \in {"send", "idle"} /\ jobs'[w].todo = {}
             /\ jobs'[w].pc = "send" => Send(jobs'[w].proposal) \in messages
  <2>1. m \in Message /\ m.kind = "send"
    BY <1>1, <1>3 DEF StartSend
  <2>2. m = Send(m.proposal)
    BY <2>1 DEF Message, Send
  <2>3. jobs'[w] \in {Job1("send", m.proposal), IdleJob}
    BY <1>1, <1>3 DEF StartSend, Goes
  <2>4. /\ Job1("send", m.proposal).pc = "send" /\ Job1("send", m.proposal).todo = {}
        /\ Job1("send", m.proposal).proposal = m.proposal
        /\ IdleJob.pc = "idle" /\ IdleJob.todo = {}
    BY DEF Job1, IdleJob
  <2>5. QED
    BY <2>2, <2>3, <2>4
<1>4. QED
  BY <1>2, <1>3

(* Hashes stay true. *)
LEMMA HashesStep ==
  ASSUME TypeInv, HashesTrue, [Next]_vars
  PROVE  HashesTrue'
<1>1. ASSUME NEW p \in Proposals, execs'[p].tx_hash # NULL
      PROVE  NowSentFor(execs'[p].tx_hash, p)
  <2>1. SentFor(execs'[p].tx_hash, p)
    BY <1>1, HashesNoted DEF HashesTrue
  <2>2. QED
    BY <2>1, SentForStays
<1> DEFINE Good(w) ==
      /\ jobs'[w].pc = "submitted" => NowSentFor(jobs'[w].tx, jobs'[w].proposal)
      /\ \A s \in jobs'[w].todo : NowSentFor(s.tx_hash, s.proposal)
      /\ jobs'[w].pc = "answered" /\ jobs'[w].answer = "SUCCESS" =>
           sent'[jobs'[w].read.tx_hash].state = "SUCCESS"
<1>2. ASSUME NEW w \in Workers
      PROVE  /\ \A s \in jobs[w].todo : NowSentFor(s.tx_hash, s.proposal)
             /\ jobs[w].pc = "submitted" => NowSentFor(jobs[w].tx, jobs[w].proposal)
  BY SentForStays DEF HashesTrue
<1>3. ASSUME NEW w \in Workers, jobs[w].pc = "answered", jobs[w].answer = "SUCCESS"
      PROVE  sent'[jobs[w].read.tx_hash].state = "SUCCESS"
  <2>1. jobs[w].read \in jobs[w].todo
    BY <1>3, JobFacts, TypeParts DEF JobOK
  <2>2. jobs[w].read.tx_hash \in DOMAIN sent
    BY <2>1 DEF HashesTrue, SentFor
  <2>3. QED
    BY <1>3, <2>2, SentGrows DEF HashesTrue
<1>4. ASSUME NEW w \in Workers, Quiet(w)
      PROVE  Good(w)
  BY <1>2, <1>3, <1>4 DEF Quiet
<1>5. ASSUME NEW w \in Workers, Broadcast(w)
      PROVE  Good(w)
  BY <1>2, <1>5, BroadcastFor
<1>6. ASSUME NEW w \in Workers, StartPoll(w)
      PROVE  Good(w)
  <2>1. jobs'[w].pc = "poll" /\ \A s \in jobs'[w].todo : SentFor(s.tx_hash, s.proposal)
    BY <1>6, PollFor
  <2>2. QED
    BY <2>1, SentForStays
<1>7. ASSUME NEW w \in Workers, AskSoroban(w)
      PROVE  Good(w)
  BY <1>2, <1>7, AnswerFor DEF AskSoroban, outside
<1>8. ASSUME NEW w \in Workers, Approve(w) \/ \E m \in messages : StartSend(w, m)
      PROVE  Good(w)
  BY <1>2, <1>8, StartsFor
<1>9. \A w \in Workers : Good(w)
  <2>1. \A w \in Workers : Others(w) => \A v \in Workers : v = w \/ Quiet(v)
    BY DEF Others, Quiet
  <2> HIDE DEF Good
  <2>2. QED
    BY <1>4, <1>5, <1>6, <1>7, <1>8, <2>1, QuietJobs
<1>10. QED
  BY <1>1, <1>9 DEF HashesTrue, SentFor, NowSentFor

(* A row is SUBMITTED from the hash its sender holds, or was so before.    *)
LEMMA SubmittedNoted ==
  ASSUME TypeInv, [Next]_vars, NEW p \in Proposals, execs'[p].status = "SUBMITTED"
  PROVE  \/ execs[p].status = "SUBMITTED" /\ execs'[p].tx_hash = execs[p].tx_hash
         \/ \E w \in Workers : /\ jobs[w].pc = "submitted" /\ jobs[w].proposal = p
                               /\ execs'[p].tx_hash = jobs[w].tx
<1>1. execs \in [Proposals -> Execution] /\ execs[p] \in Execution /\ messages \subseteq Message
  BY DEF TypeInv, TypeOK
<1> DEFINE Kept == execs[p].status = "SUBMITTED" /\ execs'[p].tx_hash = execs[p].tx_hash
<1>2. CASE UNCHANGED execs
  BY <1>2
<1>3. CASE UNCHANGED vars
  BY <1>2, <1>3 DEF vars, database
<1>4. ASSUME NEW q \in Proposals, StartVote(q) \/ EnqueueUpdate(q) \/ LeaseEnds(q) \/ \E t \in Tally : Vote(q, t)
      PROVE  Kept
  <2>1. UNCHANGED execs \/ execs' = [execs EXCEPT ![q].started = "lease over"]
    BY <1>4 DEF StartVote, EnqueueUpdate, LeaseEnds, Vote, database
  <2>2. /\ [execs[q] EXCEPT !.started = "lease over"].status = execs[q].status
        /\ [execs[q] EXCEPT !.started = "lease over"].tx_hash = execs[q].tx_hash
    BY <1>1 DEF Execution
  <2>3. execs'[p] = execs[p] \/ (p = q /\ execs'[p] = [execs[q] EXCEPT !.started = "lease over"])
    BY <1>1, <2>1
  <2>4. QED
    BY <2>2, <2>3
<1>5. ASSUME NEW i \in Tx, NEW outcome \in {"SUCCESS", "FAILED", "GONE"}, Include(i, outcome)
      PROVE  UNCHANGED execs
  BY <1>5 DEF Include, database
<1>6. ASSUME NEW w \in Workers,
             \/ \E m \in messages : StartResults(w, m)
             \/ StartFinish(w) \/ StartPoll(w) \/ StartRetry(w) \/ Crash(w)
             \/ Finish(w) \/ ReadBallots(w) \/ IndexingFails(w) \/ SaveSnapshot(w)
             \/ ListRetries(w) \/ \E q \in Proposals : NextRetry(w, q)
      PROVE  UNCHANGED execs
  BY <1>6 DEF StartResults, StartFinish, StartPoll, StartRetry, Crash,
              Finish, FinishVote, EnqueueFreeze, ReadBallots, IndexingFails, SaveSnapshot,
              ListRetries, NextRetry, database
<1>7. ASSUME NEW w \in Workers, Hold(w) \/ MarkStale(w)
      PROVE  Kept
  <2>1. execs'[p] \in {execs[p], InReview(execs[p])}
    BY <1>1, <1>7 DEF Hold, MarkStale
  <2>2. InReview(execs[p]).status = "REQUIRES_REVIEW"
    BY <1>1 DEF InReview, Execution
  <2>3. QED
    BY <2>1, <2>2
<1>8. ASSUME NEW w \in Workers, Finalize(w)
      PROVE  Kept
  <2>1. execs'[p] \in {execs[p], Fresh("FAILED"), Fresh("SKIPPED"), Fresh("PENDING")}
    BY <1>1, <1>8 DEF Finalize, CountVotes, SaveResults, Leave, FailDecision, SkipExecution, Approve, EnqueueSend,
                      database
  <2>2. QED
    BY <2>1 DEF Fresh
<1>9. ASSUME NEW w \in Workers, NEW m \in messages, StartSend(w, m)
      PROVE  Kept
  <2>1. execs'[p] \in {execs[p], Claimed(execs[p])}
    BY <1>1, <1>9 DEF StartSend
  <2>2. Claimed(execs[p]).status = "IN_PROGRESS"
    BY <1>1 DEF Claimed, Execution
  <2>3. QED
    BY <2>1, <2>2
<1>10. ASSUME NEW w \in Workers, SendSteps(w)
       PROVE  \/ Kept
              \/ /\ jobs[w].pc = "submitted" /\ jobs[w].proposal = p
                 /\ execs'[p].tx_hash = jobs[w].tx
  <2>1. \/ execs'[p] \in {execs[p], SendFailed(execs[p])}
        \/ /\ jobs[w].pc = "submitted" /\ jobs[w].proposal = p
           /\ execs'[p] = Submitted(execs[p], jobs[w].tx)
    BY <1>1, <1>10 DEF SendSteps, Broadcast, NotSent, WriteSubmitted, WriteSendFailed, NoteSend, At, database
  <2>2. SendFailed(execs[p]).status = "FAILED" /\ Submitted(execs[p], jobs[w].tx).tx_hash = jobs[w].tx
    BY <1>1 DEF SendFailed, Submitted, Execution
  <2>3. QED
    BY <2>1, <2>2
<1>11. ASSUME NEW w \in Workers, Poll(w)
       PROVE  Kept
  <2> DEFINE polls == jobs[w].read.polls
  <2>1. \/ execs'[p] \in {execs[p], PollFailed(execs[p], polls), Polled(execs[p], polls)}
        \/ execs'[p] = [execs[p] EXCEPT !.status = "SUCCESS"]
    BY <1>1, <1>11 DEF Poll, AskSoroban, Synced, WritePollFailed, WritePolled, NotePoll, database
  <2> HIDE DEF polls
  <2>2. PollFailed(execs[p], polls).status = "FAILED" /\ [execs[p] EXCEPT !.status = "SUCCESS"].status = "SUCCESS"
    BY <1>1 DEF PollFailed, Execution
  <2>3. /\ Polled(execs[p], polls).status \in {execs[p].status, "REQUIRES_REVIEW"}
        /\ Polled(execs[p], polls).tx_hash = execs[p].tx_hash
    BY <1>1 DEF Polled, Execution
  <2>4. CASE execs'[p] = Polled(execs[p], polls)
    BY <2>3, <2>4
  <2>5. QED
    BY <2>1, <2>2, <2>4
<1>12. QED
  BY <1>2, <1>3, <1>4, <1>5, <1>6, <1>7, <1>8, <1>9, <1>10, <1>11 DEF Next, Working, Index, Retry

(* What a worker may have done to hold what it does. *)
LEMMA JobBefore ==
  ASSUME TypeInv, [Next]_vars, NEW w \in Workers
  PROVE  \/ Quiet(w) \/ Broadcast(w) \/ AskSoroban(w) \/ StartPoll(w) \/ Approve(w)
         \/ \E m \in messages : StartSend(w, m)
<1>1. \A v \in Workers : v # w /\ Others(v) => Quiet(w)
  BY DEF Others, Quiet
<1>2. QED
  BY <1>1, QuietJobs

(* A poll under way has read what it asks about when the row named it.     *)
LEMMA AskedBefore ==
  ASSUME TypeInv, HashesTrue, [Next]_vars, NEW w \in Workers, NEW s \in jobs'[w].todo
  PROVE  \/ s \in jobs[w].todo
         \/ execs[s.proposal].status = "SUBMITTED" /\ execs[s.proposal].tx_hash = s.tx_hash
<1>1. CASE Quiet(w)
  BY <1>1 DEF Quiet
<1>2. CASE Broadcast(w)
  BY <1>2, BroadcastFor
<1>3. CASE AskSoroban(w)
  BY <1>3, AnswerFor
<1>4. CASE StartPoll(w)
  BY <1>4, PollFor
<1>5. CASE Approve(w) \/ \E m \in messages : StartSend(w, m)
  BY <1>5, StartsFor
<1>6. QED
  BY <1>1, <1>2, <1>3, <1>4, <1>5, JobBefore

(* Nothing opens but by an approval. *)
LEMMA OpenBefore ==
  ASSUME TypeInv, HashesTrue, [Next]_vars, NEW p \in Proposals, Open(p)'
  PROVE  \/ Open(p)
         \/ \E w \in Workers : Approve(w) /\ jobs[w].proposal = p
<1>1. CASE Send(p) \in messages'
  BY <1>1, SendsQueued DEF Open
<1>2. CASE execs'[p].status = "SUBMITTED"
  BY <1>2, SubmittedNoted DEF Open
<1>3. ASSUME NEW w \in Workers, jobs'[w].pc \in {"enqueue", "send", "submitted"}, jobs'[w].proposal = p
      PROVE  Open(p) \/ (Approve(w) /\ jobs[w].proposal = p)
  <2>1. CASE Quiet(w)
    BY <1>3, <2>1 DEF Quiet, Open
  <2>2. CASE Broadcast(w)
    BY <1>3, <2>2, BroadcastFor DEF Open
  <2>3. ~AskSoroban(w)
    BY <1>3, AnswerFor
  <2>4. ~StartPoll(w)
    BY <1>3, PollFor
  <2>5. CASE Approve(w) \/ \E m \in messages : StartSend(w, m)
    BY <1>3, <2>5, StartsFor DEF Open
  <2>6. QED
    BY <2>1, <2>2, <2>3, <2>4, <2>5, JobBefore
<1>4. ASSUME NEW w \in Workers, NEW s \in jobs'[w].todo, s.proposal = p
      PROVE  Open(p)
  BY <1>4, AskedBefore DEF Open
<1>5. ASSUME NEW i \in DOMAIN sent', sent'[i].proposal = p, sent'[i].state = "PENDING"
      PROVE  Open(p)
  <2>1. ASSUME NEW w \in Workers, Broadcast(w)
        PROVE  Open(p)
    BY <1>5, <2>1, BroadcastFor DEF Open
  <2>2. ASSUME NEW j \in Tx, NEW outcome \in {"SUCCESS", "FAILED", "GONE"}, Include(j, outcome)
        PROVE  Open(p)
    <3>1. /\ sent \in Seq(Transaction) /\ j \in DOMAIN sent /\ sent' = [sent EXCEPT ![j].state = outcome]
      BY <2>2 DEF TypeInv, TypeOK, Include
    <3>2. sent[j] \in Transaction
      BY <3>1
    <3>3. i \in DOMAIN sent /\ sent'[i] = sent[i]
      BY <1>5, <3>1, <3>2 DEF Transaction
    <3>4. QED
      BY <1>5, <3>3 DEF Open
  <2>3. CASE UNCHANGED sent
    BY <1>5, <2>3 DEF Open
  <2>4. QED
    BY <2>1, <2>2, <2>3, SyncNetwork
<1>6. QED
  BY <1>1, <1>2, <1>3, <1>4, <1>5 DEF Open

(* A transaction that has succeeded by now was asked about before. *)
LEMMA NamedBefore ==
  ASSUME TypeInv, HashesTrue, [Next]_vars, NEW p \in Proposals, NEW i,
         Names(p, i)', sent'[i].state = "SUCCESS"
  PROVE  Names(p, i)
<1>1. CASE execs'[p].status = "SUBMITTED" /\ execs'[p].tx_hash = i
  BY <1>1, SubmittedNoted DEF Names
<1>2. ASSUME NEW w \in Workers, jobs'[w].pc = "submitted", jobs'[w].proposal = p, jobs'[w].tx = i
      PROVE  Names(p, i)
  <2>1. CASE Quiet(w)
    BY <1>2, <2>1 DEF Quiet, Names
  <2>2. ~Broadcast(w)
    BY <1>2, BroadcastFor
  <2>3. ~AskSoroban(w) /\ ~StartPoll(w)
    BY <1>2, AnswerFor, PollFor
  <2>4. ~Approve(w) /\ ~\E m \in messages : StartSend(w, m)
    BY <1>2, StartsFor
  <2>5. QED
    BY <2>1, <2>2, <2>3, <2>4, JobBefore
<1>3. ASSUME NEW w \in Workers, NEW s \in jobs'[w].todo, s.proposal = p, s.tx_hash = i
      PROVE  Names(p, i)
  BY <1>3, AskedBefore DEF Names
<1>4. QED
  BY <1>1, <1>2, <1>3 DEF Names

(* What is asked about was sent, for a proposal that is open. *)
LEMMA NamedSent ==
  ASSUME TypeInv, HashesTrue, NEW p \in Proposals, NEW i \in Tx, Names(p, i)
  PROVE  SentFor(i, p) /\ Open(p)
<1>1. i # NULL
  BY RowsAssumption, NullAssumption DEF Tx
<1>2. QED
  BY <1>1 DEF Names, HashesTrue, Open

(* The contract changes with the execution of a proposal that is open. *)
LEMMA ExecutedNow ==
  ASSUME TypeInv, NEW i \in Tx, Include(i, "SUCCESS")
  PROVE  /\ sent[i].proposal \in Proposals /\ Open(sent[i].proposal)
         /\ registry' = [registry EXCEPT ![TokenOf[sent[i].proposal]] = sent[i].proposal \in Adds]
         /\ UNCHANGED tokens
         /\ \A j \in DOMAIN sent \ {i} : sent'[j] = sent[j]
<1>1. /\ sent \in Seq(Transaction) /\ i \in DOMAIN sent /\ sent[i].state = "PENDING"
      /\ sent' = [sent EXCEPT ![i].state = "SUCCESS"]
      /\ registry' = [registry EXCEPT ![TokenOf[sent[i].proposal]] = sent[i].proposal \in Adds]
      /\ UNCHANGED tokens
  BY DEF TypeInv, TypeOK, Include, database
<1>2. sent[i] \in Transaction
  BY <1>1
<1>3. \A j \in DOMAIN sent \ {i} : sent'[j] = sent[j]
  BY <1>1
<1>4. QED
  BY <1>1, <1>2, <1>3 DEF Transaction, Open

(* And with nothing else. *)
LEMMA ExecutedBefore ==
  ASSUME TypeInv, [Next]_vars
  PROVE  \/ \E i \in Tx : Include(i, "SUCCESS")
         \/ /\ UNCHANGED registry
            /\ \A i \in DOMAIN sent : sent'[i].state = "SUCCESS" => sent[i].state = "SUCCESS"
<1>1. ASSUME NEW w \in Workers, Broadcast(w)
      PROVE  UNCHANGED registry /\ \A i \in DOMAIN sent : sent'[i] = sent[i]
  BY <1>1, BroadcastFor DEF Broadcast
<1>2. ASSUME NEW j \in Tx, NEW outcome \in {"FAILED", "GONE"}, Include(j, outcome)
      PROVE  /\ UNCHANGED registry
             /\ \A i \in DOMAIN sent : sent'[i].state = "SUCCESS" => sent[i].state = "SUCCESS"
  <2>1. /\ sent \in Seq(Transaction) /\ j \in DOMAIN sent /\ sent' = [sent EXCEPT ![j].state = outcome]
        /\ UNCHANGED registry
    BY <1>2 DEF TypeInv, TypeOK, Include
  <2>2. sent[j] \in Transaction
    BY <2>1
  <2>3. QED
    BY <2>1, <2>2 DEF Transaction
<1>3. QED
  BY <1>1, <1>2, SyncNetwork

(* A report of success is one. *)
LEMMA SyncedExecuted ==
  ASSUME TypeInv, HashesTrue, NEW w \in Workers, Synced(w)
  PROVE  jobs[w].proposal \in Proposals /\ Executed(jobs[w].proposal)
<1>1. jobs[w].pc = "answered" /\ jobs[w].answer = "SUCCESS" /\ jobs[w].proposal \in Proposals
  BY JobFacts, TypeParts DEF Synced, At, Placed
<1>2. jobs[w].read \in jobs[w].todo /\ jobs[w].proposal = jobs[w].read.proposal
  BY <1>1, JobFacts, TypeParts DEF JobOK
<1>3. /\ SentFor(jobs[w].read.tx_hash, jobs[w].read.proposal)
      /\ sent[jobs[w].read.tx_hash].state = "SUCCESS"
  BY <1>1, <1>2 DEF HashesTrue
<1>4. QED
  BY <1>1, <1>2, <1>3 DEF SentFor, Executed

(* An approval moves its worker, and no other, on to queue the message. *)
LEMMA ApprovalMoves ==
  ASSUME TypeInv, NEW w \in Workers, Approve(w)
  PROVE  /\ ~UNCHANGED vars
         /\ \A v \in Workers : Approve(v) => v = w
         /\ jobs[w].proposal \in Proposals
         /\ \A p \in Proposals : p = jobs[w].proposal => Open(p)'
<1>1. /\ jobs \in [Workers -> Job] /\ jobs[w] \in Job
      /\ jobs[w].pc = "decide" /\ jobs[w].proposal \in Proposals
  BY JobFacts, TypeParts DEF JobsOK, Approve, Undecided, At, Placed
<1>2. jobs' = [jobs EXCEPT ![w] = [jobs[w] EXCEPT !.pc = "enqueue"]]
  BY DEF Approve, Goes
<1>3. jobs'[w].pc = "enqueue" /\ jobs'[w].proposal = jobs[w].proposal
  BY <1>1, <1>2 DEF Job
<1>4. ASSUME NEW v \in Workers, Approve(v)
      PROVE  v = w
  <2>1. jobs[v].pc = "decide" /\ jobs[v] \in Job
    BY <1>1, <1>4 DEF Approve, Undecided, At
  <2>2. jobs' = [jobs EXCEPT ![v] = [jobs[v] EXCEPT !.pc = "enqueue"]]
    BY <1>4 DEF Approve, Goes
  <2>3. jobs'[v].pc = "enqueue"
    BY <1>1, <2>1, <2>2 DEF Job
  <2>4. v # w => jobs'[v] = jobs[v]
    BY <1>1, <1>2
  <2>5. QED
    BY <2>1, <2>3, <2>4
<1>5. ~UNCHANGED vars
  BY <1>1, <1>3 DEF vars
<1>6. QED
  BY <1>1, <1>3, <1>4, <1>5 DEF Open

(* In turn, one proposal of a token at a time stays open. *)
LEMMA OneOpenStep ==
  ASSUME TypeInv, SyncInv, [Next /\ InTurn]_vars
  PROVE  OneOpen'
<1> SUFFICES ASSUME NEW p \in Proposals, NEW q \in Proposals, Open(p)', Open(q)', TokenOf[p] = TokenOf[q]
             PROVE  p = q
  BY DEF OneOpen
<1>1. [Next]_vars /\ HashesTrue /\ OneOpen
  BY DEF SyncInv
<1>2. ASSUME NEW w \in Workers, Approve(w)
      PROVE  \A r \in Proposals : TokenOf[r] = TokenOf[jobs[w].proposal] /\ Open(r)' => r = jobs[w].proposal
  <2>1. ~UNCHANGED vars => \A r \in Proposals \ {jobs[w].proposal} : TokenOf[r] = TokenOf[jobs[w].proposal] => ~Open(r)
    BY <1>2 DEF InTurn
  <2>2. ~UNCHANGED vars
    BY <1>2, ApprovalMoves
  <2>3. \A v \in Workers : Approve(v) => v = w
    BY <1>2, ApprovalMoves
  <2>4. QED
    BY <1>1, <2>1, <2>2, <2>3, OpenBefore
<1>3. CASE \E w \in Workers : Approve(w) /\ jobs[w].proposal \in {p, q}
  BY <1>2, <1>3
<1>4. CASE ~\E w \in Workers : Approve(w) /\ jobs[w].proposal \in {p, q}
  BY <1>1, <1>4, OpenBefore DEF OneOpen
<1>5. QED
  BY <1>3, <1>4

(* Rows follow the proposal that is open. *)
LEMMA RowFollowsStep ==
  ASSUME TypeInv, SyncInv, [Next /\ InTurn]_vars
  PROVE  RowFollows'
<1> SUFFICES ASSUME NEW p \in Proposals, Open(p)'
             PROVE  tokens'[TokenOf[p]].whitelisted = (p \in Adds)
  BY DEF RowFollows
<1>1. [Next]_vars /\ HashesTrue /\ RowFollows /\ OneOpen'
  BY OneOpenStep DEF SyncInv
<1>2. /\ TokenOf[p] \in Tokens /\ tokens \in [Tokens -> TokenRow] /\ (p \in Adds) \in BOOLEAN
  BY RowsAssumption DEF TypeInv, TypeOK
<1>3. ASSUME NEW w \in Workers, Approve(w), TokenOf[jobs[w].proposal] = TokenOf[p]
      PROVE  jobs[w].proposal = p
  <2>1. jobs[w].proposal \in Proposals
    BY <1>3, JobFacts, TypeParts DEF Approve, Undecided, At, Placed
  <2>2. \A q \in Proposals : q = jobs[w].proposal => Open(q)'
    BY <1>3, ApprovalMoves
  <2>3. \A q \in Proposals : Open(q)' /\ TokenOf[q] = TokenOf[p] => q = p
    BY <1>1 DEF OneOpen
  <2>4. QED
    BY <1>3, <2>1, <2>2, <2>3
<1>4. ASSUME NEW w \in Workers, Approve(w), TokenOf[jobs[w].proposal] = TokenOf[p],
             tokens'[TokenOf[p]] = WithResult(tokens[TokenOf[p]], jobs[w].proposal)
      PROVE  tokens'[TokenOf[p]].whitelisted = (p \in Adds)
  <2> DEFINE wants == p \in Adds
  <2>1. tokens'[TokenOf[p]] = [tokens[TokenOf[p]] EXCEPT !.whitelisted = wants, !.sync = "PENDING", !.sync_tx = NULL]
    BY <1>3, <1>4 DEF WithResult
  <2> HIDE DEF wants
  <2>2. tokens'[TokenOf[p]].whitelisted = wants
    BY <1>2, <2>1 DEF TokenRow
  <2>3. QED
    BY <2>2 DEF wants
<1>5. ASSUME tokens'[TokenOf[p]].whitelisted = tokens[TokenOf[p]].whitelisted
      PROVE  tokens'[TokenOf[p]].whitelisted = (p \in Adds)
  <2>1. CASE Open(p)
    BY <1>1, <1>5, <2>1 DEF RowFollows
  <2>2. ASSUME NEW w \in Workers, Approve(w), jobs[w].proposal = p
        PROVE  tokens'[TokenOf[p]] = WithResult(tokens[TokenOf[p]], p)
    BY <1>2, <2>2 DEF Approve
  <2>3. QED
    BY <1>1, <1>4, <2>1, <2>2, OpenBefore
<1>6. QED
  BY <1>1, <1>2, <1>4, <1>5, SyncRows

(* The contract follows what is asked about. *)
LEMMA ContractFollowsStep ==
  ASSUME TypeInv, SyncInv, [Next]_vars
  PROVE  ContractFollows'
<1> SUFFICES ASSUME NEW p \in Proposals, NEW i \in DOMAIN sent', Names(p, i)', sent'[i].state = "SUCCESS"
             PROVE  registry'[TokenOf[p]] = (p \in Adds)
  BY DEF ContractFollows
<1>1. HashesTrue /\ OneOpen /\ ContractFollows
  BY DEF SyncInv
<1>2. Names(p, i)
  BY <1>1, NamedBefore
<1>3. i \in Tx
  <2>1. sent' \in Seq(Transaction) /\ Len(sent') <= MaxTx
    BY TypeStep DEF TypeInv, TypeOK
  <2>2. QED
    BY <2>1, RowsAssumption DEF Tx
<1>4. SentFor(i, p) /\ Open(p)
  BY <1>1, <1>2, <1>3, NamedSent
<1>5. TokenOf \in [Proposals -> Tokens] /\ registry \in [Tokens -> BOOLEAN]
  BY RowsAssumption DEF TypeInv, TypeOK
<1>6. ASSUME NEW j \in Tx, Include(j, "SUCCESS")
      PROVE  registry'[TokenOf[p]] = (p \in Adds)
  <2> DEFINE q == sent[j].proposal
  <2>1. /\ q \in Proposals /\ Open(q)
        /\ registry' = [registry EXCEPT ![TokenOf[q]] = q \in Adds]
        /\ \A k \in DOMAIN sent \ {j} : sent'[k] = sent[k]
    BY <1>6, ExecutedNow
  <2>2. CASE p = q
    BY <1>5, <2>1, <2>2
  <2>3. CASE p # q
    <3>1. TokenOf[p] # TokenOf[q]
      BY <1>1, <1>4, <2>1, <2>3 DEF OneOpen
    <3>2. i # j /\ sent[i].state = "SUCCESS"
      BY <1>4, <2>1, <2>3 DEF SentFor
    <3>3. registry[TokenOf[p]] = (p \in Adds)
      BY <1>1, <1>2, <1>4, <3>2 DEF ContractFollows, SentFor
    <3> HIDE DEF q
    <3>4. QED
      BY <1>5, <2>1, <3>1, <3>3
  <2>4. QED
    BY <2>2, <2>3
<1>7. CASE /\ UNCHANGED registry
           /\ \A k \in DOMAIN sent : sent'[k].state = "SUCCESS" => sent[k].state = "SUCCESS"
  BY <1>1, <1>2, <1>4, <1>7 DEF ContractFollows, SentFor
<1>8. QED
  BY <1>6, <1>7, ExecutedBefore

(* A row that is SYNCED stays true, and becomes SYNCED only when it is.    *)
LEMMA SyncedStep ==
  ASSUME TypeInv, SyncInv, [Next]_vars
  PROVE  SyncedMeansUpToDate'
<1> SUFFICES ASSUME NEW k \in Tokens, tokens'[k].sync = "SYNCED"
             PROVE  tokens'[k].whitelisted = registry'[k]
  BY DEF SyncedMeansUpToDate
<1>1. HashesTrue /\ OneOpen /\ RowFollows /\ ContractFollows /\ SyncedMeansUpToDate
  BY DEF SyncInv
<1>2. /\ TokenOf \in [Proposals -> Tokens] /\ registry \in [Tokens -> BOOLEAN]
      /\ tokens \in [Tokens -> TokenRow] /\ tokens[k] \in TokenRow
  BY RowsAssumption DEF TypeInv, TypeOK
<1>3. ASSUME NEW i \in Tx, Include(i, "SUCCESS")
      PROVE  tokens'[k].whitelisted = registry'[k]
  <2> DEFINE p == sent[i].proposal
  <2>1. /\ p \in Proposals /\ Open(p) /\ UNCHANGED tokens
        /\ registry' = [registry EXCEPT ![TokenOf[p]] = p \in Adds]
    BY <1>3, ExecutedNow
  <2> HIDE DEF p
  <2>2. CASE k = TokenOf[p]
    BY <1>1, <1>2, <2>1, <2>2 DEF RowFollows
  <2>3. CASE k # TokenOf[p]
    BY <1>1, <1>2, <2>1, <2>3 DEF SyncedMeansUpToDate
  <2>4. QED
    BY <2>2, <2>3
<1>4. ASSUME NEW w \in Workers, Synced(w), TokenOf[jobs[w].proposal] = k
      PROVE  tokens[k].whitelisted = registry[k]
  <2> DEFINE p == jobs[w].proposal
             i == jobs[w].read.tx_hash
  <2>1. jobs[w].pc = "answered" /\ jobs[w].answer = "SUCCESS" /\ p \in Proposals
    BY <1>4, JobFacts, TypeParts DEF Synced, At, Placed
  <2>2. jobs[w].read \in jobs[w].todo /\ p = jobs[w].read.proposal
    BY <2>1, JobFacts, TypeParts DEF JobOK
  <2>3. Open(p) /\ Names(p, i)
    BY <2>2 DEF Open, Names
  <2>4. i \in DOMAIN sent /\ sent[i].state = "SUCCESS"
    BY <1>1, <2>1, <2>2 DEF HashesTrue, SentFor
  <2>5. registry[k] = (p \in Adds)
    BY <1>1, <1>4, <2>1, <2>3, <2>4 DEF ContractFollows
  <2>6. tokens[k].whitelisted = (p \in Adds)
    BY <1>1, <1>4, <2>1, <2>3 DEF RowFollows
  <2>7. QED
    BY <2>5, <2>6
<1>5. ASSUME NEW w \in Workers, Approve(w), TokenOf[jobs[w].proposal] = k,
             tokens'[k] = WithResult(tokens[k], jobs[w].proposal)
      PROVE  FALSE
  <2> DEFINE wants == jobs[w].proposal \in Adds
  <2>1. tokens'[k] = [tokens[k] EXCEPT !.whitelisted = wants, !.sync = "PENDING", !.sync_tx = NULL]
    BY <1>5 DEF WithResult
  <2> HIDE DEF wants
  <2>2. tokens'[k].sync = "PENDING"
    BY <1>2, <2>1 DEF TokenRow
  <2>3. QED
    BY <2>2
<1>6. ASSUME tokens'[k].whitelisted = tokens[k].whitelisted, UNCHANGED registry,
             \/ tokens[k].sync = "SYNCED"
             \/ \E w \in Workers : Synced(w) /\ TokenOf[jobs[w].proposal] = k
      PROVE  tokens'[k].whitelisted = registry'[k]
  BY <1>1, <1>4, <1>6 DEF SyncedMeansUpToDate
<1>7. QED
  BY <1>3, <1>5, <1>6, SyncRows, ExecutedBefore

(* SyncedMeansUpToDate for every number of additions and removals of a     *)
(* token, of polls and retries that overlap and of answers that get lost,  *)
(* as long as the proposals about a token are executed one after another:  *)
(* a row marked SYNCED says of its token what the contract says.           *)
THEOREM SyncedIsUpToDate == OrderlySpec => []SyncedMeansUpToDate
<1>1. Init => TypeInv /\ SyncInv
  <2>1. Init => SyncInv
    <3> SUFFICES ASSUME Init PROVE SyncInv
      OBVIOUS
    <3>1. /\ \A p \in Proposals : execs[p].tx_hash = NULL /\ execs[p].status = "PENDING"
          /\ \A w \in Workers : jobs[w].pc = "idle" /\ jobs[w].todo = {}
          /\ \A k \in Tokens : ~tokens[k].whitelisted /\ ~registry[k]
          /\ DOMAIN sent = {} /\ messages = {}
      BY DEF Init, Fresh, IdleJob
    <3>2. HashesTrue
      BY <3>1 DEF HashesTrue
    <3>3. \A p \in Proposals : ~Open(p)
      BY <3>1 DEF Open
    <3>4. SyncedMeansUpToDate
      BY DEF Init, SyncedMeansUpToDate
    <3>5. QED
      BY <3>1, <3>2, <3>3, <3>4 DEF SyncInv, OneOpen, RowFollows, ContractFollows
  <2>2. QED
    BY <2>1, TypeInit
<1>2. TypeInv /\ SyncInv /\ [Next /\ InTurn]_vars => (TypeInv /\ SyncInv)'
  <2> SUFFICES ASSUME TypeInv, SyncInv, [Next /\ InTurn]_vars PROVE TypeInv' /\ SyncInv'
    OBVIOUS
  <2>1. [Next]_vars
    OBVIOUS
  <2>2. TypeInv' /\ HashesTrue'
    BY <2>1, TypeStep, HashesStep DEF SyncInv
  <2>3. OneOpen' /\ RowFollows' /\ ContractFollows' /\ SyncedMeansUpToDate'
    BY <2>1, OneOpenStep, RowFollowsStep, ContractFollowsStep, SyncedStep
  <2>4. QED
    BY <2>2, <2>3 DEF SyncInv
<1>3. SyncInv => SyncedMeansUpToDate
  BY DEF SyncInv
<1>4. QED
  BY <1>1, <1>2, <1>3, PTL DEF OrderlySpec

(* SUCCESS is written by the poller alone, on an answer about a proposal.  *)
LEMMA SuccessNoted ==
  ASSUME TypeInv, [Next]_vars, NEW p \in Proposals, execs'[p].status = "SUCCESS"
  PROVE  \/ execs[p].status = "SUCCESS"
         \/ \E w \in Workers : Synced(w) /\ jobs[w].proposal = p
<1>1. execs \in [Proposals -> Execution] /\ execs[p] \in Execution /\ messages \subseteq Message
  BY DEF TypeInv, TypeOK
<1>2. CASE UNCHANGED execs
  BY <1>2
<1>3. CASE UNCHANGED vars
  BY <1>2, <1>3 DEF vars, database
<1>4. ASSUME NEW q \in Proposals, StartVote(q) \/ EnqueueUpdate(q) \/ LeaseEnds(q) \/ \E t \in Tally : Vote(q, t)
      PROVE  execs'[p].status = execs[p].status
  <2>1. UNCHANGED execs \/ execs' = [execs EXCEPT ![q].started = "lease over"]
    BY <1>4 DEF StartVote, EnqueueUpdate, LeaseEnds, Vote, database
  <2>2. [execs[q] EXCEPT !.started = "lease over"].status = execs[q].status
    BY <1>1 DEF Execution
  <2>3. execs'[p] = execs[p] \/ (p = q /\ execs'[p] = [execs[q] EXCEPT !.started = "lease over"])
    BY <1>1, <2>1
  <2>4. QED
    BY <2>2, <2>3
<1>5. ASSUME NEW i \in Tx, NEW outcome \in {"SUCCESS", "FAILED", "GONE"}, Include(i, outcome)
      PROVE  UNCHANGED execs
  BY <1>5 DEF Include, database
<1>6. ASSUME NEW w \in Workers,
             \/ \E m \in messages : StartResults(w, m)
             \/ StartFinish(w) \/ StartPoll(w) \/ StartRetry(w) \/ Crash(w)
             \/ Finish(w) \/ ReadBallots(w) \/ IndexingFails(w) \/ SaveSnapshot(w)
             \/ ListRetries(w) \/ \E q \in Proposals : NextRetry(w, q)
      PROVE  UNCHANGED execs
  BY <1>6 DEF StartResults, StartFinish, StartPoll, StartRetry, Crash,
              Finish, FinishVote, EnqueueFreeze, ReadBallots, IndexingFails, SaveSnapshot,
              ListRetries, NextRetry, database
<1>7. ASSUME NEW w \in Workers, Hold(w) \/ MarkStale(w)
      PROVE  execs[p].status = "SUCCESS"
  <2>1. execs'[p] \in {execs[p], InReview(execs[p])}
    BY <1>1, <1>7 DEF Hold, MarkStale
  <2>2. InReview(execs[p]).status = "REQUIRES_REVIEW"
    BY <1>1 DEF InReview, Execution
  <2>3. QED
    BY <2>1, <2>2
<1>8. ASSUME NEW w \in Workers, Finalize(w)
      PROVE  execs[p].status = "SUCCESS"
  <2>1. execs'[p] \in {execs[p], Fresh("FAILED"), Fresh("SKIPPED"), Fresh("PENDING")}
    BY <1>1, <1>8 DEF Finalize, CountVotes, SaveResults, Leave, FailDecision, SkipExecution, Approve, EnqueueSend,
                      database
  <2>2. QED
    BY <2>1 DEF Fresh
<1>9. ASSUME NEW w \in Workers, NEW m \in messages, StartSend(w, m)
      PROVE  execs[p].status = "SUCCESS"
  <2>1. execs'[p] \in {execs[p], Claimed(execs[p])}
    BY <1>1, <1>9 DEF StartSend
  <2>2. Claimed(execs[p]).status = "IN_PROGRESS"
    BY <1>1 DEF Claimed, Execution
  <2>3. QED
    BY <2>1, <2>2
<1>10. ASSUME NEW w \in Workers, SendSteps(w)
       PROVE  execs[p].status = "SUCCESS"
  <2>1. execs'[p] \in {execs[p], SendFailed(execs[p]), Submitted(execs[p], jobs[w].tx)}
    BY <1>1, <1>10 DEF SendSteps, Broadcast, NotSent, WriteSubmitted, WriteSendFailed, NoteSend, At, database
  <2>2. SendFailed(execs[p]).status = "FAILED" /\ Submitted(execs[p], jobs[w].tx).status = "SUBMITTED"
    BY <1>1 DEF SendFailed, Submitted, Execution
  <2>3. QED
    BY <2>1, <2>2
<1>11. ASSUME NEW w \in Workers, Poll(w)
       PROVE  execs[p].status = "SUCCESS" \/ (Synced(w) /\ jobs[w].proposal = p)
  <2>1. \/ execs'[p] \in {execs[p], PollFailed(execs[p], jobs[w].read.polls), Polled(execs[p], jobs[w].read.polls)}
        \/ Synced(w) /\ jobs[w].proposal = p
    BY <1>1, <1>11 DEF Poll, AskSoroban, Synced, WritePollFailed, WritePolled, NotePoll, database
  <2>2. ASSUME NEW polls
        PROVE  /\ PollFailed(execs[p], polls).status = "FAILED"
               /\ Polled(execs[p], polls).status \in {execs[p].status, "REQUIRES_REVIEW"}
    BY <1>1 DEF PollFailed, Polled, Execution
  <2> DEFINE polls == jobs[w].read.polls
  <2>3. CASE execs'[p] = PollFailed(execs[p], polls)
    BY <2>2, <2>3
  <2>4. CASE execs'[p] = Polled(execs[p], polls)
    <3>1. Polled(execs[p], polls).status \in {execs[p].status, "REQUIRES_REVIEW"}
      BY <2>2
    <3>2. QED
      BY <2>4, <3>1
  <2>5. QED
    BY <2>1, <2>3, <2>4
<1>12. QED
  BY <1>2, <1>3, <1>4, <1>5, <1>6, <1>7, <1>8, <1>9, <1>10, <1>11 DEF Next, Working, Index, Retry

(* ReportedWasExecuted, for every number of polls that overlap, retries    *)
(* and lost answers: whichever of its transactions a poller was asking     *)
(* about when it reported a success, one has succeeded.                    *)
THEOREM ReportsAreTrue == Spec => []ReportedWasExecuted
<1> DEFINE Inv == HashesTrue /\ \A p \in Proposals : execs[p].status = "SUCCESS" => Executed(p)
<1>1. Init => Inv
  <2> SUFFICES ASSUME Init PROVE Inv
    OBVIOUS
  <2>1. /\ \A p \in Proposals : execs[p].tx_hash = NULL /\ execs[p].status # "SUCCESS"
        /\ \A w \in Workers : jobs[w].pc = "idle" /\ jobs[w].todo = {}
    BY DEF Init, Fresh, IdleJob
  <2>2. QED
    BY <2>1 DEF HashesTrue
<1>2. TypeInv /\ Inv /\ [Next]_vars => Inv'
  <2> SUFFICES ASSUME TypeInv, Inv, [Next]_vars PROVE Inv'
    OBVIOUS
  <2>1. HashesTrue'
    BY HashesStep
  <2>2. ASSUME NEW p \in Proposals, execs'[p].status = "SUCCESS"
        PROVE  Executed(p)'
    <3>1. Executed(p)
      BY <2>2, SuccessNoted, SyncedExecuted
    <3>2. QED
      BY <3>1, SentGrows DEF Executed
  <2>3. QED
    BY <2>1, <2>2
<1>3. Inv => ReportedWasExecuted
  BY DEF ReportedWasExecuted, Executed
<1> HIDE DEF Inv
<1>4. QED
  BY <1>1, <1>2, <1>3, TypeInit, TypeStep, PTL DEF Spec
=============================================================================
