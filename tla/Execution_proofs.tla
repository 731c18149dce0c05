--------------------------- MODULE Execution_proofs ---------------------------
(***************************************************************************)
(* One execution at a time, for every number of proposals, workers and     *)
(* transactions, as long as polls do not overlap.                          *)
(*                                                                         *)
(* Most steps are calm: they start no send, read no row to poll, and leave *)
(* a row that is being sent or polled as it is or hand it over.  The four  *)
(* that are not - the claim, the broadcast, the note of the hash and the   *)
(* start of a poll - come after them.                                      *)
(***************************************************************************)
EXTENDS ExecutionTypes_proofs

-----------------------------------------------------------------------------
(* One execution at a time.                                                *)

(* A sender between the claim and the write of its outcome. *)
Sending(job, p) == job.pc \in {"send", "submitted", "send failed"} /\ job.proposal = p

(* The transactions a poller has read and not written back. *)
OpenReads(job) == IF job.pc = "note poll" THEN job.todo \ {job.read} ELSE job.todo

(* A claim is exclusive, and only the lease can end it under the sender.   *)
ClaimsApart ==
  \A w \in Workers, p \in Proposals : Sending(jobs[w], p) =>
    /\ execs[p].status \in {"IN_PROGRESS", "REQUIRES_REVIEW"}
    /\ \A v \in Workers : Sending(jobs[v], p) => v = w

(* What a poller has read is what the row still names.                     *)
ReadsCurrent ==
  \A w \in Workers : \A s \in OpenReads(jobs[w]) :
    /\ "poll" \in Roles[w]
    /\ execs[s.proposal].status \in {"SUBMITTED", "REQUIRES_REVIEW"}
    /\ execs[s.proposal].tx_hash = s.tx_hash /\ s.tx_hash # NULL
    /\ \A v \in Workers : ~Sending(jobs[v], s.proposal)
    /\ \A t \in OpenReads(jobs[w]) : t.proposal = s.proposal => t = s

(* Soroban's answer to a poll is final.                                    *)
AnswersTrue ==
  \A w \in Workers : jobs[w].pc = "answered" /\ jobs[w].answer \in {"SUCCESS", "FAILED"} =>
    sent[jobs[w].read.tx_hash].state = jobs[w].answer

(* A transaction that may count keeps its proposal from being sent again,  *)
(* and whoever sends or polls that proposal has this transaction.          *)
LiveGuarded ==
  \A i \in DOMAIN sent : Live(i) =>
    LET p == sent[i].proposal
    IN  /\ execs[p].status \in {"IN_PROGRESS", "REQUIRES_REVIEW", "SUBMITTED", "SUCCESS"}
        /\ execs[p].status = "SUBMITTED" => execs[p].tx_hash = i
        /\ \A w \in Workers : Sending(jobs[w], p) => jobs[w].pc = "submitted" /\ jobs[w].tx = i
        /\ \A w \in Workers : \A s \in OpenReads(jobs[w]) : s.proposal = p => s.tx_hash = i

(* A hash that was noted, or is about to be, was sent.                     *)
HashesSent ==
  /\ \A p \in Proposals : execs[p].tx_hash # NULL => execs[p].tx_hash \in DOMAIN sent
  /\ \A w \in Workers : jobs[w].pc = "submitted" => jobs[w].tx \in DOMAIN sent

(* It was sent for that proposal, and the network said so.                 *)
HashesOwn ==
  /\ \A p \in Proposals : execs[p].tx_hash # NULL =>
       sent[execs[p].tx_hash].known /\ sent[execs[p].tx_hash].proposal = p
  /\ \A w \in Workers : jobs[w].pc = "submitted" =>
       sent[jobs[w].tx].known /\ sent[jobs[w].tx].proposal = jobs[w].proposal

ExecInv ==
  /\ ClaimsApart /\ ReadsCurrent /\ AnswersTrue /\ LiveGuarded /\ HashesSent /\ HashesOwn
  /\ OneLiveExecution /\ SuccessMeansExecuted

(* Of the workers at most one polls at a time. *)
SinglePoller == \A v, w \in Workers : "poll" \in Roles[v] \cap Roles[w] => v = w

(* What most steps do to the jobs: they start no send and read no row to   *)
(* poll; a send that has not gone out may turn out to have failed.         *)
JobsCalm ==
  \A w \in Workers :
    /\ \A p \in Proposals : Sending(jobs'[w], p) =>
         /\ Sending(jobs[w], p)
         /\ jobs'[w].pc = "submitted" => jobs[w].pc = "submitted" /\ jobs'[w].tx = jobs[w].tx
         /\ jobs[w].pc = "submitted" => jobs'[w].pc = "submitted"
    /\ OpenReads(jobs'[w]) \subseteq OpenReads(jobs[w])
    /\ jobs'[w].pc = "answered" /\ jobs'[w].answer \in {"SUCCESS", "FAILED"} =>
         sent'[jobs'[w].read.tx_hash].state = jobs'[w].answer

(* What they do to the network: nothing comes alive, an outcome stays.     *)
SentCalm ==
  /\ DOMAIN sent' = DOMAIN sent
  /\ \A i \in DOMAIN sent :
       /\ sent'[i].proposal = sent[i].proposal
       /\ sent'[i].known = sent[i].known
       /\ Live(i)' => Live(i)
       /\ sent[i].state \in {"SUCCESS", "FAILED"} => sent'[i].state = sent[i].state

(* What they do to a row: nothing, hand it over, decide anew, or settle it *)
(* when nobody sends or polls it any more.                                 *)
Undisturbed(p) == execs'[p].status = execs[p].status /\ execs'[p].tx_hash = execs[p].tx_hash
HandedOver(p)  == execs'[p].status = "REQUIRES_REVIEW" /\ execs'[p].tx_hash = execs[p].tx_hash
DecidedAnew(p) ==
  /\ execs[p].status \in {"PENDING", "FAILED", "SKIPPED"}
  /\ execs'[p].status \in {"PENDING", "FAILED", "SKIPPED", "REQUIRES_REVIEW"}
  /\ execs'[p].tx_hash \in {execs[p].tx_hash, NULL}
Settled(p) ==
  /\ \A w \in Workers : ~Sending(jobs'[w], p) /\ \A s \in OpenReads(jobs'[w]) : s.proposal # p
  /\ \/ /\ execs'[p].status = "FAILED"
        /\ execs'[p].tx_hash \in {execs[p].tx_hash, NULL}
        /\ \A i \in DOMAIN sent : Live(i) => sent[i].proposal # p
     \/ /\ execs'[p].status = "SUCCESS"
        /\ execs'[p].tx_hash = execs[p].tx_hash
        /\ execs[p].tx_hash # NULL
        /\ sent[execs[p].tx_hash].state = "SUCCESS"

RowsCalm == \A p \in Proposals : Undisturbed(p) \/ HandedOver(p) \/ DecidedAnew(p) \/ Settled(p)

(* Such steps keep one execution at a time. *)
LEMMA CalmStep ==
  ASSUME TypeInv, TypeInv', ExecInv, JobsCalm, SentCalm, RowsCalm
  PROVE  ExecInv'
<1>1. sent \in Seq(Transaction) /\ sent' \in Seq(Transaction)
  BY DEF TypeInv, TypeOK
<1>2. ASSUME NEW i \in DOMAIN sent
      PROVE  sent[i] \in Transaction /\ sent[i].proposal \in Proposals
  <2>1. sent[i] \in Transaction
    BY <1>1, <1>2
  <2>2. QED
    BY <2>1 DEF Transaction
<1>3. ASSUME NEW w \in Workers, NEW s \in OpenReads(jobs'[w])
      PROVE  s \in OpenReads(jobs[w]) /\ s.proposal \in Proposals
  <2>1. s \in OpenReads(jobs[w]) /\ s \in jobs[w].todo
    BY <1>3 DEF JobsCalm, OpenReads
  <2>2. s \in Snapshot
    BY <2>1, JobFacts, TypeParts
  <2>3. QED
    BY <2>1, <2>2 DEF Snapshot
<1>4. ClaimsApart'
  BY DEF ClaimsApart, ExecInv, JobsCalm, RowsCalm, Undisturbed, HandedOver, DecidedAnew, Settled
<1>5. ReadsCurrent'
  <2> SUFFICES ASSUME NEW w \in Workers, NEW s \in OpenReads(jobs'[w])
               PROVE  /\ "poll" \in Roles[w]
                      /\ execs'[s.proposal].status \in {"SUBMITTED", "REQUIRES_REVIEW"}
                      /\ execs'[s.proposal].tx_hash = s.tx_hash /\ s.tx_hash # NULL
                      /\ \A v \in Workers : ~Sending(jobs'[v], s.proposal)
                      /\ \A t \in OpenReads(jobs'[w]) : t.proposal = s.proposal => t = s
    BY DEF ReadsCurrent
  <2>1. /\ "poll" \in Roles[w]
        /\ execs[s.proposal].status \in {"SUBMITTED", "REQUIRES_REVIEW"}
        /\ execs[s.proposal].tx_hash = s.tx_hash /\ s.tx_hash # NULL
        /\ \A v \in Workers : ~Sending(jobs[v], s.proposal)
        /\ \A t \in OpenReads(jobs[w]) : t.proposal = s.proposal => t = s
    BY <1>3 DEF ExecInv, ReadsCurrent
  <2>2. Undisturbed(s.proposal) \/ HandedOver(s.proposal)
    BY <1>3, <2>1 DEF RowsCalm, DecidedAnew, Settled
  <2>3. QED
    BY <1>3, <2>1, <2>2 DEF JobsCalm, Undisturbed, HandedOver
<1>6. AnswersTrue'
  BY DEF AnswersTrue, JobsCalm
<1>7. LiveGuarded'
  <2> SUFFICES ASSUME NEW i \in DOMAIN sent', Live(i)'
               PROVE  LET p == sent'[i].proposal
                      IN  /\ execs'[p].status \in {"IN_PROGRESS", "REQUIRES_REVIEW", "SUBMITTED", "SUCCESS"}
                          /\ execs'[p].status = "SUBMITTED" => execs'[p].tx_hash = i
                          /\ \A w \in Workers : Sending(jobs'[w], p) => jobs'[w].pc = "submitted" /\ jobs'[w].tx = i
                          /\ \A w \in Workers : \A s \in OpenReads(jobs'[w]) : s.proposal = p => s.tx_hash = i
    BY DEF LiveGuarded
  <2> DEFINE p == sent[i].proposal
  <2>1. i \in DOMAIN sent /\ Live(i) /\ sent'[i].proposal = p /\ p \in Proposals
    BY <1>2 DEF SentCalm
  <2>2. /\ execs[p].status \in {"IN_PROGRESS", "REQUIRES_REVIEW", "SUBMITTED", "SUCCESS"}
        /\ execs[p].status = "SUBMITTED" => execs[p].tx_hash = i
        /\ \A w \in Workers : Sending(jobs[w], p) => jobs[w].pc = "submitted" /\ jobs[w].tx = i
        /\ \A w \in Workers : \A s \in OpenReads(jobs[w]) : s.proposal = p => s.tx_hash = i
    BY <2>1 DEF ExecInv, LiveGuarded
  <2> HIDE DEF p
  <2>3. /\ execs'[p].status \in {"IN_PROGRESS", "REQUIRES_REVIEW", "SUBMITTED", "SUCCESS"}
        /\ execs'[p].status = "SUBMITTED" => execs'[p].tx_hash = i
    <3>1. ~DecidedAnew(p)
      BY <2>2 DEF DecidedAnew
    <3>2. Settled(p) => execs'[p].status = "SUCCESS"
      BY <2>1 DEF Settled, p
    <3>3. QED
      BY <2>1, <2>2, <3>1, <3>2 DEF RowsCalm, Undisturbed, HandedOver
  <2>4. \A w \in Workers : Sending(jobs'[w], p) => jobs'[w].pc = "submitted" /\ jobs'[w].tx = i
    BY <2>1, <2>2 DEF JobsCalm
  <2>5. \A w \in Workers : \A s \in OpenReads(jobs'[w]) : s.proposal = p => s.tx_hash = i
    BY <1>3, <2>2
  <2>6. QED
    BY <2>1, <2>3, <2>4, <2>5
<1>8. ASSUME NEW w \in Workers, jobs'[w].pc = "submitted"
      PROVE  /\ jobs[w].pc = "submitted" /\ jobs'[w].tx = jobs[w].tx
             /\ jobs[w].proposal = jobs'[w].proposal
  <2>1. jobs'[w].proposal \in Proposals
    BY <1>8 DEF TypeInv, JobsOK, JobOK, Placed
  <2>2. Sending(jobs'[w], jobs'[w].proposal)
    BY <1>8 DEF Sending
  <2>3. QED
    BY <1>8, <2>1, <2>2 DEF JobsCalm, Sending
<1>9. ASSUME NEW p \in Proposals, execs'[p].tx_hash # NULL
      PROVE  execs'[p].tx_hash = execs[p].tx_hash /\ execs[p].tx_hash \in DOMAIN sent
  BY <1>9 DEF ExecInv, HashesSent, RowsCalm, Undisturbed, HandedOver, DecidedAnew, Settled
<1>10. HashesSent'
  BY <1>8, <1>9 DEF ExecInv, HashesSent, SentCalm
<1>11. HashesOwn'
  BY <1>8, <1>9 DEF ExecInv, HashesSent, HashesOwn, SentCalm
<1>12. OneLiveExecution'
  <2> SUFFICES ASSUME NEW i \in DOMAIN sent', NEW j \in DOMAIN sent', Live(i)', Live(j)',
                      sent'[i].proposal = sent'[j].proposal
               PROVE  i = j
    BY DEF OneLiveExecution, Live
  <2>1. /\ i \in DOMAIN sent /\ j \in DOMAIN sent /\ Live(i) /\ Live(j)
        /\ sent[i].proposal = sent[j].proposal
    BY DEF SentCalm
  <2>2. QED
    BY <2>1 DEF ExecInv, OneLiveExecution, Live
<1>13. SuccessMeansExecuted'
  <2> SUFFICES ASSUME NEW p \in Proposals, execs'[p].status = "SUCCESS"
               PROVE  execs'[p].tx_hash # NULL /\ sent'[execs'[p].tx_hash].state = "SUCCESS"
    BY DEF SuccessMeansExecuted
  <2>1. /\ execs'[p].tx_hash = execs[p].tx_hash
        /\ execs[p].tx_hash # NULL
        /\ sent[execs[p].tx_hash].state = "SUCCESS"
    BY DEF ExecInv, SuccessMeansExecuted, RowsCalm, Undisturbed, HandedOver, DecidedAnew, Settled
  <2>2. execs[p].tx_hash \in DOMAIN sent
    BY <2>1 DEF ExecInv, HashesSent
  <2>3. QED
    BY <2>1, <2>2 DEF SentCalm
<1>14. QED
  BY <1>4, <1>5, <1>6, <1>7, <1>10, <1>11, <1>12, <1>13 DEF ExecInv

(* A step that leaves the network alone. *)
LEMMA SentAlone == UNCHANGED sent => SentCalm
  BY DEF SentCalm, Live

(* One that leaves the rows alone. *)
LEMMA RowsAlone == UNCHANGED execs => RowsCalm
  BY DEF RowsCalm, Undisturbed

(* One that leaves the jobs alone: an answer of the network stays true. *)
LEMMA JobsAlone ==
  ASSUME TypeInv, ExecInv, SentCalm, UNCHANGED jobs
  PROVE  JobsCalm
<1>1. ASSUME NEW w \in Workers, jobs[w].pc = "answered", jobs[w].answer \in {"SUCCESS", "FAILED"}
      PROVE  sent'[jobs[w].read.tx_hash].state = jobs[w].answer
  <2>1. jobs[w].read \in OpenReads(jobs[w])
    BY <1>1 DEF TypeInv, JobsOK, JobOK, OpenReads
  <2>2. jobs[w].read \in Snapshot /\ jobs[w].read.proposal \in Proposals
    BY <2>1, JobFacts, TypeParts DEF OpenReads, Snapshot
  <2>3. jobs[w].read.tx_hash \in DOMAIN sent
    BY <2>1, <2>2 DEF ExecInv, ReadsCurrent, HashesSent
  <2>4. QED
    BY <1>1, <2>3 DEF ExecInv, AnswersTrue, SentCalm
<1>2. QED
  BY <1>1 DEF JobsCalm

(* One worker moves on, to no send and to nothing new to poll. *)
LEMMA CalmGoes ==
  ASSUME TypeInv, ExecInv, UNCHANGED sent, NEW w \in Workers, NEW job, Goes(w, job),
         job.pc \notin {"send", "submitted", "send failed", "answered"},
         OpenReads(job) \subseteq OpenReads(jobs[w])
  PROVE  JobsCalm
<1>1. jobs \in [Workers -> Job]
  BY DEF TypeInv, TypeOK
<1>2. jobs'[w] = job /\ \A v \in Workers \ {w} : jobs'[v] = jobs[v]
  BY <1>1 DEF Goes
<1>3. QED
  BY <1>2 DEF JobsCalm, ExecInv, AnswersTrue, Sending

(* In particular, to nothing to poll at all. *)
LEMMA QuietGoes ==
  ASSUME TypeInv, ExecInv, UNCHANGED sent, NEW w \in Workers, NEW job, Goes(w, job),
         job.pc \notin {"send", "submitted", "send failed", "answered"}, job.todo = {}
  PROVE  JobsCalm
  BY CalmGoes DEF OpenReads

(* The next row of a loop. *)
LEMMA OnwardCalm ==
  ASSUME TypeInv, ExecInv, UNCHANGED sent, NEW w \in Workers, Onward(w)
  PROVE  JobsCalm
<1> DEFINE job == [IdleJob EXCEPT !.pc = "next", !.rest = jobs[w].rest]
<1>1. job.pc = "next" /\ job.todo = {} /\ IdleJob.pc = "idle" /\ IdleJob.todo = {}
  BY DEF IdleJob
<1>2. QED
  BY <1>1, QuietGoes DEF Onward

(* The next transaction to poll: what was read of the last one is gone. *)
LEMMA NextSnapshotCalm ==
  ASSUME TypeInv, ExecInv, UNCHANGED sent, NEW w \in Workers, NextSnapshot(w)
  PROVE  /\ JobsCalm
         /\ OpenReads(jobs'[w]) = jobs[w].todo \ {jobs[w].read}
         /\ \A p \in Proposals : ~Sending(jobs'[w], p)
<1> DEFINE todo == jobs[w].todo \ {jobs[w].read}
           job == IF todo # {} THEN [IdleJob EXCEPT !.pc = "poll", !.todo = todo] ELSE IdleJob
<1>1. job.pc \in {"poll", "idle"} /\ job.todo = todo
  <2> HIDE DEF todo
  <2> QED
    BY DEF IdleJob
<1>2. Goes(w, job) /\ jobs \in [Workers -> Job]
  BY DEF NextSnapshot, TypeInv, TypeOK
<1> HIDE DEF job
<1>3. jobs'[w] = job
  BY <1>2 DEF Goes
<1>4. OpenReads(job) = todo /\ todo \subseteq OpenReads(jobs[w])
  BY <1>1 DEF OpenReads
<1>5. JobsCalm
  BY <1>1, <1>2, <1>4, CalmGoes
<1>6. QED
  BY <1>1, <1>3, <1>4, <1>5 DEF Sending

(* One row is written. *)
LEMMA RowCalm ==
  ASSUME TypeInv, NEW p \in Proposals, NEW exec, execs' = [execs EXCEPT ![p] = exec],
         Undisturbed(p) \/ HandedOver(p) \/ DecidedAnew(p) \/ Settled(p)
  PROVE  RowsCalm
<1>1. \A q \in Proposals \ {p} : execs'[q] = execs[q]
  BY DEF TypeInv, TypeOK
<1>2. QED
  BY <1>1 DEF RowsCalm, Undisturbed

(* What was read of a row by its only poller has been written back: nobody *)
(* has anything to write to that row any more.                             *)
LEMMA LastReader ==
  ASSUME TypeInv, ExecInv, SinglePoller, NEW w \in Workers, jobs[w].pc = "answered",
         \A v \in Workers \ {w} : jobs'[v] = jobs[v],
         OpenReads(jobs'[w]) = jobs[w].todo \ {jobs[w].read},
         \A p \in Proposals : ~Sending(jobs'[w], p)
  PROVE  \A v \in Workers : /\ ~Sending(jobs'[v], jobs[w].proposal)
                            /\ \A s \in OpenReads(jobs'[v]) : s.proposal # jobs[w].proposal
<1> DEFINE read == jobs[w].read
           p == jobs[w].proposal
<1>1. read \in OpenReads(jobs[w]) /\ p = read.proposal /\ p \in Proposals
  BY JobFacts, TypeParts DEF JobOK, OpenReads, Placed
<1>2. /\ "poll" \in Roles[w]
      /\ \A v \in Workers : ~Sending(jobs[v], p)
      /\ \A t \in OpenReads(jobs[w]) : t.proposal = p => t = read
  BY <1>1 DEF ExecInv, ReadsCurrent
<1>3. ASSUME NEW v \in Workers, v # w
      PROVE  OpenReads(jobs[v]) = {}
  BY <1>2, <1>3 DEF ExecInv, ReadsCurrent, SinglePoller
<1>4. OpenReads(jobs[w]) = jobs[w].todo
  BY DEF OpenReads
<1>5. QED
  BY <1>1, <1>2, <1>3, <1>4

(* The steps of the world. *)
LEMMA WorldCalm ==
  ASSUME TypeInv, TypeInv', ExecInv,
         \/ \E p \in Proposals : StartVote(p) \/ EnqueueUpdate(p) \/ LeaseEnds(p) \/ \E t \in Tally : Vote(p, t)
         \/ \E i \in Tx, outcome \in {"SUCCESS", "FAILED", "GONE"} : Include(i, outcome)
  PROVE  ExecInv'
<1>1. ASSUME NEW p \in Proposals, StartVote(p) \/ EnqueueUpdate(p) \/ LeaseEnds(p) \/ \E t \in Tally : Vote(p, t)
      PROVE  ExecInv'
  <2>1. UNCHANGED sent /\ UNCHANGED jobs
    BY <1>1 DEF StartVote, EnqueueUpdate, LeaseEnds, Vote, outside
  <2>2. RowsCalm
    <3>1. CASE UNCHANGED execs
      BY <3>1, RowsAlone
    <3>2. CASE LeaseEnds(p)
      <4> DEFINE exec == [execs[p] EXCEPT !.started = "lease over"]
      <4>1. execs' = [execs EXCEPT ![p] = exec] /\ execs \in [Proposals -> Execution]
        BY <3>2 DEF LeaseEnds, TypeInv, TypeOK
      <4>2. exec.status = execs[p].status /\ exec.tx_hash = execs[p].tx_hash
        BY <4>1 DEF Execution
      <4> HIDE DEF exec
      <4>3. Undisturbed(p)
        BY <4>1, <4>2 DEF Undisturbed
      <4>4. QED
        BY <4>1, <4>3, RowCalm
    <3>3. QED
      BY <1>1, <3>1, <3>2 DEF StartVote, EnqueueUpdate, Vote, database
  <2>3. QED
    BY <2>1, <2>2, SentAlone, JobsAlone, CalmStep
<1>2. ASSUME NEW i \in Tx, NEW outcome \in {"SUCCESS", "FAILED", "GONE"}, Include(i, outcome)
      PROVE  ExecInv'
  <2>1. UNCHANGED jobs /\ UNCHANGED execs
    BY <1>2 DEF Include, database
  <2>2. /\ i \in DOMAIN sent /\ sent[i].state = "PENDING"
        /\ sent' = [sent EXCEPT ![i].state = outcome]
        /\ sent \in Seq(Transaction)
    BY <1>2 DEF Include, TypeInv, TypeOK
  <2>3. sent[i] \in Transaction /\ DOMAIN sent' = DOMAIN sent
    BY <2>2
  <2>4. /\ sent'[i].proposal = sent[i].proposal
        /\ sent'[i].known = sent[i].known
        /\ \A j \in DOMAIN sent : j # i => sent'[j] = sent[j]
    BY <2>2, <2>3 DEF Transaction
  <2>5. SentCalm
    BY <2>2, <2>3, <2>4 DEF SentCalm, Live
  <2>6. QED
    BY <2>1, <2>5, RowsAlone, JobsAlone, CalmStep
<1>3. QED
  BY <1>1, <1>2

(* The steps that end votes and index them. *)
LEMMA IndexCalm ==
  ASSUME TypeInv, TypeInv', ExecInv, NEW w \in Workers,
         StartFinish(w) \/ Finish(w) \/ Index(w) \/ \E m \in messages : StartResults(w, m)
  PROVE  ExecInv'
<1>1. jobs[w] \in Job /\ JobOK(jobs[w])
  BY JobFacts, TypeParts
<1>2. CASE StartFinish(w)
  <2>1. PICK ended : Goes(w, [IdleJob EXCEPT !.pc = "finish", !.rest = ended])
    BY <1>2 DEF StartFinish
  <2>2. UNCHANGED sent /\ UNCHANGED execs
    BY <1>2 DEF StartFinish, database, outside
  <2>3. JobsCalm
    <3> DEFINE job == [IdleJob EXCEPT !.pc = "finish", !.rest = ended]
    <3>1. job.pc = "finish" /\ job.todo = {} /\ Goes(w, job)
      BY <2>1 DEF IdleJob
    <3> HIDE DEF job
    <3>2. QED
      BY <2>2, <3>1, QuietGoes
  <2>4. QED
    BY <2>2, <2>3, SentAlone, RowsAlone, CalmStep
<1>3. ASSUME NEW p \in Proposals, FinishVote(w, p)
      PROVE  ExecInv'
  <2>1. UNCHANGED sent /\ UNCHANGED execs
    BY <1>3 DEF FinishVote, outside
  <2>2. JobsCalm
    <3> DEFINE job == [jobs[w] EXCEPT !.pc = "freeze", !.proposal = p, !.rest = @ \ {p}]
    <3>1. job.pc = "freeze" /\ job.todo = {} /\ Goes(w, job)
      BY <1>1, <1>3 DEF FinishVote, At, JobOK, Job
    <3> HIDE DEF job
    <3>2. QED
      BY <2>1, <3>1, QuietGoes
  <2>3. QED
    BY <2>1, <2>2, SentAlone, RowsAlone, CalmStep
<1>4. CASE EnqueueFreeze(w)
  <2>1. UNCHANGED sent /\ UNCHANGED execs
    BY <1>4 DEF EnqueueFreeze, outside, database
  <2>2. JobsCalm
    <3> DEFINE job == [IdleJob EXCEPT !.pc = "finish", !.rest = jobs[w].rest]
    <3>1. job.pc = "finish" /\ job.todo = {} /\ IdleJob.pc = "idle" /\ IdleJob.todo = {}
      BY DEF IdleJob
    <3>2. Goes(w, job) \/ Goes(w, IdleJob)
      BY <1>4 DEF EnqueueFreeze
    <3> HIDE DEF job
    <3>3. QED
      BY <2>1, <3>1, <3>2, QuietGoes
  <2>3. QED
    BY <2>1, <2>2, SentAlone, RowsAlone, CalmStep
<1>5. ASSUME NEW m \in messages, StartResults(w, m)
      PROVE  ExecInv'
  <2>1. UNCHANGED sent /\ UNCHANGED execs
    BY <1>5 DEF StartResults, outside, database
  <2>2. JobsCalm
    <3> DEFINE job == [Job1("index", m.proposal) EXCEPT !.freezing = m.freezing]
    <3>1. job.pc = "index" /\ job.todo = {} /\ Goes(w, job)
      BY <1>5 DEF StartResults, Job1, IdleJob
    <3> HIDE DEF job
    <3>2. QED
      BY <2>1, <3>1, QuietGoes
  <2>3. QED
    BY <2>1, <2>2, SentAlone, RowsAlone, CalmStep
<1>6. CASE ReadBallots(w) \/ IndexingFails(w)
  <2>1. UNCHANGED sent /\ UNCHANGED execs
    BY <1>6 DEF ReadBallots, IndexingFails, outside, database
  <2>2. JobsCalm
    <3> DEFINE read == [jobs[w] EXCEPT !.pc = "snapshot", !.tally = ballots[jobs[w].proposal]]
               held == [jobs[w] EXCEPT !.pc = "hold"]
    <3>1. /\ read.pc = "snapshot" /\ read.todo = {}
          /\ held.pc = "hold" /\ held.todo = {}
          /\ IdleJob.pc = "idle" /\ IdleJob.todo = {}
      BY <1>1, <1>6 DEF ReadBallots, IndexingFails, At, JobOK, Job, IdleJob
    <3>2. Goes(w, read) \/ Goes(w, held) \/ Goes(w, IdleJob)
      BY <1>6 DEF ReadBallots, IndexingFails
    <3> HIDE DEF read, held
    <3>3. QED
      BY <2>1, <3>1, <3>2, QuietGoes
  <2>3. QED
    BY <2>1, <2>2, SentAlone, RowsAlone, CalmStep
<1>7. CASE SaveSnapshot(w)
  <2>1. UNCHANGED sent /\ UNCHANGED execs /\ Goes(w, Job1("tally", jobs[w].proposal))
    BY <1>7 DEF SaveSnapshot, outside
  <2>2. Job1("tally", jobs[w].proposal).pc = "tally" /\ Job1("tally", jobs[w].proposal).todo = {}
    BY DEF Job1, IdleJob
  <2>3. QED
    BY <2>1, <2>2, QuietGoes, SentAlone, RowsAlone, CalmStep
<1>8. CASE Hold(w)
  <2> DEFINE p == jobs[w].proposal
  <2>1. UNCHANGED sent /\ Goes(w, IdleJob) /\ p \in Proposals
    BY <1>1, <1>8 DEF Hold, At, outside, JobOK, Placed
  <2>2. IdleJob.pc = "idle" /\ IdleJob.todo = {}
    BY DEF IdleJob
  <2>3. RowsCalm
    <3>1. CASE execs' = [execs EXCEPT ![p] = InReview(execs[p])]
      <4>1. execs \in [Proposals -> Execution]
        BY DEF TypeInv, TypeOK
      <4>2. HandedOver(p)
        BY <2>1, <3>1, <4>1, ExecColumns DEF HandedOver
      <4>3. QED
        BY <2>1, <3>1, <4>2, RowCalm
    <3>2. QED
      BY <1>8, <3>1, RowsAlone DEF Hold
  <2>4. QED
    BY <2>1, <2>2, <2>3, QuietGoes, SentAlone, CalmStep
<1>9. QED
  BY <1>2, <1>3, <1>4, <1>5, <1>6, <1>7, <1>8 DEF Finish, Index

(* The steps that decide. *)
LEMMA FinalizeCalm ==
  ASSUME TypeInv, TypeInv', ExecInv, NEW w \in Workers, Finalize(w)
  PROVE  ExecInv'
<1> DEFINE p == jobs[w].proposal
<1>1. jobs[w] \in Job /\ JobOK(jobs[w]) /\ UNCHANGED sent
  BY JobFacts, TypeParts
     DEF Finalize, CountVotes, SaveResults, Leave, FailDecision, SkipExecution, Approve, EnqueueSend, outside
<1>2. JobsCalm
  <2>1. CASE Leave(w) \/ FailDecision(w) \/ SkipExecution(w) \/ EnqueueSend(w)
    BY <1>1, <2>1, OnwardCalm DEF Leave, FailDecision, SkipExecution, EnqueueSend
  <2>2. CASE CountVotes(w)
    <3> DEFINE counted == Counted(p)
               job == [jobs[w] EXCEPT !.pc = "save", !.result = counted]
    <3>1. Goes(w, job) /\ At(w, "tally")
      BY <2>2 DEF CountVotes
    <3>2. job.pc = "save" /\ job.todo = {}
      <4> HIDE DEF counted
      <4> QED
        BY <1>1, <3>1 DEF At, JobOK, Job
    <3> HIDE DEF job
    <3>3. QED
      BY <1>1, <3>1, <3>2, QuietGoes
  <2>3. CASE SaveResults(w)
    <3>1. PICK result, fresh :
            Goes(w, [jobs[w] EXCEPT !.pc = "decide", !.result = result, !.fresh = fresh])
      BY <2>3 DEF SaveResults
    <3> DEFINE job == [jobs[w] EXCEPT !.pc = "decide", !.result = result, !.fresh = fresh]
    <3>2. job.pc = "decide" /\ job.todo = {}
      BY <1>1, <2>3 DEF SaveResults, At, JobOK, Job
    <3> HIDE DEF job
    <3>3. QED
      BY <1>1, <3>1, <3>2, QuietGoes DEF job
  <2>4. CASE Approve(w)
    <3> DEFINE job == [jobs[w] EXCEPT !.pc = "enqueue"]
    <3>1. Goes(w, job) /\ job.pc = "enqueue" /\ job.todo = {}
      BY <1>1, <2>4 DEF Approve, Undecided, At, JobOK, Job
    <3> HIDE DEF job
    <3>2. QED
      BY <1>1, <3>1, QuietGoes
  <2>5. QED
    BY <2>1, <2>2, <2>3, <2>4 DEF Finalize
<1>3. RowsCalm
  <2>1. CASE UNCHANGED execs
    BY <2>1, RowsAlone
  <2>2. CASE FailDecision(w) \/ SkipExecution(w) \/ Approve(w)
    <3>1. PICK s \in {"FAILED", "SKIPPED", "PENDING"} : execs' = [execs EXCEPT ![p] = Fresh(s)]
      BY <2>2 DEF FailDecision, SkipExecution, Approve
    <3>2. p \in Proposals /\ execs \in [Proposals -> Execution]
      BY <1>1, <2>2 DEF FailDecision, SkipExecution, Approve, Undecided, At, JobOK, Placed, TypeInv, TypeOK
    <3>3. execs[p].status \in {"PENDING", "FAILED", "SKIPPED"}
      <4>1. ~Decided(execs[p])
        BY <2>2 DEF FailDecision, SkipExecution, Approve, Undecided
      <4>2. QED
        BY <3>2, <4>1 DEF Decided, Execution, ExecutionStatus
    <3>4. DecidedAnew(p)
      BY <3>1, <3>2, <3>3 DEF DecidedAnew, Fresh
    <3>5. QED
      BY <3>1, <3>2, <3>4, RowCalm
  <2>3. QED
    BY <2>1, <2>2 DEF Finalize, CountVotes, SaveResults, Leave, EnqueueSend, database
<1>4. QED
  BY <1>1, <1>2, <1>3, SentAlone, CalmStep

(* The steps of the retry, and a worker's death. *)
LEMMA RetryCalm ==
  ASSUME TypeInv, TypeInv', ExecInv, NEW w \in Workers, StartRetry(w) \/ Retry(w) \/ Crash(w)
  PROVE  ExecInv'
<1>1. UNCHANGED sent
  BY DEF StartRetry, Retry, Crash, MarkStale, ListRetries, NextRetry, outside
<1>2. IdleJob.pc = "idle" /\ IdleJob.todo = {}
  BY DEF IdleJob
<1>3. JobsCalm
  <2>1. CASE StartRetry(w) \/ MarkStale(w) \/ ListRetries(w)
    <3> DEFINE mark == [IdleJob EXCEPT !.pc = "mark", !.rest = Stale]
               list == [IdleJob EXCEPT !.pc = "list"]
               next == [IdleJob EXCEPT !.pc = "next", !.rest = Retryable]
    <3>1. /\ mark.pc = "mark" /\ mark.todo = {}
          /\ list.pc = "list" /\ list.todo = {}
          /\ next.pc = "next" /\ next.todo = {}
      BY DEF IdleJob
    <3>2. Goes(w, mark) \/ Goes(w, list) \/ Goes(w, next) \/ Goes(w, IdleJob)
      BY <2>1 DEF StartRetry, MarkStale, ListRetries
    <3> HIDE DEF mark, list, next
    <3>3. QED
      BY <1>1, <1>2, <3>1, <3>2, QuietGoes
  <2>2. ASSUME NEW p \in Proposals, NextRetry(w, p)
        PROVE  JobsCalm
    <3> DEFINE rest == jobs[w].rest \ {p}
               job == [Job1("tally", p) EXCEPT !.rest = rest]
    <3>1. Goes(w, job)
      BY <2>2 DEF NextRetry
    <3>2. job.pc = "tally" /\ job.todo = {}
      <4> HIDE DEF rest
      <4> QED
        BY DEF Job1, IdleJob
    <3> HIDE DEF job
    <3>3. QED
      BY <1>1, <3>1, <3>2, QuietGoes
  <2>3. CASE Crash(w)
    BY <1>1, <1>2, <2>3, QuietGoes DEF Crash
  <2>4. QED
    BY <2>1, <2>2, <2>3 DEF Retry
<1>4. RowsCalm
  <2>1. CASE UNCHANGED execs
    BY <2>1, RowsAlone
  <2>2. CASE MarkStale(w)
    <3>1. ASSUME NEW p \in Proposals
          PROVE  Undisturbed(p) \/ HandedOver(p)
      <4>1. execs[p] \in Execution
        BY DEF TypeInv, TypeOK
      <4>2. execs'[p] = execs[p] \/ execs'[p] = InReview(execs[p])
        BY <2>2 DEF MarkStale
      <4>3. QED
        BY <4>1, <4>2, ExecColumns DEF Undisturbed, HandedOver
    <3>2. QED
      BY <3>1 DEF RowsCalm
  <2>3. QED
    BY <2>1, <2>2 DEF StartRetry, Retry, Crash, ListRetries, NextRetry, database
<1>5. QED
  BY <1>1, <1>3, <1>4, SentAlone, CalmStep

(* A poller asks: what Soroban says is what has become of the transaction. *)
LEMMA AskCalm ==
  ASSUME TypeInv, TypeInv', ExecInv, NEW w \in Workers, AskSoroban(w)
  PROVE  ExecInv'
<1>1. UNCHANGED sent /\ UNCHANGED execs /\ jobs[w].pc = "poll" /\ jobs \in [Workers -> Job]
  BY DEF AskSoroban, At, database, outside, TypeInv, TypeOK
<1>2. PICK read \in jobs[w].todo : \E answer \in SorobanAnswers(read.tx_hash) :
        Goes(w, [jobs[w] EXCEPT !.pc = "answered", !.read = read, !.proposal = read.proposal, !.answer = answer])
  BY DEF AskSoroban
<1>3. PICK answer \in SorobanAnswers(read.tx_hash) :
        Goes(w, [jobs[w] EXCEPT !.pc = "answered", !.read = read, !.proposal = read.proposal, !.answer = answer])
  BY <1>2
<1> DEFINE q == read.proposal
           job == [jobs[w] EXCEPT !.pc = "answered", !.read = read, !.proposal = q, !.answer = answer]
<1>4. job.pc = "answered" /\ job.read = read /\ job.answer = answer /\ job.todo = jobs[w].todo
  <2> HIDE DEF q
  <2> QED
    BY <1>1 DEF Job
<1>5. jobs'[w] = job /\ \A v \in Workers \ {w} : jobs'[v] = jobs[v]
  BY <1>1, <1>3 DEF Goes
<1>6. answer \in {"SUCCESS", "FAILED"} => sent[read.tx_hash].state = answer
  BY DEF SorobanAnswers
<1> HIDE DEF job
<1>7. JobsCalm
  <2>1. ASSUME NEW v \in Workers, v # w, jobs[v].pc = "answered", jobs[v].answer \in {"SUCCESS", "FAILED"}
        PROVE  sent[jobs[v].read.tx_hash].state = jobs[v].answer
    BY <2>1 DEF ExecInv, AnswersTrue
  <2>2. ASSUME NEW v \in Workers
        PROVE  OpenReads(jobs'[v]) \subseteq OpenReads(jobs[v])
    BY <1>1, <1>4, <1>5 DEF OpenReads
  <2>3. QED
    BY <1>1, <1>4, <1>5, <1>6, <2>1, <2>2 DEF JobsCalm, Sending
<1>8. QED
  BY <1>1, <1>7, SentAlone, RowsAlone, CalmStep

(* A poller writes back what it was told. *)
LEMMA AnswerCalm ==
  ASSUME TypeInv, TypeInv', ExecInv, SinglePoller, NEW w \in Workers,
         Synced(w) \/ WritePollFailed(w) \/ WritePolled(w) \/ NotePoll(w)
  PROVE  ExecInv'
<1> DEFINE p == jobs[w].proposal
           read == jobs[w].read
           noted == [jobs[w] EXCEPT !.pc = "note poll"]
<1>1. UNCHANGED sent
  BY DEF Synced, WritePollFailed, WritePolled, NotePoll, outside
<1>2. jobs[w] \in Job /\ jobs \in [Workers -> Job] /\ execs \in [Proposals -> Execution]
  BY DEF TypeInv, TypeOK
<1>3. /\ read \in jobs[w].todo /\ p = read.proposal /\ p \in Proposals
      /\ jobs[w].pc = "answered" => read \in OpenReads(jobs[w])
  BY JobFacts, TypeParts
     DEF Synced, WritePollFailed, WritePolled, NotePoll, At, JobOK, OpenReads, Placed
<1>4. jobs[w].pc = "answered" =>
        /\ execs[p].status \in {"SUBMITTED", "REQUIRES_REVIEW"}
        /\ execs[p].tx_hash = read.tx_hash /\ read.tx_hash # NULL
        /\ read.tx_hash \in DOMAIN sent
        /\ \A i \in DOMAIN sent : Live(i) /\ sent[i].proposal = p => read.tx_hash = i
  BY <1>3 DEF ExecInv, ReadsCurrent, LiveGuarded, HashesSent
<1>5. noted.pc = "note poll" /\ noted.todo = jobs[w].todo /\ noted.read = read
  BY <1>2 DEF Job
<1>6. ASSUME jobs[w].pc = "answered", Goes(w, noted)
      PROVE  /\ JobsCalm
             /\ OpenReads(jobs'[w]) = jobs[w].todo \ {read}
             /\ \A q \in Proposals : ~Sending(jobs'[w], q)
  <2>1. jobs'[w] = noted
    BY <1>2, <1>6 DEF Goes
  <2> HIDE DEF noted
  <2>2. OpenReads(noted) = jobs[w].todo \ {read} /\ OpenReads(noted) \subseteq OpenReads(jobs[w])
    BY <1>5, <1>6 DEF OpenReads
  <2>3. JobsCalm
    BY <1>1, <1>5, <1>6, <2>2, CalmGoes
  <2>4. QED
    BY <1>5, <2>1, <2>2, <2>3 DEF Sending
<1>7. (NextSnapshot(w) \/ Goes(w, noted)) => \A v \in Workers \ {w} : jobs'[v] = jobs[v]
  BY <1>2 DEF NextSnapshot, Goes
<1>8. CASE NotePoll(w)
  <2>1. UNCHANGED execs /\ NextSnapshot(w)
    BY <1>8 DEF NotePoll
  <2>2. QED
    BY <1>1, <2>1, NextSnapshotCalm, SentAlone, RowsAlone, CalmStep
<1>9. CASE Synced(w)
  <2>1. jobs[w].pc = "answered" /\ jobs[w].answer = "SUCCESS" /\ NextSnapshot(w)
    BY <1>9 DEF Synced, At
  <2>2. sent[read.tx_hash].state = "SUCCESS"
    BY <2>1 DEF ExecInv, AnswersTrue
  <2>3. /\ JobsCalm
        /\ \A v \in Workers : ~Sending(jobs'[v], p) /\ \A s \in OpenReads(jobs'[v]) : s.proposal # p
    BY <1>1, <1>7, <2>1, NextSnapshotCalm, LastReader
  <2>4. RowsCalm
    <3> DEFINE exec == [execs[p] EXCEPT !.status = "SUCCESS"]
    <3>1. CASE execs' = [execs EXCEPT ![p] = exec]
      <4>1. execs'[p].status = "SUCCESS" /\ execs'[p].tx_hash = execs[p].tx_hash
        BY <1>2, <1>3, <3>1 DEF Execution
      <4>2. Settled(p)
        BY <1>4, <2>1, <2>2, <2>3, <4>1 DEF Settled
      <4> HIDE DEF exec
      <4>3. QED
        BY <1>3, <3>1, <4>2, RowCalm
    <3>2. QED
      BY <1>9, <3>1, RowsAlone DEF Synced
  <2>5. QED
    BY <1>1, <2>3, <2>4, SentAlone, CalmStep
<1>10. CASE WritePollFailed(w)
  <2>1. jobs[w].pc = "answered" /\ jobs[w].answer = "FAILED" /\ Goes(w, noted)
    BY <1>10 DEF WritePollFailed, At
  <2>2. sent[read.tx_hash].state = "FAILED"
    BY <2>1 DEF ExecInv, AnswersTrue
  <2>3. \A i \in DOMAIN sent : Live(i) => sent[i].proposal # p
    BY <1>4, <2>1, <2>2 DEF Live
  <2>4. /\ JobsCalm
        /\ \A v \in Workers : ~Sending(jobs'[v], p) /\ \A s \in OpenReads(jobs'[v]) : s.proposal # p
    <3>1. /\ JobsCalm
          /\ OpenReads(jobs'[w]) = jobs[w].todo \ {read}
          /\ \A q \in Proposals : ~Sending(jobs'[w], q)
      BY <1>6, <2>1
    <3>2. \A v \in Workers \ {w} : jobs'[v] = jobs[v]
      BY <1>7, <2>1
    <3>3. QED
      BY <2>1, <3>1, <3>2, LastReader
  <2>5. execs' = [execs EXCEPT ![p] = PollFailed(execs[p], read.polls)]
    BY <1>10 DEF WritePollFailed
  <2>6. execs'[p].status = "FAILED" /\ execs'[p].tx_hash = execs[p].tx_hash
    BY <1>2, <1>3, <2>5, ExecColumns
  <2>7. Settled(p)
    BY <2>3, <2>4, <2>6 DEF Settled
  <2>8. RowsCalm
    BY <1>3, <2>5, <2>7, RowCalm
  <2>9. QED
    BY <1>1, <2>4, <2>8, SentAlone, CalmStep
<1>11. CASE WritePolled(w)
  <2>1. jobs[w].pc = "answered" /\ (Goes(w, noted) \/ NextSnapshot(w))
    BY <1>11 DEF WritePolled, At
  <2>2. JobsCalm
    BY <1>1, <1>6, <2>1, NextSnapshotCalm
  <2>3. execs' = [execs EXCEPT ![p] = Polled(execs[p], read.polls)]
    BY <1>11 DEF WritePolled
  <2>4. Undisturbed(p) \/ HandedOver(p)
    BY <1>2, <1>3, <2>3, ExecColumns DEF Undisturbed, HandedOver
  <2>5. RowsCalm
    BY <1>3, <2>3, <2>4, RowCalm
  <2>6. QED
    BY <1>1, <2>2, <2>5, SentAlone, CalmStep
<1>12. QED
  BY <1>8, <1>9, <1>10, <1>11

(* A send that goes no further, or notes what came of it. *)
LEMMA GiveUpCalm ==
  ASSUME TypeInv, TypeInv', ExecInv, NEW w \in Workers,
         NotSent(w) \/ WriteSendFailed(w) \/ NoteSend(w)
  PROVE  ExecInv'
<1> DEFINE p == jobs[w].proposal
           failed == [jobs[w] EXCEPT !.pc = "send failed"]
           noted == [jobs[w] EXCEPT !.pc = "note failure"]
<1>1. UNCHANGED sent
  BY DEF NotSent, WriteSendFailed, NoteSend, outside
<1>2. jobs[w] \in Job /\ jobs \in [Workers -> Job] /\ execs \in [Proposals -> Execution]
  BY DEF TypeInv, TypeOK
<1>3. jobs[w].todo = {} /\ p \in Proposals
  BY JobFacts, TypeParts DEF NotSent, WriteSendFailed, NoteSend, At, JobOK, Placed
<1>4. CASE NotSent(w)
  <2>1. UNCHANGED execs /\ jobs[w].pc = "send" /\ Goes(w, failed)
    BY <1>4 DEF NotSent, At, database
  <2>2. failed.pc = "send failed" /\ failed.proposal = p /\ failed.todo = {}
    BY <1>2, <1>3 DEF Job
  <2> HIDE DEF failed
  <2>3. jobs'[w] = failed /\ \A v \in Workers \ {w} : jobs'[v] = jobs[v]
    BY <1>2, <2>1 DEF Goes
  <2>4. JobsCalm
    <3>1. ASSUME NEW v \in Workers, v # w, jobs[v].pc = "answered", jobs[v].answer \in {"SUCCESS", "FAILED"}
          PROVE  sent[jobs[v].read.tx_hash].state = jobs[v].answer
      BY <3>1 DEF ExecInv, AnswersTrue
    <3>2. \A q : Sending(jobs'[w], q) => Sending(jobs[w], q)
      BY <2>1, <2>2, <2>3 DEF Sending
    <3>3. OpenReads(jobs'[w]) = {}
      BY <2>2, <2>3 DEF OpenReads
    <3>4. QED
      BY <1>1, <2>1, <2>2, <2>3, <3>1, <3>2, <3>3 DEF JobsCalm
  <2>5. QED
    BY <1>1, <2>1, <2>4, SentAlone, RowsAlone, CalmStep
<1>5. CASE WriteSendFailed(w)
  <2>1. /\ jobs[w].pc = "send failed" /\ Goes(w, noted)
        /\ execs' = [execs EXCEPT ![p] = SendFailed(execs[p])]
    BY <1>5 DEF WriteSendFailed, At
  <2>2. noted.pc = "note failure" /\ noted.todo = {}
    BY <1>2, <1>3 DEF Job
  <2> HIDE DEF noted
  <2>3. jobs'[w] = noted /\ \A v \in Workers \ {w} : jobs'[v] = jobs[v]
    BY <1>2, <2>1 DEF Goes
  <2>4. JobsCalm
    BY <1>1, <2>1, <2>2, QuietGoes
  <2>5. Sending(jobs[w], p)
    BY <2>1 DEF Sending
  <2>6. /\ \A v \in Workers : Sending(jobs[v], p) => v = w
        /\ \A v \in Workers : \A s \in OpenReads(jobs[v]) : s.proposal # p
        /\ \A i \in DOMAIN sent : Live(i) => sent[i].proposal # p
    BY <1>3, <2>1, <2>5 DEF ExecInv, ClaimsApart, ReadsCurrent, LiveGuarded
  <2>7. \A v \in Workers : ~Sending(jobs'[v], p) /\ \A s \in OpenReads(jobs'[v]) : s.proposal # p
    <3>1. ~Sending(jobs'[w], p) /\ OpenReads(jobs'[w]) = {}
      BY <2>2, <2>3 DEF Sending, OpenReads
    <3>2. QED
      BY <2>3, <2>6, <3>1
  <2>8. execs'[p].status = "FAILED" /\ execs'[p].tx_hash = NULL
    BY <1>2, <1>3, <2>1, ExecColumns
  <2>9. Settled(p)
    BY <2>6, <2>7, <2>8 DEF Settled
  <2>10. RowsCalm
    BY <1>3, <2>1, <2>9, RowCalm
  <2>11. QED
    BY <1>1, <2>4, <2>10, SentAlone, CalmStep
<1>6. CASE NoteSend(w)
  <2>1. Goes(w, IdleJob) /\ UNCHANGED execs
    BY <1>6 DEF NoteSend
  <2>2. IdleJob.pc = "idle" /\ IdleJob.todo = {}
    BY DEF IdleJob
  <2>3. QED
    BY <1>1, <2>1, <2>2, QuietGoes, SentAlone, RowsAlone, CalmStep
<1>7. QED
  BY <1>4, <1>5, <1>6

(* While nothing is sent, HashesOwn is about the rows and the senders.     *)
LEMMA OwnWhenUnsent ==
  ASSUME UNCHANGED sent,
         \A p \in Proposals : execs'[p].tx_hash # NULL =>
           sent[execs'[p].tx_hash].known /\ sent[execs'[p].tx_hash].proposal = p,
         \A v \in Workers : jobs'[v].pc = "submitted" =>
           sent[jobs'[v].tx].known /\ sent[jobs'[v].tx].proposal = jobs'[v].proposal
  PROVE  HashesOwn'
  BY DEF HashesOwn

(* A claim: no other sender, no poller and no living transaction is there. *)
LEMMA ClaimStep ==
  ASSUME TypeInv, TypeInv', ExecInv, NEW w \in Workers, NEW m \in messages, StartSend(w, m)
  PROVE  ExecInv'
<1> DEFINE p == m.proposal
           job == Job1("send", p)
           claims == status[p] = "VOTED" /\ Claimable(execs[p])
<1>1. /\ jobs[w] = IdleJob /\ jobs \in [Workers -> Job] /\ execs \in [Proposals -> Execution]
      /\ UNCHANGED sent
  BY DEF StartSend, Take, Free, TypeInv, TypeOK, outside
<1>2. IdleJob.pc = "idle" /\ IdleJob.todo = {} /\ job.pc = "send" /\ job.todo = {} /\ job.proposal = p
  BY DEF IdleJob, Job1
<1>3. CASE ~claims
  <2>1. UNCHANGED execs /\ Goes(w, IdleJob)
    BY <1>3 DEF StartSend
  <2>2. QED
    BY <1>1, <1>2, <2>1, QuietGoes, SentAlone, RowsAlone, CalmStep
<1>4. CASE claims
  <2>1. execs' = [execs EXCEPT ![p] = Claimed(execs[p])] /\ Goes(w, job)
    BY <1>4 DEF StartSend
  <2>2. p \in Proposals
    BY MessageTypes DEF TypeInv, TypeOK
  <2>3. execs[p].status = "PENDING"
    BY <1>4 DEF Claimable
  <2> HIDE DEF job, p
  <2>4. /\ \A v \in Workers : ~Sending(jobs[v], p)
        /\ \A v \in Workers : \A s \in OpenReads(jobs[v]) : s.proposal # p
        /\ \A i \in DOMAIN sent : Live(i) => sent[i].proposal # p
    BY <2>2, <2>3 DEF ExecInv, ClaimsApart, ReadsCurrent, LiveGuarded
  <2>5. jobs'[w] = job /\ \A v \in Workers \ {w} : jobs'[v] = jobs[v]
    BY <1>1, <2>1 DEF Goes
  <2>6. /\ execs'[p].status = "IN_PROGRESS" /\ execs'[p].tx_hash = execs[p].tx_hash
        /\ \A q \in Proposals \ {p} : execs'[q] = execs[q]
    BY <1>1, <2>1, <2>2, ExecColumns
  <2>7. /\ OpenReads(jobs'[w]) = {}
        /\ Sending(jobs'[w], p)
        /\ \A q : Sending(jobs'[w], q) => q = p
    BY <1>2, <2>5 DEF OpenReads, Sending
  <2>8. ClaimsApart'
    BY <2>4, <2>5, <2>6, <2>7 DEF ExecInv, ClaimsApart
  <2>9. ReadsCurrent'
    <3> SUFFICES ASSUME NEW v \in Workers, NEW s \in OpenReads(jobs'[v])
                 PROVE  /\ "poll" \in Roles[v]
                        /\ execs'[s.proposal].status \in {"SUBMITTED", "REQUIRES_REVIEW"}
                        /\ execs'[s.proposal].tx_hash = s.tx_hash /\ s.tx_hash # NULL
                        /\ \A u \in Workers : ~Sending(jobs'[u], s.proposal)
                        /\ \A t \in OpenReads(jobs'[v]) : t.proposal = s.proposal => t = s
      BY DEF ReadsCurrent
    <3>1. v # w /\ s \in OpenReads(jobs[v]) /\ s.proposal # p /\ s.proposal \in Proposals
      <4>1. v # w /\ s \in OpenReads(jobs[v]) /\ s.proposal # p
        BY <2>4, <2>5, <2>7
      <4>2. s \in Snapshot
        BY <4>1, JobFacts, TypeParts DEF OpenReads
      <4>3. QED
        BY <4>1, <4>2 DEF Snapshot
    <3>2. QED
      BY <2>5, <2>6, <2>7, <3>1 DEF ExecInv, ReadsCurrent
  <2>10. AnswersTrue'
    BY <1>1, <1>2, <2>5 DEF ExecInv, AnswersTrue
  <2>11. LiveGuarded'
    <3> SUFFICES ASSUME NEW i \in DOMAIN sent, Live(i)
                 PROVE  LET q == sent[i].proposal
                        IN  /\ execs'[q].status \in {"IN_PROGRESS", "REQUIRES_REVIEW", "SUBMITTED", "SUCCESS"}
                            /\ execs'[q].status = "SUBMITTED" => execs'[q].tx_hash = i
                            /\ \A v \in Workers : Sending(jobs'[v], q) => jobs'[v].pc = "submitted" /\ jobs'[v].tx = i
                            /\ \A v \in Workers : \A s \in OpenReads(jobs'[v]) : s.proposal = q => s.tx_hash = i
      BY <1>1 DEF LiveGuarded, Live
    <3>1. sent[i].proposal # p /\ sent[i].proposal \in Proposals
      <4>1. sent[i] \in Transaction
        BY DEF TypeInv, TypeOK
      <4>2. QED
        BY <2>4, <4>1 DEF Transaction
    <3>2. QED
      BY <2>5, <2>6, <2>7, <3>1 DEF ExecInv, LiveGuarded
  <2>12. HashesSent'
    BY <1>1, <1>2, <2>5, <2>6 DEF ExecInv, HashesSent
  <2>13. HashesOwn'
    <3>1. ASSUME NEW v \in Workers, jobs'[v].pc = "submitted"
          PROVE  sent[jobs'[v].tx].known /\ sent[jobs'[v].tx].proposal = jobs'[v].proposal
      BY <1>2, <2>5, <3>1 DEF ExecInv, HashesOwn
    <3>2. ASSUME NEW q \in Proposals, execs'[q].tx_hash # NULL
          PROVE  sent[execs'[q].tx_hash].known /\ sent[execs'[q].tx_hash].proposal = q
      BY <2>6, <3>2 DEF ExecInv, HashesOwn
    <3>3. QED
      BY <1>1, <3>1, <3>2, OwnWhenUnsent
  <2>14. OneLiveExecution'
    BY <1>1 DEF ExecInv, OneLiveExecution, Live
  <2>15. SuccessMeansExecuted'
    BY <1>1, <2>6 DEF ExecInv, SuccessMeansExecuted
  <2>16. QED
    BY <2>8, <2>9, <2>10, <2>11, <2>12, <2>13, <2>14, <2>15 DEF ExecInv
<1>5. QED
  BY <1>3, <1>4

(* What Soroban was asked about has been sent. *)
LEMMA AskedWasSent ==
  ASSUME TypeInv, ExecInv, NEW w \in Workers, jobs[w].pc = "answered"
  PROVE  jobs[w].read.tx_hash \in DOMAIN sent
<1>1. jobs[w].read \in OpenReads(jobs[w])
  BY DEF TypeInv, JobsOK, JobOK, OpenReads
<1>2. jobs[w].read \in Snapshot /\ jobs[w].read.proposal \in Proposals
  BY <1>1, JobFacts, TypeParts DEF OpenReads, Snapshot
<1>3. QED
  BY <1>1, <1>2 DEF ExecInv, ReadsCurrent, HashesSent

(* What a worker has read to poll, and what has been sent, is about rows   *)
(* that exist.                                                             *)
LEMMA ReadTypes ==
  ASSUME TypeInv, NEW w \in Workers, NEW s \in OpenReads(jobs[w])
  PROVE  s.proposal \in Proposals
<1>1. s \in Snapshot
  BY JobFacts, TypeParts DEF OpenReads
<1>2. QED
  BY <1>1 DEF Snapshot

(* The same of the transactions. *)
LEMMA SentTypes ==
  ASSUME TypeInv, NEW i \in DOMAIN sent
  PROVE  sent[i].proposal \in Proposals
<1>1. sent[i] \in Transaction
  BY DEF TypeInv, TypeOK
<1>2. QED
  BY <1>1 DEF Transaction

(* The network gets a transaction, the only one of its proposal that may   *)
(* still count.                                                            *)
LEMMA BroadcastStep ==
  ASSUME TypeInv, TypeInv', ExecInv, NEW w \in Workers, Broadcast(w)
  PROVE  ExecInv'
<1> DEFINE p == jobs[w].proposal
           n == Len(sent) + 1
           out == [jobs[w] EXCEPT !.pc = "submitted", !.tx = n]
           lost == [jobs[w] EXCEPT !.pc = "send failed"]
<1>1. PICK state \in {"PENDING", "GONE"}, known \in BOOLEAN :
        /\ sent' = Append(sent, [proposal |-> p, state |-> state, known |-> known])
        /\ Goes(w, IF known THEN out ELSE lost)
  BY DEF Broadcast
<1> DEFINE new == [proposal |-> p, state |-> state, known |-> known]
<1>2. /\ UNCHANGED execs /\ jobs[w].pc = "send"
      /\ jobs[w] \in Job /\ jobs \in [Workers -> Job] /\ sent \in Seq(Transaction)
  BY DEF Broadcast, At, database, TypeInv, TypeOK
<1>3. jobs[w].todo = {} /\ p \in Proposals
  BY <1>2, JobFacts, TypeParts DEF JobOK, Placed
<1>4. /\ n \notin DOMAIN sent /\ n \in DOMAIN sent' /\ DOMAIN sent' = DOMAIN sent \cup {n}
      /\ sent'[n] = new /\ \A i \in DOMAIN sent : sent'[i] = sent[i]
  <2> HIDE DEF new
  <2>1. Len(sent) \in Nat /\ DOMAIN sent = 1..Len(sent)
    BY <1>2
  <2>2. sent' = Append(sent, new)
    BY <1>1 DEF new
  <2>3. Len(sent') = n /\ sent'[n] = new /\ \A i \in 1..Len(sent) : sent'[i] = sent[i]
    BY <1>2, <2>2
  <2>4. DOMAIN sent' = 1..n
    BY <1>2, <2>1, <2>2, <2>3
  <2>5. QED
    BY <2>1, <2>3, <2>4
<1>5. new.proposal = p /\ new.known = known
  OBVIOUS
<1> DEFINE job == IF known THEN out ELSE lost
<1>6. /\ job.pc = IF known THEN "submitted" ELSE "send failed"
      /\ job.proposal = p /\ job.todo = {}
      /\ known => job.tx = n
  <2> HIDE DEF n
  <2> QED
    BY <1>2, <1>3 DEF Job
<1>7. Goes(w, job)
  BY <1>1
<1> HIDE DEF job, new, n, p
<1>8. jobs'[w] = job /\ \A v \in Workers \ {w} : jobs'[v] = jobs[v]
  BY <1>2, <1>7 DEF Goes
<1>9. Sending(jobs[w], p) /\ \A q : Sending(jobs[w], q) => q = p
  BY <1>2 DEF Sending, p
<1>10. /\ execs[p].status \in {"IN_PROGRESS", "REQUIRES_REVIEW"}
       /\ \A v \in Workers : Sending(jobs[v], p) => v = w
       /\ \A v \in Workers : \A s \in OpenReads(jobs[v]) : s.proposal # p
       /\ \A i \in DOMAIN sent : Live(i) => sent[i].proposal # p
  BY <1>2, <1>3, <1>9, ReadTypes DEF ExecInv, ClaimsApart, ReadsCurrent, LiveGuarded
<1>11. /\ OpenReads(jobs'[w]) = {}
       /\ Sending(jobs'[w], p)
       /\ \A q : Sending(jobs'[w], q) => q = p
  BY <1>6, <1>8 DEF OpenReads, Sending
<1>12. ClaimsApart'
  BY <1>2, <1>8, <1>9, <1>10, <1>11 DEF ExecInv, ClaimsApart
<1>13. ReadsCurrent'
  <2> SUFFICES ASSUME NEW v \in Workers, NEW s \in OpenReads(jobs'[v])
               PROVE  /\ "poll" \in Roles[v]
                      /\ execs'[s.proposal].status \in {"SUBMITTED", "REQUIRES_REVIEW"}
                      /\ execs'[s.proposal].tx_hash = s.tx_hash /\ s.tx_hash # NULL
                      /\ \A u \in Workers : ~Sending(jobs'[u], s.proposal)
                      /\ \A t \in OpenReads(jobs'[v]) : t.proposal = s.proposal => t = s
    BY DEF ReadsCurrent
  <2>1. v # w /\ s \in OpenReads(jobs[v]) /\ s.proposal # p /\ s.proposal \in Proposals
    BY <1>8, <1>10, <1>11, ReadTypes
  <2>2. QED
    BY <1>2, <1>8, <1>11, <2>1 DEF ExecInv, ReadsCurrent
<1>14. AnswersTrue'
  <2> SUFFICES ASSUME NEW v \in Workers, jobs'[v].pc = "answered", jobs'[v].answer \in {"SUCCESS", "FAILED"}
               PROVE  sent'[jobs'[v].read.tx_hash].state = jobs'[v].answer
    BY DEF AnswersTrue
  <2>1. jobs'[v] = jobs[v]
    BY <1>6, <1>8
  <2>2. QED
    BY <1>4, <2>1, AskedWasSent DEF ExecInv, AnswersTrue
<1>15. LiveGuarded'
  <2> SUFFICES ASSUME NEW i \in DOMAIN sent', Live(i)'
               PROVE  LET q == sent'[i].proposal
                      IN  /\ execs'[q].status \in {"IN_PROGRESS", "REQUIRES_REVIEW", "SUBMITTED", "SUCCESS"}
                          /\ execs'[q].status = "SUBMITTED" => execs'[q].tx_hash = i
                          /\ \A v \in Workers : Sending(jobs'[v], q) => jobs'[v].pc = "submitted" /\ jobs'[v].tx = i
                          /\ \A v \in Workers : \A s \in OpenReads(jobs'[v]) : s.proposal = q => s.tx_hash = i
    BY DEF LiveGuarded
  <2>1. CASE i = n
    <3>1. sent'[i].proposal = p /\ known
      BY <1>4, <1>5, <2>1 DEF Live
    <3>2. \A v \in Workers : Sending(jobs'[v], p) => jobs'[v].pc = "submitted" /\ jobs'[v].tx = i
      BY <1>6, <1>8, <1>10, <2>1, <3>1
    <3>3. \A v \in Workers : \A s \in OpenReads(jobs'[v]) : s.proposal # p
      BY <1>8, <1>10, <1>11
    <3>4. QED
      BY <1>2, <1>10, <3>1, <3>2, <3>3
  <2>2. CASE i # n
    <3>1. i \in DOMAIN sent /\ sent'[i] = sent[i] /\ Live(i)
      BY <1>4, <2>2 DEF Live
    <3>2. sent[i].proposal # p
      BY <1>10, <3>1
    <3>3. QED
      BY <1>2, <1>8, <1>11, <3>1, <3>2 DEF ExecInv, LiveGuarded
  <2>3. QED
    BY <2>1, <2>2
<1>16. HashesSent'
  BY <1>2, <1>4, <1>6, <1>8 DEF ExecInv, HashesSent
<1>17. HashesOwn'
  <2>1. ASSUME NEW q \in Proposals, execs'[q].tx_hash # NULL
        PROVE  sent'[execs'[q].tx_hash].known /\ sent'[execs'[q].tx_hash].proposal = q
    BY <1>2, <1>4, <2>1 DEF ExecInv, HashesSent, HashesOwn
  <2>2. ASSUME NEW v \in Workers, v # w, jobs'[v].pc = "submitted"
        PROVE  sent'[jobs'[v].tx].known /\ sent'[jobs'[v].tx].proposal = jobs'[v].proposal
    BY <1>4, <1>8, <2>2 DEF ExecInv, HashesSent, HashesOwn
  <2>3. jobs'[w].pc = "submitted" => sent'[jobs'[w].tx].known /\ sent'[jobs'[w].tx].proposal = jobs'[w].proposal
    BY <1>4, <1>5, <1>6, <1>8
  <2>4. QED
    BY <2>1, <2>2, <2>3 DEF HashesOwn
<1>18. OneLiveExecution'
  <2> SUFFICES ASSUME NEW i \in DOMAIN sent', NEW j \in DOMAIN sent', Live(i)', Live(j)',
                      sent'[i].proposal = sent'[j].proposal
               PROVE  i = j
    BY DEF OneLiveExecution, Live
  <2>1. ASSUME NEW k \in DOMAIN sent', Live(k)', k # n
        PROVE  k \in DOMAIN sent /\ Live(k) /\ sent'[k].proposal = sent[k].proposal /\ sent[k].proposal # p
    BY <1>4, <1>10, <2>1 DEF Live
  <2>2. sent'[n].proposal = p
    BY <1>4, <1>5
  <2>3. QED
    BY <2>1, <2>2 DEF ExecInv, OneLiveExecution, Live
<1>19. SuccessMeansExecuted'
  BY <1>2, <1>4 DEF ExecInv, SuccessMeansExecuted, HashesSent
<1>20. QED
  BY <1>12, <1>13, <1>14, <1>15, <1>16, <1>17, <1>18, <1>19 DEF ExecInv

(* The hash of what was sent is noted.                                     *)
LEMMA SubmittedStep ==
  ASSUME TypeInv, TypeInv', ExecInv, NEW w \in Workers, WriteSubmitted(w)
  PROVE  ExecInv'
<1> DEFINE p == jobs[w].proposal
           tx == jobs[w].tx
           job == [jobs[w] EXCEPT !.pc = "note hash"]
<1>1. /\ UNCHANGED sent /\ jobs[w].pc = "submitted" /\ Goes(w, job)
      /\ execs' = [execs EXCEPT ![p] = Submitted(execs[p], tx)]
      /\ jobs[w] \in Job /\ jobs \in [Workers -> Job] /\ execs \in [Proposals -> Execution]
  BY DEF WriteSubmitted, At, outside, TypeInv, TypeOK
<1>2. jobs[w].todo = {} /\ p \in Proposals
  BY <1>1, JobFacts, TypeParts DEF JobOK, Placed
<1>3. job.pc = "note hash" /\ job.todo = {}
  BY <1>1, <1>2 DEF Job
<1>4. Sending(jobs[w], p)
  BY <1>1 DEF Sending
<1> HIDE DEF job, p, tx
<1>5. /\ \A v \in Workers : Sending(jobs[v], p) => v = w
      /\ \A v \in Workers : \A s \in OpenReads(jobs[v]) : s.proposal # p
      /\ \A i \in DOMAIN sent : Live(i) /\ sent[i].proposal = p => tx = i
      /\ tx \in DOMAIN sent
  BY <1>1, <1>2, <1>4, ReadTypes DEF ExecInv, ClaimsApart, ReadsCurrent, LiveGuarded, HashesSent, tx
<1>6. jobs'[w] = job /\ \A v \in Workers \ {w} : jobs'[v] = jobs[v]
  BY <1>1 DEF Goes
<1>7. /\ execs'[p].status = "SUBMITTED" /\ execs'[p].tx_hash = tx
      /\ \A q \in Proposals \ {p} : execs'[q] = execs[q]
  BY <1>1, <1>2, ExecColumns
<1>8. OpenReads(jobs'[w]) = {} /\ \A q : ~Sending(jobs'[w], q)
  BY <1>3, <1>6 DEF OpenReads, Sending
<1>9. ClaimsApart'
  BY <1>5, <1>6, <1>7, <1>8 DEF ExecInv, ClaimsApart
<1>10. ReadsCurrent'
  <2> SUFFICES ASSUME NEW v \in Workers, NEW s \in OpenReads(jobs'[v])
               PROVE  /\ "poll" \in Roles[v]
                      /\ execs'[s.proposal].status \in {"SUBMITTED", "REQUIRES_REVIEW"}
                      /\ execs'[s.proposal].tx_hash = s.tx_hash /\ s.tx_hash # NULL
                      /\ \A u \in Workers : ~Sending(jobs'[u], s.proposal)
                      /\ \A t \in OpenReads(jobs'[v]) : t.proposal = s.proposal => t = s
    BY DEF ReadsCurrent
  <2>1. v # w /\ s \in OpenReads(jobs[v]) /\ s.proposal # p /\ s.proposal \in Proposals
    BY <1>5, <1>6, <1>8, ReadTypes
  <2>2. QED
    BY <1>6, <1>7, <1>8, <2>1 DEF ExecInv, ReadsCurrent
<1>11. AnswersTrue'
  BY <1>1, <1>3, <1>6 DEF ExecInv, AnswersTrue
<1>12. LiveGuarded'
  <2> SUFFICES ASSUME NEW i \in DOMAIN sent, Live(i)
               PROVE  LET q == sent[i].proposal
                      IN  /\ execs'[q].status \in {"IN_PROGRESS", "REQUIRES_REVIEW", "SUBMITTED", "SUCCESS"}
                          /\ execs'[q].status = "SUBMITTED" => execs'[q].tx_hash = i
                          /\ \A v \in Workers : Sending(jobs'[v], q) => jobs'[v].pc = "submitted" /\ jobs'[v].tx = i
                          /\ \A v \in Workers : \A s \in OpenReads(jobs'[v]) : s.proposal = q => s.tx_hash = i
    BY <1>1 DEF LiveGuarded, Live
  <2>1. CASE sent[i].proposal = p
    <3>1. tx = i
      BY <1>5, <2>1
    <3>2. /\ \A v \in Workers : ~Sending(jobs'[v], p)
          /\ \A v \in Workers : \A s \in OpenReads(jobs'[v]) : s.proposal # p
      BY <1>5, <1>6, <1>8
    <3>3. QED
      BY <1>7, <2>1, <3>1, <3>2
  <2>2. CASE sent[i].proposal # p
    BY <1>6, <1>7, <1>8, <2>2, SentTypes DEF ExecInv, LiveGuarded
  <2>3. QED
    BY <2>1, <2>2
<1>13. HashesSent'
  <2>1. ASSUME NEW q \in Proposals, execs'[q].tx_hash # NULL
        PROVE  execs'[q].tx_hash \in DOMAIN sent'
    BY <1>1, <1>5, <1>7, <2>1 DEF ExecInv, HashesSent
  <2>2. ASSUME NEW v \in Workers, jobs'[v].pc = "submitted"
        PROVE  jobs'[v].tx \in DOMAIN sent'
    BY <1>1, <1>3, <1>6, <2>2 DEF ExecInv, HashesSent
  <2>3. QED
    BY <2>1, <2>2 DEF HashesSent
<1>14. HashesOwn'
  <2>1. sent[tx].known /\ sent[tx].proposal = p
    BY <1>1 DEF ExecInv, HashesOwn, p, tx
  <2>2. ASSUME NEW v \in Workers, jobs'[v].pc = "submitted"
        PROVE  sent[jobs'[v].tx].known /\ sent[jobs'[v].tx].proposal = jobs'[v].proposal
    BY <1>3, <1>6, <2>2 DEF ExecInv, HashesOwn
  <2>3. ASSUME NEW q \in Proposals, execs'[q].tx_hash # NULL
        PROVE  sent[execs'[q].tx_hash].known /\ sent[execs'[q].tx_hash].proposal = q
    BY <1>7, <2>1, <2>3 DEF ExecInv, HashesOwn
  <2>4. QED
    BY <1>1, <2>2, <2>3, OwnWhenUnsent
<1>15. OneLiveExecution'
  BY <1>1 DEF ExecInv, OneLiveExecution, Live
<1>16. SuccessMeansExecuted'
  BY <1>1, <1>7 DEF ExecInv, SuccessMeansExecuted
<1>17. QED
  BY <1>9, <1>10, <1>11, <1>12, <1>13, <1>14, <1>15, <1>16 DEF ExecInv

(* The poller reads the rows: all of them name what was sent last.         *)
LEMMA StartPollStep ==
  ASSUME TypeInv, TypeInv', ExecInv, NEW w \in Workers, StartPoll(w)
  PROVE  ExecInv'
<1> DEFINE reads == {[proposal |-> q, tx_hash |-> execs[q].tx_hash, polls |-> execs[q].polls] : q \in Pollable}
           job == [IdleJob EXCEPT !.pc = "poll", !.todo = reads]
<1>1. /\ UNCHANGED sent /\ UNCHANGED execs /\ "poll" \in Roles[w] /\ Goes(w, job)
      /\ jobs[w] = IdleJob /\ jobs \in [Workers -> Job]
  BY DEF StartPoll, Free, database, outside, TypeInv, TypeOK
<1>2. ASSUME NEW s \in reads
      PROVE  /\ s.proposal \in Proposals
             /\ execs[s.proposal].status = "SUBMITTED"
             /\ execs[s.proposal].tx_hash = s.tx_hash /\ s.tx_hash # NULL
             /\ \A t \in reads : t.proposal = s.proposal => t = s
  BY <1>2 DEF Pollable
<1> HIDE DEF reads
<1>3. job.pc = "poll" /\ job.todo = reads
  BY DEF IdleJob
<1> HIDE DEF job
<1>4. jobs'[w] = job /\ \A v \in Workers \ {w} : jobs'[v] = jobs[v]
  BY <1>1 DEF Goes
<1>5. OpenReads(jobs'[w]) = reads /\ \A q : ~Sending(jobs'[w], q)
  BY <1>3, <1>4 DEF OpenReads, Sending
<1>6. ClaimsApart'
  BY <1>1, <1>4, <1>5 DEF ExecInv, ClaimsApart
<1>7. ReadsCurrent'
  <2> SUFFICES ASSUME NEW v \in Workers, NEW s \in OpenReads(jobs'[v])
               PROVE  /\ "poll" \in Roles[v]
                      /\ execs[s.proposal].status \in {"SUBMITTED", "REQUIRES_REVIEW"}
                      /\ execs[s.proposal].tx_hash = s.tx_hash /\ s.tx_hash # NULL
                      /\ \A u \in Workers : ~Sending(jobs'[u], s.proposal)
                      /\ \A t \in OpenReads(jobs'[v]) : t.proposal = s.proposal => t = s
    BY <1>1 DEF ReadsCurrent
  <2>1. CASE v = w
    <3>1. \A u \in Workers : ~Sending(jobs[u], s.proposal)
      BY <1>2, <1>5, <2>1 DEF ExecInv, ClaimsApart
    <3>2. QED
      BY <1>1, <1>2, <1>4, <1>5, <2>1, <3>1
  <2>2. CASE v # w
    BY <1>4, <1>5, <2>2 DEF ExecInv, ReadsCurrent
  <2>3. QED
    BY <2>1, <2>2
<1>8. AnswersTrue'
  BY <1>1, <1>3, <1>4 DEF ExecInv, AnswersTrue
<1>9. LiveGuarded'
  <2> SUFFICES ASSUME NEW i \in DOMAIN sent, Live(i)
               PROVE  LET q == sent[i].proposal
                      IN  /\ execs[q].status \in {"IN_PROGRESS", "REQUIRES_REVIEW", "SUBMITTED", "SUCCESS"}
                          /\ execs[q].status = "SUBMITTED" => execs[q].tx_hash = i
                          /\ \A v \in Workers : Sending(jobs'[v], q) => jobs'[v].pc = "submitted" /\ jobs'[v].tx = i
                          /\ \A v \in Workers : \A s \in OpenReads(jobs'[v]) : s.proposal = q => s.tx_hash = i
    BY <1>1 DEF LiveGuarded, Live
  <2>1. execs[sent[i].proposal].status = "SUBMITTED" => execs[sent[i].proposal].tx_hash = i
    BY DEF ExecInv, LiveGuarded
  <2>2. \A s \in OpenReads(jobs'[w]) : s.proposal = sent[i].proposal => s.tx_hash = i
    BY <1>2, <1>5, <2>1
  <2>3. QED
    BY <1>4, <1>5, <2>2 DEF ExecInv, LiveGuarded
<1>10. HashesSent'
  BY <1>1, <1>3, <1>4 DEF ExecInv, HashesSent
<1>11. HashesOwn'
  <2>1. ASSUME NEW v \in Workers, jobs'[v].pc = "submitted"
        PROVE  sent[jobs'[v].tx].known /\ sent[jobs'[v].tx].proposal = jobs'[v].proposal
    BY <1>3, <1>4, <2>1 DEF ExecInv, HashesOwn
  <2>2. ASSUME NEW q \in Proposals, execs'[q].tx_hash # NULL
        PROVE  sent[execs'[q].tx_hash].known /\ sent[execs'[q].tx_hash].proposal = q
    BY <1>1, <2>2 DEF ExecInv, HashesOwn
  <2>3. QED
    BY <1>1, <2>1, <2>2, OwnWhenUnsent
<1>12. OneLiveExecution' /\ SuccessMeansExecuted'
  BY <1>1 DEF ExecInv, OneLiveExecution, Live, SuccessMeansExecuted
<1>13. QED
  BY <1>6, <1>7, <1>8, <1>9, <1>10, <1>11, <1>12 DEF ExecInv

(* At the start nothing has been sent. *)
LEMMA ExecInit == Init => ExecInv
<1> SUFFICES ASSUME Init PROVE ExecInv
  OBVIOUS
<1>1. ASSUME NEW w \in Workers
      PROVE  jobs[w].pc = "idle" /\ OpenReads(jobs[w]) = {} /\ \A p : ~Sending(jobs[w], p)
  <2>1. jobs[w] = IdleJob
    BY DEF Init
  <2>2. IdleJob.pc = "idle" /\ IdleJob.todo = {}
    BY DEF IdleJob
  <2>3. QED
    BY <2>1, <2>2 DEF OpenReads, Sending
<1>2. ASSUME NEW p \in Proposals
      PROVE  execs[p].status = "PENDING" /\ execs[p].tx_hash = NULL
  BY DEF Init, Fresh
<1>3. sent = <<>> /\ DOMAIN sent = {}
  BY DEF Init
<1>4. QED
  BY <1>1, <1>2, <1>3 DEF ExecInv, ClaimsApart, ReadsCurrent, AnswersTrue, LiveGuarded, HashesSent, HashesOwn,
              OneLiveExecution, SuccessMeansExecuted

(* With one poller no step leaves the invariant. *)
LEMMA ExecStep ==
  ASSUME SinglePoller, TypeInv, TypeInv', ExecInv, [Next]_vars
  PROVE  ExecInv'
<1>1. CASE UNCHANGED vars
  <2>1. UNCHANGED sent /\ UNCHANGED execs /\ UNCHANGED jobs
    BY <1>1 DEF vars, database, outside
  <2>2. QED
    BY <2>1, SentAlone, RowsAlone, JobsAlone, CalmStep
<1>2. ASSUME NEW w \in Workers,
             \/ \E m \in messages : StartResults(w, m) \/ StartSend(w, m)
             \/ StartFinish(w) \/ StartPoll(w) \/ StartRetry(w)
             \/ Working(w)
             \/ Crash(w)
      PROVE  ExecInv'
  <2>1. CASE StartFinish(w) \/ Finish(w) \/ Index(w) \/ \E m \in messages : StartResults(w, m)
    BY <2>1, IndexCalm
  <2>2. CASE Finalize(w)
    BY <2>2, FinalizeCalm
  <2>3. CASE SendSteps(w) \/ \E m \in messages : StartSend(w, m)
    BY <2>3, ClaimStep, BroadcastStep, SubmittedStep, GiveUpCalm DEF SendSteps
  <2>4. CASE StartPoll(w) \/ Poll(w)
    BY <2>4, StartPollStep, AskCalm, AnswerCalm DEF Poll
  <2>5. CASE StartRetry(w) \/ Retry(w) \/ Crash(w)
    BY <2>5, RetryCalm
  <2>6. QED
    BY <1>2, <2>1, <2>2, <2>3, <2>4, <2>5 DEF Working
<1>3. QED
  BY <1>1, <1>2, WorldCalm DEF Next

(* OneLiveExecution, while polls do not overlap: whatever the claim, the   *)
(* lease, the retry, the review and dying workers do, of the transactions  *)
(* sent for a proposal at most one can still count.                        *)
THEOREM ExecutedOnce ==
  ASSUME SinglePoller
  PROVE  Spec => []OneLiveExecution
<1>1. Init => TypeInv /\ ExecInv
  BY TypeInit, ExecInit
<1>2. TypeInv /\ ExecInv /\ [Next]_vars => (TypeInv /\ ExecInv)'
  BY TypeStep, ExecStep
<1>3. ExecInv => OneLiveExecution
  BY DEF ExecInv
<1>4. QED
  BY <1>1, <1>2, <1>3, PTL DEF Spec

(* SuccessMeansExecuted, likewise: a row that says SUCCESS names the very  *)
(* transaction that succeeded, not one a retry has replaced.               *)
THEOREM SuccessIsOnChain ==
  ASSUME SinglePoller
  PROVE  Spec => []SuccessMeansExecuted
<1>1. Init => TypeInv /\ ExecInv
  BY TypeInit, ExecInit
<1>2. TypeInv /\ ExecInv /\ [Next]_vars => (TypeInv /\ ExecInv)'
  BY TypeStep, ExecStep
<1>3. ExecInv => SuccessMeansExecuted
  BY DEF ExecInv
<1>4. QED
  BY <1>1, <1>2, <1>3, PTL DEF Spec

-----------------------------------------------------------------------------
(* The abstract execution.                                                 *)

(* Nothing is sent or resolved, and nothing is reported that was not.      *)
NothingNew ==
  UNCHANGED sent /\ \A p \in Proposals : execs'[p].status = "SUCCESS" => execs[p].status = "SUCCESS"

(* One row is written, and not with a success.                             *)
LEMMA RowNews ==
  ASSUME TypeInv, UNCHANGED sent, NEW p \in Proposals, NEW exec, execs' = [execs EXCEPT ![p] = exec],
         exec.status = "SUCCESS" => execs[p].status = "SUCCESS"
  PROVE  NothingNew
<1>1. execs'[p] = exec /\ \A q \in Proposals \ {p} : execs'[q] = execs[q]
  BY DEF TypeInv, TypeOK
<1>2. QED
  BY <1>1 DEF NothingNew

(* Only the poller reports a success, only the sender and the network      *)
(* change what the network holds.                                          *)
LEMMA QuietSteps ==
  ASSUME TypeInv, [Next]_vars
  PROVE  \/ NothingNew
         \/ \E i \in Tx, outcome \in {"SUCCESS", "FAILED", "GONE"} : Include(i, outcome)
         \/ \E w \in Workers : Broadcast(w) \/ Synced(w)
<1>1. execs \in [Proposals -> Execution] /\ messages \subseteq Message
  BY DEF TypeInv, TypeOK
<1>2. \A p \in Proposals : execs[p] \in Execution
  BY <1>1
<1>3. UNCHANGED <<sent, execs>> => NothingNew
  BY DEF NothingNew
<1>4. CASE UNCHANGED vars
  BY <1>3, <1>4 DEF vars, database, outside
<1>5. ASSUME NEW p \in Proposals, StartVote(p) \/ EnqueueUpdate(p) \/ LeaseEnds(p) \/ \E t \in Tally : Vote(p, t)
      PROVE  NothingNew
  <2>1. CASE LeaseEnds(p)
    <3> DEFINE exec == [execs[p] EXCEPT !.started = "lease over"]
    <3>1. execs' = [execs EXCEPT ![p] = exec] /\ UNCHANGED sent /\ exec.status = execs[p].status
      BY <1>2, <2>1 DEF LeaseEnds, outside, Execution
    <3> HIDE DEF exec
    <3>2. QED
      BY <3>1, RowNews
  <2>2. QED
    BY <1>3, <1>5, <2>1 DEF StartVote, EnqueueUpdate, Vote, database, outside
<1>6. ASSUME NEW w \in Workers,
             \/ StartFinish(w) \/ Finish(w) \/ StartPoll(w) \/ StartRetry(w) \/ Crash(w)
             \/ \E m \in messages : StartResults(w, m)
      PROVE  NothingNew
  BY <1>3, <1>6 DEF StartFinish, Finish, FinishVote, EnqueueFreeze, StartPoll, StartRetry, Crash, StartResults,
                    database, outside
<1>7. ASSUME NEW w \in Workers, Index(w) \/ Finalize(w)
      PROVE  NothingNew
  <2> DEFINE p == jobs[w].proposal
  <2>1. CASE UNCHANGED execs
    BY <1>3, <1>7, <2>1
       DEF Index, ReadBallots, IndexingFails, SaveSnapshot, Hold,
           Finalize, CountVotes, SaveResults, Leave, FailDecision, SkipExecution, Approve, EnqueueSend, outside
  <2>2. CASE Hold(w) /\ execs' = [execs EXCEPT ![p] = InReview(execs[p])]
    <3>1. p \in Proposals /\ UNCHANGED sent
      BY <2>2, JobFacts, TypeParts DEF Hold, At, Placed, outside
    <3>2. QED
      BY <1>2, <2>2, <3>1, RowNews, ExecColumns
  <2>3. CASE FailDecision(w) \/ SkipExecution(w) \/ Approve(w)
    <3>1. PICK s \in {"FAILED", "SKIPPED", "PENDING"} : execs' = [execs EXCEPT ![p] = Fresh(s)]
      BY <2>3 DEF FailDecision, SkipExecution, Approve
    <3>2. p \in Proposals /\ UNCHANGED sent
      BY <2>3, JobFacts, TypeParts DEF FailDecision, SkipExecution, Approve, Undecided, At, Placed, outside
    <3>3. Fresh(s).status # "SUCCESS"
      BY DEF Fresh
    <3>4. QED
      BY <3>1, <3>2, <3>3, RowNews
  <2>4. QED
    BY <1>7, <2>1, <2>2, <2>3
       DEF Index, ReadBallots, IndexingFails, SaveSnapshot, Hold,
           Finalize, CountVotes, SaveResults, Leave, EnqueueSend, database
<1>8. ASSUME NEW w \in Workers,
             \/ NotSent(w) \/ WriteSubmitted(w) \/ WriteSendFailed(w) \/ NoteSend(w)
             \/ \E m \in messages : StartSend(w, m)
      PROVE  NothingNew
  <2> DEFINE p == jobs[w].proposal
  <2>1. CASE NotSent(w) \/ NoteSend(w)
    BY <1>3, <2>1 DEF NotSent, NoteSend, database, outside
  <2>2. CASE WriteSubmitted(w)
    <3>1. p \in Proposals /\ UNCHANGED sent /\ execs' = [execs EXCEPT ![p] = Submitted(execs[p], jobs[w].tx)]
      BY <2>2, JobFacts, TypeParts DEF WriteSubmitted, At, Placed, outside
    <3>2. QED
      BY <1>2, <3>1, RowNews, ExecColumns
  <2>3. CASE WriteSendFailed(w)
    <3>1. p \in Proposals /\ UNCHANGED sent /\ execs' = [execs EXCEPT ![p] = SendFailed(execs[p])]
      BY <2>3, JobFacts, TypeParts DEF WriteSendFailed, At, Placed, outside
    <3>2. QED
      BY <1>2, <3>1, RowNews, ExecColumns
  <2>4. ASSUME NEW m \in messages, StartSend(w, m)
        PROVE  NothingNew
    <3>1. m.proposal \in Proposals /\ UNCHANGED sent
      BY <1>1, <2>4, MessageTypes DEF StartSend, outside
    <3>2. UNCHANGED execs \/ execs' = [execs EXCEPT ![m.proposal] = Claimed(execs[m.proposal])]
      BY <2>4 DEF StartSend
    <3>3. QED
      BY <1>2, <1>3, <3>1, <3>2, RowNews, ExecColumns
  <2>5. QED
    BY <1>8, <2>1, <2>2, <2>3, <2>4
<1>9. ASSUME NEW w \in Workers, AskSoroban(w) \/ WritePollFailed(w) \/ WritePolled(w) \/ NotePoll(w)
      PROVE  NothingNew
  <2> DEFINE p == jobs[w].proposal
             polls == jobs[w].read.polls
  <2>1. CASE AskSoroban(w) \/ NotePoll(w)
    BY <1>3, <2>1 DEF AskSoroban, NotePoll, database, outside
  <2>2. CASE WritePollFailed(w) \/ WritePolled(w)
    <3>1. /\ p \in Proposals /\ UNCHANGED sent
          /\ \/ execs' = [execs EXCEPT ![p] = PollFailed(execs[p], polls)]
             \/ execs' = [execs EXCEPT ![p] = Polled(execs[p], polls)]
      BY <2>2, JobFacts, TypeParts DEF WritePollFailed, WritePolled, At, Placed, outside
    <3>2. PollFailed(execs[p], polls).status # "SUCCESS"
      BY <1>2, <3>1, ExecColumns
    <3>3. Polled(execs[p], polls).status = "SUCCESS" => execs[p].status = "SUCCESS"
      BY <1>2, <3>1, ExecColumns
    <3>4. QED
      BY <3>1, <3>2, <3>3, RowNews
  <2>3. QED
    BY <1>9, <2>1, <2>2
<1>10. ASSUME NEW w \in Workers, Retry(w)
       PROVE  NothingNew
  <2>1. CASE MarkStale(w)
    <3>1. ASSUME NEW p \in Proposals, execs'[p].status = "SUCCESS"
          PROVE  execs[p].status = "SUCCESS"
      <4>1. execs'[p] = execs[p] \/ execs'[p] = InReview(execs[p])
        BY <2>1 DEF MarkStale
      <4>2. QED
        BY <1>2, <3>1, <4>1, ExecColumns
    <3>2. QED
      BY <2>1, <3>1 DEF NothingNew, MarkStale, outside
  <2>2. QED
    BY <1>3, <1>10, <2>1 DEF Retry, ListRetries, NextRetry, database, outside
<1>11. QED
  BY <1>4, <1>5, <1>6, <1>7, <1>8, <1>9, <1>10 DEF Next, Working, SendSteps, Poll

(* The network is as it was. *)
LEMMA ChainSame == UNCHANGED sent => UNCHANGED Chain
  BY DEF Chain, OnChain, Holds

(* The reports are as they were. *)
LEMMA ReportedSame == UNCHANGED execs => UNCHANGED Reported
  BY DEF Reported

(* At the start there is nothing to promise. *)
LEMMA PromiseInit == Init => Promise!Init
<1> SUFFICES ASSUME Init PROVE Promise!Init
  OBVIOUS
<1>1. DOMAIN sent = {}
  BY DEF Init
<1>2. \A p \in Proposals : OnChain(p) = "nothing"
  BY <1>1 DEF OnChain, Holds
<1>3. \A p \in Proposals : (execs[p].status = "SUCCESS") = FALSE
  BY DEF Init, Fresh
<1>4. Chain = [p \in Proposals |-> "nothing"]
  BY <1>2 DEF Chain
<1>5. Reported = [p \in Proposals |-> FALSE]
  BY <1>3 DEF Reported
<1>6. QED
  BY <1>4, <1>5 DEF Promise!Init

(* A step with nothing new at most withdraws reports. *)
LEMMA DoubtRefined ==
  ASSUME NothingNew
  PROVE  Promise!Next
<1> DEFINE doubted == {p \in Proposals : execs'[p].status # "SUCCESS"}
<1>1. UNCHANGED Chain
  BY ChainSame DEF NothingNew
<1>2. ASSUME NEW p \in Proposals
      PROVE  (execs'[p].status = "SUCCESS") = (Reported[p] /\ p \notin doubted)
  BY <1>2 DEF NothingNew, Reported
<1>3. Reported' = [p \in Proposals |-> Reported[p] /\ p \notin doubted]
  BY <1>2 DEF Reported
<1>4. Promise!Doubt(doubted)
  BY <1>1, <1>3 DEF Promise!Doubt
<1>5. QED
  BY <1>4 DEF Promise!Next

(* One proposal's place on the network changes, the others stay.           *)
LEMMA ChainChanges ==
  ASSUME NEW p \in Proposals, \A q \in Proposals \ {p} : OnChain(q)' = OnChain(q)
  PROVE  Chain' = [Chain EXCEPT ![p] = OnChain(p)']
  BY DEF Chain

(* A broadcast launches: the network held nothing that may still succeed.  *)
LEMMA LaunchRefined ==
  ASSUME TypeInv, ExecInv, NEW w \in Workers, Broadcast(w)
  PROVE  [Promise!Next]_<<Chain, Reported>>
<1> DEFINE n == Len(sent) + 1
<1>0. jobs[w].proposal \in Proposals /\ jobs[w].pc = "send"
  BY JobFacts, TypeParts DEF Broadcast, At, Placed
<1> PICK p \in Proposals : p = jobs[w].proposal
  BY <1>0
<1>1. PICK state \in {"PENDING", "GONE"}, known \in BOOLEAN :
        /\ state = "GONE" => known
        /\ sent' = Append(sent, [proposal |-> p, state |-> state, known |-> known])
  BY DEF Broadcast
<1> DEFINE new == [proposal |-> p, state |-> state, known |-> known]
<1>2. UNCHANGED execs /\ jobs[w].pc = "send" /\ sent \in Seq(Transaction)
  BY DEF Broadcast, At, database, TypeInv, TypeOK
<1>3. p \in Proposals /\ Sending(jobs[w], p)
  BY <1>0 DEF Sending
<1>4. /\ n \notin DOMAIN sent /\ DOMAIN sent' = DOMAIN sent \cup {n}
      /\ sent'[n] = new /\ \A i \in DOMAIN sent : sent'[i] = sent[i]
  <2> HIDE DEF new
  <2>1. Len(sent) \in Nat /\ DOMAIN sent = 1..Len(sent)
    BY <1>2
  <2>2. sent' = Append(sent, new)
    BY <1>1 DEF new
  <2>3. Len(sent') = n /\ sent'[n] = new /\ \A i \in 1..Len(sent) : sent'[i] = sent[i]
    BY <1>2, <2>2
  <2>4. DOMAIN sent' = 1..n
    BY <1>2, <2>1, <2>2, <2>3
  <2>5. QED
    BY <2>1, <2>3, <2>4
<1>5. new.proposal = p /\ new.known = known /\ new.state = state
  OBVIOUS
<1> HIDE DEF new, n
<1>6. \A i \in DOMAIN sent : Live(i) => sent[i].proposal # p
  BY <1>2, <1>3 DEF ExecInv, LiveGuarded
<1>7. OnChain(p) = "nothing"
  BY <1>6 DEF OnChain, Holds, Live
<1>8. \A q \in Proposals \ {p} : OnChain(q)' = OnChain(q)
  BY <1>4, <1>5 DEF OnChain, Holds
<1>9. Chain' = [Chain EXCEPT ![p] = OnChain(p)']
  BY <1>3, <1>8, ChainChanges
<1>10. UNCHANGED Reported
  BY <1>2, ReportedSame
<1>11. Chain[p] = "nothing"
  BY <1>3, <1>7 DEF Chain
<1>12. CASE known /\ state = "PENDING"
  <2>1. OnChain(p)' = "pending"
    <3>1. \A i \in DOMAIN sent' : sent'[i].known /\ sent'[i].proposal = p => sent'[i].state # "SUCCESS"
      BY <1>4, <1>5, <1>6, <1>12 DEF Live
    <3>2. n \in DOMAIN sent' /\ sent'[n].known /\ sent'[n].proposal = p /\ sent'[n].state = "PENDING"
      BY <1>4, <1>5, <1>12
    <3>3. ~Holds(p, "SUCCESS")' /\ Holds(p, "PENDING")'
      BY <3>1, <3>2 DEF Holds
    <3>4. QED
      BY <3>3 DEF OnChain
  <2>2. Promise!Launch(p)
    BY <1>9, <1>10, <1>11, <2>1 DEF Promise!Launch
  <2>3. QED
    BY <1>3, <2>2 DEF Promise!Next
<1>13. CASE ~(known /\ state = "PENDING")
  <2>1. OnChain(p)' = "nothing"
    <3>1. \A i \in DOMAIN sent' :
            sent'[i].known /\ sent'[i].proposal = p => sent'[i].state \notin {"SUCCESS", "PENDING"}
      BY <1>4, <1>5, <1>6, <1>13 DEF Live
    <3>2. ~Holds(p, "SUCCESS")' /\ ~Holds(p, "PENDING")'
      BY <3>1 DEF Holds
    <3>3. QED
      BY <3>2 DEF OnChain
  <2>2. Chain' = Chain
    <3>1. Chain' = [q \in Proposals |-> OnChain(q)']
      BY DEF Chain
    <3>2. \A q \in Proposals : OnChain(q)' = OnChain(q)
      BY <1>7, <1>8, <2>1
    <3>3. QED
      BY <3>1, <3>2 DEF Chain
  <2>3. QED
    BY <1>10, <2>2
<1>14. QED
  BY <1>12, <1>13

(* The network resolves a transaction: no other of its proposal was alive, *)
(* so what becomes of it is what becomes of the proposal.                  *)
LEMMA ResolveRefined ==
  ASSUME TypeInv, ExecInv, NEW i \in Tx, NEW outcome \in {"SUCCESS", "FAILED", "GONE"}, Include(i, outcome)
  PROVE  [Promise!Next]_<<Chain, Reported>>
<1>1. /\ i \in DOMAIN sent /\ sent[i].state = "PENDING" /\ UNCHANGED execs
      /\ sent' = [sent EXCEPT ![i].state = outcome]
      /\ sent \in Seq(Transaction)
  BY DEF Include, database, TypeInv, TypeOK
<1>2. sent[i] \in Transaction /\ DOMAIN sent' = DOMAIN sent
  BY <1>1
<1> PICK p \in Proposals : p = sent[i].proposal
  BY <1>2 DEF Transaction
<1>3. /\ sent'[i].proposal = p /\ sent'[i].known = sent[i].known /\ sent'[i].state = outcome
      /\ \A j \in DOMAIN sent : j # i => sent'[j] = sent[j]
      /\ p \in Proposals
  BY <1>1, <1>2 DEF Transaction
<1>4. \A q \in Proposals \ {p} : OnChain(q)' = OnChain(q)
  BY <1>1, <1>2, <1>3 DEF OnChain, Holds
<1>5. UNCHANGED Reported
  BY <1>1, ReportedSame
<1>6. CASE ~sent[i].known
  <2>1. \A q \in Proposals : OnChain(q)' = OnChain(q)
    BY <1>1, <1>2, <1>3, <1>6 DEF OnChain, Holds
  <2>2. Chain' = Chain
    BY <2>1 DEF Chain
  <2>3. QED
    BY <1>5, <2>2
<1>7. CASE sent[i].known
  <2>1. \A j \in DOMAIN sent : Live(j) /\ sent[j].proposal = p => j = i
    BY <1>1, <1>7 DEF ExecInv, OneLiveExecution, Live
  <2>2. OnChain(p) = "pending"
    <3>1. Holds(p, "PENDING")
      BY <1>1, <1>7 DEF Holds
    <3>2. ~Holds(p, "SUCCESS")
      BY <1>1, <2>1 DEF Holds, Live
    <3>3. QED
      BY <3>1, <3>2 DEF OnChain
  <2>3. OnChain(p)' \in {"nothing", "executed"}
    <3>1. \A j \in DOMAIN sent' : sent'[j].known /\ sent'[j].proposal = p /\ j # i =>
            sent'[j].state \notin {"PENDING", "SUCCESS"}
      BY <1>2, <1>3, <2>1 DEF Live
    <3>2. ~Holds(p, "PENDING")'
      BY <1>3, <3>1 DEF Holds
    <3>3. QED
      BY <3>2 DEF OnChain
  <2>4. Chain' = [Chain EXCEPT ![p] = OnChain(p)'] /\ Chain[p] = "pending"
    BY <1>3, <1>4, <2>2, ChainChanges DEF Chain
  <2>5. Promise!Resolve(p)
    BY <1>5, <2>3, <2>4 DEF Promise!Resolve
  <2>6. QED
    BY <1>3, <2>5 DEF Promise!Next
<1>8. QED
  BY <1>6, <1>7

(* The poller reports: the transaction the row names is the proposal's own *)
(* and has succeeded.                                                      *)
LEMMA ReportRefined ==
  ASSUME TypeInv, ExecInv, NEW w \in Workers, Synced(w)
  PROVE  [Promise!Next]_<<Chain, Reported>>
<1> DEFINE p == jobs[w].proposal
           read == jobs[w].read
<1>1. jobs[w].pc = "answered" /\ jobs[w].answer = "SUCCESS" /\ UNCHANGED sent
  BY DEF Synced, At, outside
<1>2. /\ p \in Proposals /\ p = read.proposal /\ read \in OpenReads(jobs[w])
      /\ execs \in [Proposals -> Execution]
  BY <1>1, JobFacts, TypeParts DEF JobOK, OpenReads, Placed, TypeInv, TypeOK
<1>3. execs[p].tx_hash = read.tx_hash /\ read.tx_hash # NULL
  BY <1>2 DEF ExecInv, ReadsCurrent
<1>4. sent[read.tx_hash].state = "SUCCESS"
  BY <1>1 DEF ExecInv, AnswersTrue
<1>5. read.tx_hash \in DOMAIN sent /\ sent[read.tx_hash].known /\ sent[read.tx_hash].proposal = p
  BY <1>2, <1>3 DEF ExecInv, HashesSent, HashesOwn
<1>6. OnChain(p) = "executed"
  BY <1>4, <1>5 DEF OnChain, Holds
<1>7. UNCHANGED Chain
  BY <1>1, ChainSame
<1>8. CASE UNCHANGED execs
  BY <1>7, <1>8, ReportedSame
<1>9. CASE execs' = [execs EXCEPT ![p].status = "SUCCESS"]
  <2>1. /\ (execs'[p].status = "SUCCESS") = TRUE
        /\ \A q \in Proposals \ {p} : execs'[q] = execs[q]
    BY <1>2, <1>9 DEF Execution
  <2>2. Reported' = [Reported EXCEPT ![p] = TRUE]
    BY <1>2, <2>1 DEF Reported
  <2>3. Promise!Report(p)
    BY <1>2, <1>6, <1>7, <2>2 DEF Promise!Report, Chain
  <2>4. QED
    BY <1>2, <2>3 DEF Promise!Next
<1>10. QED
  BY <1>8, <1>9 DEF Synced

(* ImplementsSingleExecution, while polls do not overlap: sending under a  *)
(* lease, polling, retrying and handing over implement the abstract        *)
(* execution.                                                              *)
THEOREM ExecutionRefinement ==
  ASSUME SinglePoller
  PROVE  Spec => ImplementsSingleExecution
<1>1. Init => TypeInv /\ ExecInv /\ Promise!Init
  BY TypeInit, ExecInit, PromiseInit
<1>2. TypeInv /\ ExecInv /\ [Next]_vars => (TypeInv /\ ExecInv)'
  BY TypeStep, ExecStep
<1>3. TypeInv /\ ExecInv /\ [Next]_vars => [Promise!Next]_<<Chain, Reported>>
  BY QuietSteps, DoubtRefined, LaunchRefined, ResolveRefined, ReportRefined
<1>4. QED
  BY <1>1, <1>2, <1>3, PTL DEF Spec, ImplementsSingleExecution, Promise!Spec
=============================================================================
