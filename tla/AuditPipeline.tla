---------------------------- MODULE AuditPipeline ----------------------------
(***************************************************************************)
(* The life of an audit: the API (submit_audit, review_audit), the         *)
(* scheduler (enqueue_due), the bulk scan and the workers' process, over   *)
(* the PostgreSQL rows of audits and the queue of module AuditQueue.       *)
(*                                                                         *)
(* PostgreSQL runs at READ COMMITTED: a step reads committed rows, and one *)
(* commit is one step.  A task id is a fresh uuid, here the next number.   *)
(***************************************************************************)
EXTENDS AuditQueue

CONSTANTS
    Domains,            \* registered, verified domains
    Clients,            \* requests running submit_audit at the same time
    Scheduler,          \* the scheduler process
    Bulk                \* a request running bulk_scan

Feeders == {Scheduler, Bulk}

ASSUME PipelineAssumption ==
    /\ Tasks = Entries
    /\ Scheduler # Bulk
    /\ "submit" \notin Feeders

VARIABLES
    \* PostgreSQL: the audits table, and the results that hang from it
    used,               \* task ids given out so far
    domainOf,           \* domain_id
    origin,             \* who created the audit
    status,             \* audits.status; "none" while no row is committed
    scored,             \* overall_score and band are set
    method,             \* method of the compliance verdict
    results,            \* sets of findings, pages and documents persisted
    \* requests in flight
    cpc,                \* where each submit_audit is
    cdom,               \* its domain
    ctask,              \* its new audit
    flushed,            \* a feeder's flushed, uncommitted audits
    \* process, in each worker
    stage,              \* where the call is
    loaded,             \* the columns of the row as the session loaded them
    \* history
    ended               \* audits that were in a terminal status once

auditVars   == <<used, domainOf, origin, status, scored, method, results, ended>>
requestVars == <<cpc, cdom, ctask, flushed>>
processVars == <<stage, loaded>>
vars        == <<queueVars, auditVars, requestVars, processVars>>

Active   == {"queued", "crawling", "analyzing", "scoring"}
Terminal == {"completed", "insufficient_evidence", "failed"}
Origins  == {"none", "submit"} \cup Feeders
Methods  == {"automated", "expert_reviewed"}
Stages   == {"out", "crawl", "engine", "gate", "score", "publish", "leave", "lost"}

Statuses == Active \cup Terminal \cup {"none"}
Columns  == [status : Statuses, scored : BOOLEAN, method : Methods]

\* Nothing is loaded: the session is new, or its objects expired in a commit.
Expired  == [status |-> "none", scored |-> FALSE, method |-> "automated"]

TypeOK ==
    /\ QueueTypeOK
    /\ used \in 0..MaxJobs
    /\ domainOf \in [Tasks -> Domains \cup {"none"}]
    /\ origin \in [Tasks -> Origins]
    /\ status \in [Tasks -> Statuses]
    /\ scored \in [Tasks -> BOOLEAN]
    /\ method \in [Tasks -> Methods]
    /\ results \in [Tasks -> Nat]
    /\ cpc \in [Clients -> {"idle", "insert", "enqueue"}]
    /\ cdom \in [Clients -> Domains \cup {"none"}]
    /\ ctask \in [Clients -> 0..used]
    /\ flushed \in [Feeders -> SUBSET (1..used)]
    /\ stage \in [Workers -> Stages]
    /\ loaded \in [Workers -> Columns]
    /\ ended \subseteq 1..used

Init ==
    /\ QueueInit
    /\ used = 0
    /\ domainOf = [t \in Tasks |-> "none"]
    /\ origin = [t \in Tasks |-> "none"]
    /\ status = [t \in Tasks |-> "none"]
    /\ scored = [t \in Tasks |-> FALSE]
    /\ method = [t \in Tasks |-> "automated"]
    /\ results = [t \in Tasks |-> 0]
    /\ cpc = [c \in Clients |-> "idle"]
    /\ cdom = [c \in Clients |-> "none"]
    /\ ctask = [c \in Clients |-> 0]
    /\ flushed = [f \in Feeders |-> {}]
    /\ stage = [w \in Workers |-> "out"]
    /\ loaded = [w \in Workers |-> Expired]
    /\ ended = {}

-------------------------------------------------------------------------------
(***************************************************************************)
(* submit_audit                                                            *)
(***************************************************************************)

\* The "running" query: committed audits of d in a non-terminal status.
Running(d) == {t \in Tasks : domainOf[t] = d /\ status[t] \in Active}

\* Variant: no advisory lock.
NeverLocked(d) == FALSE

\* pg_advisory_xact_lock is held from the query to the commit.
Locked(d) == \E c \in Clients : cpc[c] = "insert" /\ cdom[c] = d

\* Variant: an id is given out twice.
NewAuditSameId(t, d, who) ==
    /\ t = used + 1
    /\ t \in Tasks
    /\ used' = used
    /\ domainOf' = [domainOf EXCEPT ![t] = d]
    /\ origin' = [origin EXCEPT ![t] = who]

\* The next uuid becomes an audit of d.
NewAudit(t, d, who) ==
    /\ t = used + 1
    /\ t \in Tasks
    /\ used' = t
    /\ domainOf' = [domainOf EXCEPT ![t] = d]
    /\ origin' = [origin EXCEPT ![t] = who]

\* Take the lock and find no running audit.  (When there is one, its id is
\* returned and nothing changes.)
SubmitCheck(c, d) ==
    /\ cpc[c] = "idle"
    /\ ~Locked(d)
    /\ Running(d) = {}
    /\ cpc' = [cpc EXCEPT ![c] = "insert"]
    /\ cdom' = [cdom EXCEPT ![c] = d]
    /\ UNCHANGED <<queueVars, auditVars, ctask, flushed, processVars>>

\* Insert and commit; the lock is released.
SubmitCommit(c) ==
    /\ cpc[c] = "insert"
    /\ \E t \in Tasks :
         /\ NewAudit(t, cdom[c], "submit")
         /\ status' = [status EXCEPT ![t] = "queued"]
         /\ ctask' = [ctask EXCEPT ![c] = t]
    /\ cpc' = [cpc EXCEPT ![c] = "enqueue"]
    /\ UNCHANGED <<queueVars, scored, method, results, ended, cdom, flushed,
                   processVars>>

\* The request is over: answered, or dead.
EndRequest(c) ==
    /\ cpc' = [cpc EXCEPT ![c] = "idle"]
    /\ cdom' = [cdom EXCEPT ![c] = "none"]
    /\ ctask' = [ctask EXCEPT ![c] = 0]
    /\ UNCHANGED flushed

SubmitEnqueue(c) ==
    /\ cpc[c] = "enqueue"
    /\ Enqueue(ctask[c])
    /\ EndRequest(c)
    /\ UNCHANGED <<auditVars, processVars>>

\* The API process is killed, or Redis cannot be reached: a 500, and what was
\* committed stays.
SubmitDies(c) ==
    /\ cpc[c] # "idle"
    /\ EndRequest(c)
    /\ UNCHANGED <<queueVars, auditVars, processVars>>

-------------------------------------------------------------------------------
(***************************************************************************)
(* enqueue_due and bulk_scan: flush and enqueue one audit after the other, *)
(* commit them together at the end.                                        *)
(***************************************************************************)

\* A batch has one audit per domain.  The scheduler also skips a domain with
\* a running audit (_has_active_run); the bulk scan does not look.
FeederTakes(f, d) ==
    /\ \A t \in flushed[f] : domainOf[t] # d
    /\ f = Scheduler => Running(d) = {}

FeedOne(f, d) ==
    /\ FeederTakes(f, d)
    /\ \E t \in Tasks :
         /\ NewAudit(t, d, f)
         /\ flushed' = [flushed EXCEPT ![f] = @ \cup {t}]
         /\ Enqueue(t)
    /\ UNCHANGED <<status, scored, method, results, ended, cpc, cdom, ctask,
                   processVars>>

FeedCommit(f) ==
    /\ flushed[f] # {}
    /\ status' = [t \in Tasks |-> IF t \in flushed[f] THEN "queued" ELSE status[t]]
    /\ flushed' = [flushed EXCEPT ![f] = {}]
    /\ UNCHANGED <<queueVars, used, domainOf, origin, scored, method, results,
                   ended, cpc, cdom, ctask, processVars>>

\* Killed, or an error in the loop: the transaction is rolled back, the jobs
\* already in the stream stay there.
FeedDies(f) ==
    /\ flushed[f] # {}
    /\ flushed' = [flushed EXCEPT ![f] = {}]
    /\ UNCHANGED <<queueVars, auditVars, cpc, cdom, ctask, processVars>>

-------------------------------------------------------------------------------
(***************************************************************************)
(* process                                                                 *)
(***************************************************************************)
TaskOf(w) == stream[job[w]]

Goes(w, from, to) ==
    /\ stage[w] = from
    /\ stage' = [stage EXCEPT ![w] = to]

Forget(w) == loaded' = [loaded EXCEPT ![w] = Expired]

\* The call is over, one way or another.
Leave(w) ==
    /\ stage' = [stage EXCEPT ![w] = "out"]
    /\ Forget(w)

SetStatus(t, s) ==
    /\ status' = [status EXCEPT ![t] = s]
    /\ ended' = IF s \in Terminal THEN ended \cup {t} ELSE ended

\* The ORM leaves a column out of the UPDATE when it is set to the value the
\* session has loaded: the row then keeps what it has now.
Written(old, new, now) == IF new = old THEN now ELSE new

SaveStatus(w, s) ==
    LET t == TaskOf(w) IN SetStatus(t, Written(loaded[w].status, s, status[t]))

SaveMethod(w) ==
    LET t == TaskOf(w) IN
    method' = [method EXCEPT ![t] = Written(loaded[w].method, "automated", @)]

AddResults(w) == results' = [results EXCEPT ![TaskOf(w)] = @ + 1]

RowOf(t) == [status |-> status[t], scored |-> scored[t], method |-> method[t]]

\* No row for the task id: return.  When PostgreSQL cannot be reached, process
\* only raises.
Load(w) ==
    /\ BeginJob(w)
    /\ LET t == stream[job'[w]] IN
       \/ status[t] = "none" /\ Goes(w, "out", "leave") /\ UNCHANGED loaded
       \/ /\ status[t] # "none"
          /\ Goes(w, "out", "crawl")
          /\ loaded' = [loaded EXCEPT ![w] = RowOf(t)]
       \/ Goes(w, "out", "lost") /\ UNCHANGED loaded
    /\ UNCHANGED <<auditVars, requestVars>>

\* Variant: an audit that was started before is skipped.
CrawlOnce(w) ==
    /\ \/ Goes(w, "crawl", "leave") /\ loaded[w].status # "queued"
          /\ UNCHANGED <<status, ended>>
       \/ Goes(w, "crawl", "engine") /\ loaded[w].status = "queued"
          /\ SaveStatus(w, "crawling")
    /\ Forget(w)
    /\ UNCHANGED <<queueVars, used, domainOf, origin, scored, method, results,
                   requestVars>>

\* The audit is crawling, whatever its status was.
Crawl(w) ==
    /\ Goes(w, "crawl", "engine")
    /\ SaveStatus(w, "crawling")
    /\ Forget(w)
    /\ UNCHANGED <<queueVars, used, domainOf, origin, scored, method, results,
                   requestVars>>

\* run_engine returned.  Nothing is loaded, so the status is always written.
Analyze(w) ==
    /\ Goes(w, "engine", "gate")
    /\ SetStatus(TaskOf(w), "analyzing")
    /\ UNCHANGED <<queueVars, used, domainOf, origin, scored, method, results,
                   requestVars, loaded>>

\* The first use of the audit after a commit loads its row again.
Reload(w) ==
    /\ stage[w] \in {"gate", "score"}
    /\ loaded[w] = Expired
    /\ loaded' = [loaded EXCEPT ![w] = RowOf(TaskOf(w))]
    /\ UNCHANGED <<queueVars, auditVars, requestVars, stage>>

\* The evidence gate: no score, no band.
RefuseScore(w) ==
    /\ Goes(w, "gate", "publish")
    /\ loaded[w] # Expired
    /\ SaveStatus(w, "insufficient_evidence")
    /\ scored' = [scored EXCEPT
         ![TaskOf(w)] = Written(loaded[w].scored, FALSE, @)]
    /\ SaveMethod(w)
    /\ AddResults(w)
    /\ Forget(w)
    /\ UNCHANGED <<queueVars, used, domainOf, origin, requestVars>>

\* Variant: the commit of "scoring" is forgotten.
StartScoringSilently(w) ==
    /\ Goes(w, "gate", "score")
    /\ loaded[w] # Expired
    /\ Forget(w)
    /\ UNCHANGED <<queueVars, auditVars, requestVars>>

StartScoring(w) ==
    /\ Goes(w, "gate", "score")
    /\ loaded[w] # Expired
    /\ SaveStatus(w, "scoring")
    /\ Forget(w)
    /\ UNCHANGED <<queueVars, used, domainOf, origin, scored, method, results,
                   requestVars>>

\* Scores, findings, pages, documents, verdict and status in one commit.  When
\* a score was loaded, the new one may be the same number.
Complete(w) ==
    /\ Goes(w, "score", "publish")
    /\ loaded[w] # Expired
    /\ SaveStatus(w, "completed")
    /\ \E same \in {FALSE, loaded[w].scored} :
         scored' = [scored EXCEPT ![TaskOf(w)] = IF same THEN @ ELSE TRUE]
    /\ SaveMethod(w)
    /\ AddResults(w)
    /\ Forget(w)
    /\ UNCHANGED <<queueVars, used, domainOf, origin, requestVars>>

\* Variant: process acknowledges its own entry before it returns.
PublishAcked(w) ==
    /\ stage[w] \in {"publish", "leave"}
    /\ wpc[w] = "run"
    /\ RemovePending(job[w])
    /\ job' = [job EXCEPT ![w] = 0]
    /\ wpc' = [wpc EXCEPT ![w] = NextPc(batch[w])]
    /\ Leave(w)
    /\ UNCHANGED <<stream, cursor, deliveries, dlq, ticks, claimed, batch,
                   crashes, histVars, auditVars, requestVars>>

\* set_status (Redis), the webhook; process returns.
Publish(w) ==
    /\ stage[w] \in {"publish", "leave"}
    /\ JobReturns(w)
    /\ Leave(w)
    /\ UNCHANGED <<auditVars, requestVars>>

\* Variant: results committed with "completed" are added again on a failure.
FailTwice(w) ==
    /\ stage[w] \in {"engine", "gate", "score", "publish"}
    /\ JobRaises(w)
    /\ SaveStatus(w, "failed")
    /\ AddResults(w)
    /\ Leave(w)
    /\ UNCHANGED <<used, domainOf, origin, scored, method, requestVars>>

\* The except block: "failed" is committed with no rollback, so what was added
\* to the session before the exception is committed with it.  process raises
\* again.
Fail(w) ==
    /\ stage[w] \in {"engine", "gate", "score", "publish"}
    /\ JobRaises(w)
    /\ SaveStatus(w, "failed")
    /\ \/ UNCHANGED <<results, method>>
       \/ /\ stage[w] = "score" /\ loaded[w] # Expired
          /\ AddResults(w)
          /\ SaveMethod(w) \/ UNCHANGED method
    /\ Leave(w)
    /\ UNCHANGED <<used, domainOf, origin, scored, requestVars>>

\* Variant: the error is swallowed and the job acknowledged.
FailSwallowed(w) ==
    /\ stage[w] # "out"
    /\ JobReturns(w)
    /\ Leave(w)
    /\ UNCHANGED <<auditVars, requestVars>>

\* PostgreSQL cannot be reached: the except block raises too.
FailUnrecorded(w) ==
    /\ stage[w] # "out"
    /\ JobRaises(w)
    /\ Leave(w)
    /\ UNCHANGED <<auditVars, requestVars>>

Killed(w) ==
    /\ Crash(w)
    /\ Leave(w)
    /\ UNCHANGED <<auditVars, requestVars>>

\* The steps of the worker and of the queue that touch no audit.
QueueStep ==
    /\ \/ \E e \in Entries : GoIdle(e)
       \/ \E w \in Workers : PollStep(w) \/ Ack(w) \/ AckFails(w) \/ Restart(w)
    /\ UNCHANGED <<auditVars, requestVars, processVars>>

-------------------------------------------------------------------------------
\* Variant: an audit that is still running can be reviewed.
ReviewEarly(t) ==
    /\ status[t] # "none"
    /\ method' = [method EXCEPT ![t] = "expert_reviewed"]
    /\ UNCHANGED <<queueVars, used, domainOf, origin, status, scored, results,
                   ended, requestVars, processVars>>

\* review_audit: the role is checked before; a completed audit only.
Review(t) ==
    /\ status[t] = "completed"
    /\ method' = [method EXCEPT ![t] = "expert_reviewed"]
    /\ UNCHANGED <<queueVars, used, domainOf, origin, status, scored, results,
                   ended, requestVars, processVars>>

-------------------------------------------------------------------------------
ProcessStep(w) ==
    \/ Load(w)  \/ Crawl(w)  \/ Analyze(w)  \/ Reload(w)
    \/ RefuseScore(w)  \/ StartScoring(w)  \/ Complete(w)
    \/ Publish(w)  \/ Fail(w)  \/ FailUnrecorded(w)

SubmitStep(c) ==
    \/ \E d \in Domains : SubmitCheck(c, d)
    \/ SubmitCommit(c)  \/ SubmitEnqueue(c)  \/ SubmitDies(c)

FeedStep(f) ==
    \/ \E d \in Domains : FeedOne(f, d)
    \/ FeedCommit(f)  \/ FeedDies(f)

Next ==
    \/ \E c \in Clients : SubmitStep(c)
    \/ \E f \in Feeders : FeedStep(f)
    \/ \E w \in Workers : ProcessStep(w) \/ Killed(w)
    \/ QueueStep
    \/ \E t \in Tasks : Review(t)

Spec == Init /\ [][Next]_vars

\* Workers, Redis and the clock make progress; users, operators and faults need
\* not.  A call of process is bounded: every subprocess in it has a timeout.
WorkerLoop(w) ==
    \/ ProcessStep(w)
    \/ (PollStep(w) \/ Ack(w) \/ AckFails(w) \/ Restart(w))
       /\ UNCHANGED <<auditVars, requestVars, processVars>>

Fairness ==
    /\ \A w \in Workers : WF_vars(WorkerLoop(w))
    /\ \A e \in Entries :
         WF_vars(GoIdle(e) /\ UNCHANGED <<auditVars, requestVars, processVars>>)

FairSpec == Spec /\ Fairness

-------------------------------------------------------------------------------
(***************************************************************************)
(* Properties                                                              *)
(***************************************************************************)

\* The pipeline uses the queue only through its operations: whatever is shown
\* of AuditQueue holds here too.
UsesTheQueue == QueueSpec

\* What the advisory lock of submit_audit is for.  Two audits that users
\* submitted for one domain are never both running for the first time; when
\* two are running, the queue has revived one that had already ended.
OneFreshSubmission ==
    \A t, u \in Tasks :
        /\ t # u
        /\ domainOf[t] = domainOf[u]
        /\ origin[t] = "submit" /\ origin[u] = "submit"
        /\ status[t] \in Active /\ status[u] \in Active
        => t \in ended \/ u \in ended

\* A submitted audit whose job left the queue was brought to a terminal status
\* or its job is in the dead-letter stream: submit_audit commits before it
\* enqueues, so no worker can take the job for one without a row.
SubmittedAuditIsAnswered ==
    \A e \in Settled :
        origin[stream[e]] = "submit" => stream[e] \in ended \/ e \in Buried

\* What makes the two inductive: ids are given out in order; whatever is
\* terminal has ended; a request in flight works on a row of its own, and the
\* lock's holder is alone and has found no fresh submission; a submitted job
\* has a row; a call of process works on a row, and on an ended one when it
\* loaded a terminal status or is about to return.
RowsNumbered ==
    \A t \in Tasks : t > used => status[t] = "none" /\ origin[t] = "none"

TerminalHasEnded == \A t \in Tasks : status[t] \in Terminal => t \in ended

RequestsHoldRows ==
    /\ \A c \in Clients : cpc[c] = "insert" => cdom[c] \in Domains
    /\ \A c \in Clients :
          cpc[c] = "enqueue" => ctask[c] # 0 /\ status[ctask[c]] # "none"
    /\ \A f \in Feeders : \A t \in flushed[f] : origin[t] = f

LockExcludes ==
    \A c \in Clients : cpc[c] = "insert" =>
        /\ \A b \in Clients : cpc[b] = "insert" /\ cdom[b] = cdom[c] => b = c
        /\ \A t \in Running(cdom[c]) : origin[t] = "submit" => t \in ended

SubmittedJobsHaveRows ==
    \A e \in DOMAIN stream :
        /\ stream[e] \in 1..used
        /\ origin[stream[e]] = "submit" => status[stream[e]] # "none"

CallHoldsRow(w) ==
    /\ stage[w] # "out" => wpc[w] = "run"
    /\ stage[w] \in {"crawl", "engine", "gate", "score", "publish"}
         => status[TaskOf(w)] # "none"
    /\ stage[w] \notin {"crawl", "gate", "score"} => loaded[w] = Expired
    /\ loaded[w].status \in Terminal => TaskOf(w) \in ended
    /\ stage[w] = "publish" => TaskOf(w) \in ended
    /\ stage[w] = "leave" => origin[TaskOf(w)] # "submit"

ReturnedHasEnded ==
    \A e \in returned :
        /\ e \in DOMAIN stream
        /\ origin[stream[e]] = "submit" => stream[e] \in ended

PipelineInv ==
    /\ QueueInv
    /\ TypeOK
    /\ RowsNumbered /\ TerminalHasEnded /\ RequestsHoldRows /\ LockExcludes
    /\ SubmittedJobsHaveRows /\ ReturnedHasEnded
    /\ \A w \in Workers : CallHoldsRow(w)
    /\ OneFreshSubmission

\* The lifecycle as the API shows it, for an audit delivered once: docs/LLD.md
\* section 4, and one more way to "failed": a status publish that fails after
\* the result was committed.
Lifecycle ==
    {<<"none", "queued">>, <<"queued", "crawling">>,
     <<"crawling", "analyzing">>, <<"analyzing", "scoring">>,
     <<"scoring", "completed">>, <<"analyzing", "insufficient_evidence">>}
    \cup ((Active \cup {"completed", "insufficient_evidence"}) \X {"failed"})

DeliveredAgain(t) ==
    \E e \in DOMAIN stream : stream[e] = t /\ deliveries[e] > 1

LifecycleWithoutRedelivery ==
    [][\A t \in Tasks :
          ~DeliveredAgain(t) /\ status[t] # status'[t]
             => <<status[t], status'[t]>> \in Lifecycle]_vars

\* An expert's verdict is replaced by an automated one only when the queue
\* delivered the audit again after the review.
ReviewStandsWithoutRedelivery ==
    [][\A t \in Tasks :
          method[t] = "expert_reviewed" /\ ~DeliveredAgain(t)
             => method'[t] = "expert_reviewed"]_vars

\* Only a second delivery turns an audit back: until then its status follows
\* the lifecycle and an expert's verdict stands.
UnlessRedelivered == LifecycleWithoutRedelivery /\ ReviewStandsWithoutRedelivery

\* One call of process persists its results at most once, whatever way it ends
\* and whoever else works on the audit.
ResultsPerAttempt ==
    \A e \in DOMAIN stream : results[stream[e]] <= attempts[e]

\* What makes both inductive: the calls of process for a job, and the results
\* each of them has still to persist, are within the attempts; a task has one
\* job; and until it is delivered again, its status is the one that the only
\* call has written.
Unfinished == {"crawl", "engine", "gate", "score"}
Working(e) == {w \in Workers : stage[w] # "out" /\ job[w] = e}
Unsaved(e) == {w \in Working(e) : stage[w] \in Unfinished}

EntriesOf(t) == {e \in DOMAIN stream : stream[e] = t}

CallsWithinAttempts ==
    /\ \A e \in Entries : Cardinality(Working(e)) <= attempts[e]
    /\ \A e \in DOMAIN stream :
          results[stream[e]] + Cardinality(Unsaved(e)) <= attempts[e]

OneJobEach ==
    /\ \A e, f \in DOMAIN stream : stream[e] = stream[f] => e = f
    /\ \A c \in Clients : cpc[c] = "enqueue" =>
          /\ EntriesOf(ctask[c]) = {}
          /\ \A b \in Clients : cpc[b] = "enqueue" /\ ctask[b] = ctask[c] => b = c
    /\ \A f \in Feeders : \A t \in flushed[f] : status[t] = "none"

Untouched(t) == \A e \in EntriesOf(t) : attempts[e] = 0

UntouchedIsNew ==
    \A t \in Tasks : Untouched(t) =>
        results[t] = 0 /\ status[t] \in {"none", "queued"} /\ method[t] = "automated"

StatusAt == {<<"crawl", "queued">>, <<"engine", "crawling">>,
             <<"gate", "analyzing">>, <<"score", "scoring">>}

OnlyCallWrites(w) ==
    stage[w] \in Unfinished /\ ~DeliveredAgain(TaskOf(w)) =>
        /\ <<stage[w], status[TaskOf(w)]>> \in StatusAt
        /\ loaded[w] # Expired => loaded[w].status = status[TaskOf(w)]

ReviewedIsOver ==
    \A t \in Tasks : method[t] = "expert_reviewed" /\ ~DeliveredAgain(t) =>
        status[t] \in {"completed", "failed"}

AttemptInv ==
    /\ CutoffInv
    /\ CallsWithinAttempts /\ OneJobEach /\ UntouchedIsNew /\ ReviewedIsOver
    /\ \A w \in Workers : OnlyCallWrites(w)

\* Every submitted audit that reached the queue ends, or its job is buried.
Submitted(t) == origin[t] = "submit" /\ \E e \in DOMAIN stream : stream[e] = t

EnqueuedAuditEnds ==
    \A t \in Tasks :
        Submitted(t) ~> (t \in ended \/ \E e \in Buried : stream[e] = t)

-------------------------------------------------------------------------------
(***************************************************************************)
(* What the documentation says, and the code does not do                   *)
(***************************************************************************)

\* docs/OPERATIONS.md: "A per-domain advisory lock prevents duplicate
\* concurrent audits."
OneRunningAudit ==
    \A d \in Domains : \A t, u \in Running(d) : t = u
===============================================================================
