-------------------------- MODULE AuditPipelineProofs --------------------------
(***************************************************************************)
(* Proofs about AuditPipeline for any number of workers, clients, domains, *)
(* audits and crashes: the pipeline uses the queue only through its        *)
(* operations, its types, what the advisory lock of submit_audit protects, *)
(* that a submitted audit whose job has left the queue was answered, that  *)
(* results are persisted at most once per attempt, and that only a second  *)
(* delivery turns an audit back.                                           *)
(***************************************************************************)
EXTENDS AuditPipeline, AuditQueueProofs

\* The state reached by Init satisfies the inductive invariant.
LEMMA InitInv == Init => PipelineInv
<1>. SUFFICES ASSUME Init PROVE PipelineInv
  OBVIOUS
<1>. USE QueueAssumption, PipelineAssumption
<1>1. QueueInv
  BY QueueInitInv DEF Init
<1>2. TypeOK
  <2>1. QueueTypeOK
    BY <1>1 DEF QueueInv
  <2>2. loaded \in [Workers -> Columns]
    BY DEF Init, Columns, Statuses, Methods, Expired
  <2>. QED BY <2>1, <2>2 DEF Init, TypeOK, Origins, Methods, Stages, Statuses
<1>3. RowsNumbered /\ TerminalHasEnded /\ RequestsHoldRows /\ LockExcludes
  BY DEF Init, RowsNumbered, TerminalHasEnded, RequestsHoldRows, LockExcludes, Terminal
<1>4. SubmittedJobsHaveRows /\ ReturnedHasEnded /\ OneFreshSubmission
  BY DEF Init, QueueInit, SubmittedJobsHaveRows, ReturnedHasEnded, OneFreshSubmission
<1>5. \A w \in Workers : CallHoldsRow(w)
  BY DEF Init, CallHoldsRow, Expired, Terminal
<1>. QED BY <1>1, <1>2, <1>3, <1>4, <1>5 DEF PipelineInv

-------------------------------------------------------------------------------
(***************************************************************************)
(* The pipeline as a client of the queue.                                  *)
(***************************************************************************)

\* Every step of the pipeline is a step of the queue or leaves the queue alone.
LEMMA QueueClientStep ==
    ASSUME PipelineInv, [Next]_vars
    PROVE  [QueueNext]_queueVars
<1>1. ASSUME NEW c \in Clients, SubmitStep(c) PROVE [QueueNext]_queueVars
  <2>1. CASE SubmitEnqueue(c)
    <3>1. Enqueue(ctask[c]) /\ cpc[c] = "enqueue"
      BY <2>1 DEF SubmitEnqueue
    <3>2. ctask[c] \in Tasks
      BY <3>1, QueueAssumption, PipelineAssumption
         DEF PipelineInv, TypeOK, RequestsHoldRows, Entries
    <3>. QED BY <3>1, <3>2 DEF QueueNext
  <2>2. CASE ~SubmitEnqueue(c)
    BY <1>1, <2>2 DEF SubmitStep, SubmitCheck, SubmitCommit, SubmitDies
  <2>. QED BY <2>1, <2>2
<1>2. ASSUME NEW f \in Feeders, FeedStep(f) PROVE [QueueNext]_queueVars
  <2>1. CASE \E d \in Domains : FeedOne(f, d)
    BY <2>1 DEF FeedOne, QueueNext
  <2>2. CASE FeedCommit(f) \/ FeedDies(f)
    BY <2>2 DEF FeedCommit, FeedDies
  <2>. QED BY <1>2, <2>1, <2>2 DEF FeedStep
<1>3. ASSUME NEW w \in Workers, ProcessStep(w) \/ Killed(w)
      PROVE  [QueueNext]_queueVars
  <2>1. CASE Load(w) \/ Publish(w) \/ Fail(w) \/ FailUnrecorded(w) \/ Killed(w)
    BY <2>1 DEF Load, Publish, Fail, FailUnrecorded, Killed, QueueNext, WorkerStep,
                HandleStep
  <2>2. CASE Crawl(w) \/ Analyze(w) \/ Reload(w) \/ RefuseScore(w) \/ StartScoring(w)
             \/ Complete(w)
    BY <2>2 DEF Crawl, Analyze, Reload, RefuseScore, StartScoring, Complete
  <2>. QED BY <1>3, <2>1, <2>2 DEF ProcessStep
<1>4. CASE QueueStep
  BY <1>4 DEF QueueStep, QueueNext, WorkerStep, HandleStep
<1>5. CASE \E t \in Tasks : Review(t)
  BY <1>5 DEF Review
<1>6. CASE UNCHANGED vars
  BY <1>6 DEF vars
<1>. QED BY <1>1, <1>2, <1>3, <1>4, <1>5, <1>6 DEF Next

\* The queue's invariant is kept by every step of the pipeline.
LEMMA QueueInvKept ==
    ASSUME PipelineInv, [Next]_vars
    PROVE  QueueInv'
BY QueueClientStep, QueueInvStep DEF PipelineInv

-------------------------------------------------------------------------------
(***************************************************************************)
(* What the steps of workers, of the queue and of a reviewer have in       *)
(* common: they move at most one audit that has a row, and touch no        *)
(* request.                                                                *)
(***************************************************************************)
MovesOneAudit ==
    /\ UNCHANGED <<used, domainOf, origin, requestVars, stream>>
    /\ \/ UNCHANGED <<status, ended>>
       \/ \E t \in 1..used, s \in Active \cup Terminal :
             status[t] # "none" /\ SetStatus(t, s)

\* The audit a call of process works on is a known one.
LEMMA TaskOfCall ==
    ASSUME PipelineInv, NEW w \in Workers, wpc[w] \in {"run", "ack"}
    PROVE  /\ job[w] \in 1..cursor
           /\ job[w] \in DOMAIN stream
           /\ TaskOf(w) \in 1..used
           /\ TaskOf(w) \in Tasks
<1>1. /\ job[w] \in 1..cursor /\ cursor \in Nat
      /\ cursor <= Len(stream) /\ stream \in Seq(Tasks)
  BY QueueAssumption DEF PipelineInv, QueueInv, QueueTypeOK, JobInHand, OnlyDelivered
<1>2. job[w] \in DOMAIN stream
  BY <1>1
<1>3. stream[job[w]] \in Tasks
  BY <1>1, <1>2
<1>4. stream[job[w]] \in 1..used
  BY <1>2 DEF PipelineInv, SubmittedJobsHaveRows
<1>. QED BY <1>1, <1>2, <1>3, <1>4 DEF TaskOf

\* Saving a status writes that status, or leaves the one the row has now; in
\* either case an audit saved as terminal has ended.
LEMMA SaveIsMove ==
    ASSUME PipelineInv, NEW w \in Workers, wpc[w] = "run",
           status[TaskOf(w)] # "none",
           NEW s \in Active \cup Terminal, SaveStatus(w, s)
    PROVE  /\ \E z \in Active \cup Terminal : SetStatus(TaskOf(w), z)
           /\ s \in Terminal => TaskOf(w) \in ended'
<1>1. TaskOf(w) \in Tasks
  BY TaskOfCall
<1>2. status[TaskOf(w)] \in Active \cup Terminal
  BY <1>1 DEF PipelineInv, TypeOK, Statuses
<1>3. loaded[w].status \in Terminal => TaskOf(w) \in ended
  BY DEF PipelineInv, CallHoldsRow
<1>4. CASE s = loaded[w].status
  <2>1. SetStatus(TaskOf(w), status[TaskOf(w)])
    BY <1>4 DEF SaveStatus, Written
  <2>2. ended \subseteq ended'
    BY <2>1 DEF SetStatus
  <2>. QED BY <1>2, <1>3, <1>4, <2>1, <2>2
<1>5. CASE s # loaded[w].status
  <2>1. SetStatus(TaskOf(w), s)
    BY <1>5 DEF SaveStatus, Written
  <2>2. s \in Terminal => TaskOf(w) \in ended'
    BY <2>1 DEF SetStatus
  <2>. QED BY <2>1, <2>2
<1>. QED BY <1>4, <1>5

\* Worker steps, queue steps and reviews move at most one audit.
LEMMA WorkersMoveOneAudit ==
    ASSUME PipelineInv,
           \/ \E w \in Workers : ProcessStep(w) \/ Killed(w)
           \/ QueueStep \/ (\E t \in Tasks : Review(t)) \/ UNCHANGED vars
    PROVE  MovesOneAudit
<1>1. ASSUME NEW w \in Workers, Load(w) \/ Reload(w) PROVE MovesOneAudit
  BY <1>1 DEF Load, Reload, BeginJob, queueVars, redisVars, auditVars, MovesOneAudit
<1>2. ASSUME NEW w \in Workers,
             \/ Crawl(w) \/ Analyze(w) \/ RefuseScore(w) \/ StartScoring(w)
             \/ Complete(w) \/ Fail(w)
      PROVE  MovesOneAudit
  <2>1. UNCHANGED <<used, domainOf, origin, requestVars, stream>>
    BY <1>2 DEF Crawl, Analyze, RefuseScore, StartScoring, Complete, Fail, JobRaises,
                LeavePending, queueVars, redisVars
  <2>2. stage[w] \in {"crawl", "engine", "gate", "score", "publish"}
    BY <1>2 DEF Crawl, Analyze, RefuseScore, StartScoring, Complete, Fail, Goes
  <2>3. wpc[w] = "run" /\ status[TaskOf(w)] # "none"
    BY <2>2 DEF PipelineInv, CallHoldsRow
  <2>4. TaskOf(w) \in 1..used
    BY <2>3, TaskOfCall
  <2>5. \/ SetStatus(TaskOf(w), "analyzing")
        \/ \E s \in Active \cup Terminal : SaveStatus(w, s)
    BY <1>2 DEF Crawl, Analyze, RefuseScore, StartScoring, Complete, Fail, Active,
                Terminal
  <2>6. \E s \in Active \cup Terminal : SetStatus(TaskOf(w), s)
    BY <2>3, <2>5, SaveIsMove DEF Active
  <2>. QED BY <2>1, <2>3, <2>4, <2>6 DEF MovesOneAudit
<1>3. ASSUME NEW w \in Workers, Publish(w) \/ FailUnrecorded(w) \/ Killed(w)
      PROVE  MovesOneAudit
  BY <1>3 DEF Publish, FailUnrecorded, Killed, JobReturns, JobRaises, LeavePending,
              Crash, redisVars, auditVars, MovesOneAudit
<1>4. CASE QueueStep
  <2>1. UNCHANGED <<auditVars, requestVars>>
    BY <1>4 DEF QueueStep
  <2>2. UNCHANGED stream
    BY <1>4 DEF QueueStep, GoIdle, PollStep, ReadJob, ReadNothing, Reclaim, SiftLive,
                SiftPoison, Bury, Ack, AckFails, LeavePending, Restart, redisVars
  <2>. QED BY <2>1, <2>2 DEF MovesOneAudit, auditVars
<1>5. ASSUME NEW t \in Tasks, Review(t) PROVE MovesOneAudit
  BY <1>5 DEF Review, MovesOneAudit, queueVars, redisVars
<1>6. CASE UNCHANGED vars
  BY <1>6 DEF vars, MovesOneAudit, auditVars, queueVars, redisVars
<1>. QED BY <1>1, <1>2, <1>3, <1>4, <1>5, <1>6 DEF ProcessStep

-------------------------------------------------------------------------------
(***************************************************************************)
(* Every step keeps the types.                                             *)
(***************************************************************************)

\* The types of what MovesOneAudit speaks of.
LEMMA MoveKeepsTypes ==
    ASSUME TypeOK, MovesOneAudit
    PROVE  /\ used' \in 0..MaxJobs
           /\ domainOf' \in [Tasks -> Domains \cup {"none"}]
           /\ origin' \in [Tasks -> Origins]
           /\ status' \in [Tasks -> Statuses]
           /\ cpc' \in [Clients -> {"idle", "insert", "enqueue"}]
           /\ cdom' \in [Clients -> Domains \cup {"none"}]
           /\ ctask' \in [Clients -> 0..used']
           /\ flushed' \in [Feeders -> SUBSET (1..used')]
           /\ ended' \subseteq 1..used'
<1>1. CASE UNCHANGED <<status, ended>>
  BY <1>1 DEF TypeOK, MovesOneAudit, requestVars
<1>2. CASE \E t \in 1..used, s \in Active \cup Terminal : SetStatus(t, s)
  <2>1. PICK t \in 1..used, s \in Active \cup Terminal : SetStatus(t, s)
    BY <1>2
  <2>2. status' \in [Tasks -> Statuses]
    <3>1. status' = [status EXCEPT ![t] = s]
      BY <2>1 DEF SetStatus
    <3>2. status \in [Tasks -> Statuses]
      BY DEF TypeOK
    <3>. QED BY <3>1, <3>2 DEF Statuses
  <2>3. ended' \subseteq 1..used'
    BY <2>1 DEF SetStatus, TypeOK, MovesOneAudit
  <2>. QED BY <2>2, <2>3 DEF TypeOK, MovesOneAudit, requestVars
<1>. QED BY <1>1, <1>2 DEF MovesOneAudit

\* The types of results and of calls of process.
LEMMA WorkersKeepTypes ==
    ASSUME PipelineInv,
           \/ \E w \in Workers : ProcessStep(w) \/ Killed(w)
           \/ QueueStep \/ (\E t \in Tasks : Review(t)) \/ UNCHANGED vars
    PROVE  /\ scored' \in [Tasks -> BOOLEAN]
           /\ method' \in [Tasks -> Methods]
           /\ results' \in [Tasks -> Nat]
           /\ stage' \in [Workers -> Stages]
           /\ loaded' \in [Workers -> Columns]
<1>. USE DEF TypeOK, PipelineInv
<1>0. Expired \in Columns /\ \A t \in Tasks : RowOf(t) \in Columns
  BY DEF Expired, RowOf, Columns, Statuses, Methods
<1>1. ASSUME NEW w \in Workers, Load(w) PROVE
        /\ UNCHANGED <<scored, method, results>>
        /\ stage' \in [Workers -> Stages] /\ loaded' \in [Workers -> Columns]
  <2>1. PICK e \in batch[w] : job' = [job EXCEPT ![w] = e]
    BY <1>1 DEF Load, BeginJob
  <2>2. e \in DOMAIN stream /\ job'[w] = e
    BY <2>1 DEF QueueInv, QueueTypeOK, OnlyDelivered
  <2>3. stream[job'[w]] \in Tasks
    BY <2>2 DEF QueueTypeOK
  <2>4. \/ UNCHANGED loaded
        \/ loaded' = [loaded EXCEPT ![w] = RowOf(stream[job'[w]])]
    BY <1>1 DEF Load
  <2>5. loaded' \in [Workers -> Columns]
    BY <1>0, <2>3, <2>4
  <2>6. stage' \in [Workers -> Stages]
    BY <1>1 DEF Load, Goes, Stages
  <2>. QED BY <1>1, <2>5, <2>6 DEF Load, auditVars
<1>2. ASSUME NEW w \in Workers, Reload(w) PROVE
        /\ UNCHANGED <<scored, method, results, stage>>
        /\ loaded' \in [Workers -> Columns]
  <2>1. wpc[w] = "run"
    BY <1>2 DEF Reload, CallHoldsRow
  <2>2. TaskOf(w) \in Tasks
    BY <2>1, TaskOfCall
  <2>. QED BY <1>0, <1>2, <2>2 DEF Reload, auditVars
<1>3. ASSUME NEW w \in Workers, Crawl(w) \/ Analyze(w) \/ StartScoring(w) PROVE
        /\ UNCHANGED <<scored, method, results>>
        /\ stage' \in [Workers -> Stages] /\ loaded' \in [Workers -> Columns]
  <2>1. stage' \in [Workers -> Stages]
    BY <1>3 DEF Crawl, Analyze, StartScoring, Goes, Stages
  <2>2. loaded' \in [Workers -> Columns]
    BY <1>0, <1>3 DEF Crawl, Analyze, StartScoring, Forget
  <2>. QED BY <1>3, <2>1, <2>2 DEF Crawl, Analyze, StartScoring
<1>4. ASSUME NEW w \in Workers, wpc[w] = "run", SaveMethod(w) PROVE
        method' \in [Tasks -> Methods]
  <2>1. method' = [method EXCEPT ![TaskOf(w)] = "automated"] \/ UNCHANGED method
    <3>1. method' = [method EXCEPT ![TaskOf(w)] =
                       Written(loaded[w].method, "automated", method[TaskOf(w)])]
      BY <1>4 DEF SaveMethod
    <3>2. method \in [Tasks -> Methods] /\ TaskOf(w) \in Tasks
      BY <1>4, TaskOfCall
    <3>3. [method EXCEPT ![TaskOf(w)] = method[TaskOf(w)]] = method
      BY <3>2
    <3>. QED BY <3>1, <3>3 DEF Written
  <2>. QED BY <2>1 DEF Methods
<1>5. ASSUME NEW w \in Workers, wpc[w] = "run", AddResults(w) PROVE
        results' \in [Tasks -> Nat]
  <2>1. TaskOf(w) \in Tasks
    BY <1>5, TaskOfCall
  <2>2. results' = [results EXCEPT ![TaskOf(w)] = results[TaskOf(w)] + 1]
    BY <1>5 DEF AddResults
  <2>. QED BY <2>1, <2>2
<1>6. ASSUME NEW w \in Workers, RefuseScore(w) \/ Complete(w) PROVE
        /\ scored' \in [Tasks -> BOOLEAN] /\ method' \in [Tasks -> Methods]
        /\ results' \in [Tasks -> Nat]
        /\ stage' \in [Workers -> Stages] /\ loaded' \in [Workers -> Columns]
  <2>1. wpc[w] = "run"
    <3>1. stage[w] \in {"gate", "score"}
      BY <1>6 DEF RefuseScore, Complete, Goes
    <3>. QED BY <3>1 DEF CallHoldsRow
  <2>2. TaskOf(w) \in Tasks /\ scored[TaskOf(w)] \in BOOLEAN
    BY <2>1, TaskOfCall
  <2>3. stage' \in [Workers -> Stages]
    <3>1. stage' = [stage EXCEPT ![w] = "publish"]
      BY <1>6 DEF RefuseScore, Complete, Goes
    <3>. QED BY <3>1 DEF Stages
  <2>4. loaded' \in [Workers -> Columns]
    BY <1>0, <1>6 DEF RefuseScore, Complete, Forget
  <2>5. \E b \in BOOLEAN : scored' = [scored EXCEPT ![TaskOf(w)] = b]
    <3>1. CASE Complete(w)
      BY <2>2, <3>1 DEF Complete
    <3>2. CASE RefuseScore(w)
      <4>1. scored' = [scored EXCEPT ![TaskOf(w)] =
                         Written(loaded[w].scored, FALSE, scored[TaskOf(w)])]
        BY <3>2 DEF RefuseScore
      <4>2. Written(loaded[w].scored, FALSE, scored[TaskOf(w)]) \in BOOLEAN
        BY <2>2 DEF Written
      <4>. QED BY <4>1, <4>2
    <3>. QED BY <1>6, <3>1, <3>2
  <2>6. scored' \in [Tasks -> BOOLEAN]
    BY <2>5
  <2>7. SaveMethod(w) /\ AddResults(w)
    BY <1>6 DEF RefuseScore, Complete
  <2>. QED BY <1>4, <1>5, <2>1, <2>3, <2>4, <2>6, <2>7
<1>7. ASSUME NEW w \in Workers, Leave(w) PROVE
        stage' \in [Workers -> Stages] /\ loaded' \in [Workers -> Columns]
  BY <1>0, <1>7 DEF Leave, Forget, Stages
<1>8. ASSUME NEW w \in Workers, Publish(w) \/ FailUnrecorded(w) \/ Killed(w) PROVE
        UNCHANGED <<scored, method, results>> /\ Leave(w)
  BY <1>8 DEF Publish, FailUnrecorded, Killed, auditVars
<1>9. ASSUME NEW w \in Workers, Fail(w) PROVE
        /\ UNCHANGED scored /\ method' \in [Tasks -> Methods]
        /\ results' \in [Tasks -> Nat] /\ Leave(w)
  <2>1. wpc[w] = "run"
    BY <1>9 DEF Fail, CallHoldsRow
  <2>2. UNCHANGED method \/ SaveMethod(w)
    BY <1>9 DEF Fail
  <2>3. UNCHANGED results \/ AddResults(w)
    BY <1>9 DEF Fail
  <2>. QED BY <1>4, <1>5, <1>9, <2>1, <2>2, <2>3 DEF Fail
<1>10. CASE QueueStep
  BY <1>10 DEF QueueStep, auditVars, processVars
<1>11. ASSUME NEW t \in Tasks, Review(t) PROVE
        /\ UNCHANGED <<scored, results, stage, loaded>>
        /\ method' \in [Tasks -> Methods]
  BY <1>11 DEF Review, Methods, processVars
<1>12. CASE UNCHANGED vars
  BY <1>12 DEF vars, auditVars, processVars
<1>13. ASSUME NEW w \in Workers, ProcessStep(w) \/ Killed(w) PROVE
        /\ scored' \in [Tasks -> BOOLEAN] /\ method' \in [Tasks -> Methods]
        /\ results' \in [Tasks -> Nat]
        /\ stage' \in [Workers -> Stages] /\ loaded' \in [Workers -> Columns]
  <2>1. CASE Load(w) \/ Reload(w)
    BY <1>1, <1>2, <2>1
  <2>2. CASE Crawl(w) \/ Analyze(w) \/ StartScoring(w)
    BY <1>3, <2>2
  <2>3. CASE RefuseScore(w) \/ Complete(w)
    BY <1>6, <2>3
  <2>4. CASE Publish(w) \/ FailUnrecorded(w) \/ Killed(w)
    BY <1>7, <1>8, <2>4
  <2>5. CASE Fail(w)
    BY <1>7, <1>9, <2>5
  <2>. QED BY <1>13, <2>1, <2>2, <2>3, <2>4, <2>5 DEF ProcessStep
<1>. QED BY <1>10, <1>11, <1>12, <1>13

\* The types after a step of a request or of a feeder.
LEMMA RequestsKeepTypes ==
    ASSUME PipelineInv,
           \/ \E c \in Clients : SubmitStep(c)
           \/ \E f \in Feeders : FeedStep(f),
           QueueTypeOK'
    PROVE  TypeOK'
<1>. USE QueueAssumption, PipelineAssumption DEF TypeOK, PipelineInv
<1>1. ASSUME NEW c \in Clients, NEW d \in Domains, SubmitCheck(c, d) PROVE TypeOK'
  <2>1. cpc' \in [Clients -> {"idle", "insert", "enqueue"}]
    BY <1>1 DEF SubmitCheck
  <2>2. cdom' \in [Clients -> Domains \cup {"none"}]
    BY <1>1 DEF SubmitCheck
  <2>. QED BY <1>1, <2>1, <2>2 DEF SubmitCheck, auditVars, processVars
<1>2. ASSUME NEW t \in Tasks, NEW d \in Domains, NEW o \in Origins, NewAudit(t, d, o)
      PROVE  /\ used' \in 0..MaxJobs /\ used' = used + 1 /\ t \in 1..used'
             /\ domainOf' \in [Tasks -> Domains \cup {"none"}]
             /\ origin' \in [Tasks -> Origins]
             /\ ctask \in [Clients -> 0..used'] /\ ended \subseteq 1..used'
             /\ flushed \in [Feeders -> SUBSET (1..used')]
  <2>1. used' \in 0..MaxJobs /\ used' = used + 1 /\ t \in 1..used'
    <3>1. t = used + 1 /\ used' = t /\ used \in Nat
      BY <1>2 DEF NewAudit
    <3>2. t \in 1..MaxJobs /\ MaxJobs \in Nat
      BY DEF Entries
    <3>. QED BY <3>1, <3>2
  <2>2. domainOf' \in [Tasks -> Domains \cup {"none"}]
    BY <1>2 DEF NewAudit
  <2>3. origin' \in [Tasks -> Origins]
    BY <1>2 DEF NewAudit
  <2>4. 0..used \subseteq 0..used' /\ 1..used \subseteq 1..used'
    BY <2>1
  <2>. QED BY <2>1, <2>2, <2>3, <2>4
<1>3. ASSUME NEW c \in Clients, SubmitCommit(c) PROVE TypeOK'
  <2>1. PICK t \in Tasks :
          /\ NewAudit(t, cdom[c], "submit")
          /\ status' = [status EXCEPT ![t] = "queued"]
          /\ ctask' = [ctask EXCEPT ![c] = t]
    BY <1>3 DEF SubmitCommit
  <2>2. cdom[c] \in Domains /\ "submit" \in Origins
    BY <1>3 DEF SubmitCommit, RequestsHoldRows, Origins
  <2>3. status' \in [Tasks -> Statuses]
    BY <2>1 DEF Active, Statuses
  <2>4. ctask' \in [Clients -> 0..used']
    BY <2>1, <2>2, <1>2
  <2>5. cpc' \in [Clients -> {"idle", "insert", "enqueue"}]
    BY <1>3 DEF SubmitCommit
  <2>. QED BY <1>3, <2>1, <2>2, <2>3, <2>4, <2>5, <1>2 DEF SubmitCommit, processVars
<1>4. ASSUME NEW c \in Clients, SubmitEnqueue(c) \/ SubmitDies(c) PROVE TypeOK'
  <2>1. EndRequest(c) /\ UNCHANGED <<auditVars, processVars>>
    BY <1>4 DEF SubmitEnqueue, SubmitDies
  <2>2. cpc' \in [Clients -> {"idle", "insert", "enqueue"}]
    BY <2>1 DEF EndRequest
  <2>3. cdom' \in [Clients -> Domains \cup {"none"}]
    BY <2>1 DEF EndRequest
  <2>4. ctask' \in [Clients -> 0..used']
    BY <2>1 DEF EndRequest, auditVars
  <2>. QED BY <2>1, <2>2, <2>3, <2>4 DEF EndRequest, auditVars, processVars
<1>5. ASSUME NEW f \in Feeders, NEW d \in Domains, FeedOne(f, d) PROVE TypeOK'
  <2>1. PICK t \in Tasks :
          NewAudit(t, d, f) /\ flushed' = [flushed EXCEPT ![f] = @ \cup {t}]
    BY <1>5 DEF FeedOne
  <2>2. f \in Origins
    BY DEF Origins
  <2>3. flushed' \in [Feeders -> SUBSET (1..used')]
    BY <2>1, <2>2, <1>2
  <2>. QED BY <1>5, <2>1, <2>2, <2>3, <1>2 DEF FeedOne, processVars
<1>6. ASSUME NEW f \in Feeders, FeedCommit(f) PROVE TypeOK'
  <2>1. status' \in [Tasks -> Statuses]
    BY <1>6 DEF FeedCommit, Active, Statuses
  <2>2. flushed' \in [Feeders -> SUBSET (1..used')]
    BY <1>6 DEF FeedCommit
  <2>. QED BY <1>6, <2>1, <2>2 DEF FeedCommit, processVars
<1>7. ASSUME NEW f \in Feeders, FeedDies(f) PROVE TypeOK'
  <2>1. flushed' \in [Feeders -> SUBSET (1..used')]
    BY <1>7 DEF FeedDies, auditVars
  <2>. QED BY <1>7, <2>1 DEF FeedDies, auditVars, processVars
<1>. QED BY <1>1, <1>3, <1>4, <1>5, <1>6, <1>7 DEF SubmitStep, FeedStep

\* Every step keeps the types.
LEMMA TypeStep ==
    ASSUME PipelineInv, [Next]_vars
    PROVE  TypeOK'
<1>1. QueueTypeOK'
  BY QueueInvKept DEF QueueInv
<1>2. CASE \/ \E c \in Clients : SubmitStep(c)
           \/ \E f \in Feeders : FeedStep(f)
  BY <1>1, <1>2, RequestsKeepTypes
<1>3. CASE \/ \E w \in Workers : ProcessStep(w) \/ Killed(w)
           \/ QueueStep \/ (\E t \in Tasks : Review(t)) \/ UNCHANGED vars
  <2>1. MovesOneAudit
    BY <1>3, WorkersMoveOneAudit
  <2>2. TypeOK
    BY DEF PipelineInv
  <2>. QED BY <1>1, <1>3, <2>1, <2>2, MoveKeepsTypes, WorkersKeepTypes DEF TypeOK
<1>. QED BY <1>2, <1>3 DEF Next

-------------------------------------------------------------------------------
(***************************************************************************)
(* The rows of audits: every step keeps what is known of them.             *)
(***************************************************************************)

\* The part of the invariant that speaks of rows, requests and jobs only.
RowInv ==
    /\ RowsNumbered /\ TerminalHasEnded /\ RequestsHoldRows /\ LockExcludes
    /\ SubmittedJobsHaveRows /\ OneFreshSubmission

\* A move neither creates nor deletes a row, and makes an audit active only if
\* it was active before or had ended once.
LEMMA MoveOfStatus ==
    ASSUME PipelineInv, MovesOneAudit, NEW t \in Tasks
    PROVE  /\ ended \subseteq ended'
           /\ status'[t] = "none" <=> status[t] = "none"
           /\ status'[t] \in Active => status[t] \in Active \/ t \in ended
           /\ status'[t] \in Terminal => t \in ended'
<1>. USE DEF PipelineInv, TypeOK, Statuses, TerminalHasEnded
<1>1. CASE UNCHANGED <<status, ended>>
  BY <1>1 DEF Active, Terminal
<1>2. ASSUME NEW u \in 1..used, NEW s \in Active \cup Terminal,
             status[u] # "none", SetStatus(u, s)
      PROVE  /\ ended \subseteq ended'
             /\ status'[t] = "none" <=> status[t] = "none"
             /\ status'[t] \in Active => status[t] \in Active \/ t \in ended
             /\ status'[t] \in Terminal => t \in ended'
  <2>1. status' = [status EXCEPT ![u] = s] /\ ended \subseteq ended'
    BY <1>2 DEF SetStatus
  <2>2. CASE t = u
    <3>1. status'[t] = s /\ status[t] \in Active \cup Terminal
      BY <1>2, <2>1, <2>2
    <3>2. s \in Terminal => t \in ended'
      BY <1>2, <2>2 DEF SetStatus
    <3>. QED BY <1>2, <2>1, <2>2, <3>1, <3>2 DEF Active, Terminal
  <2>3. CASE t # u
    BY <2>1, <2>3
  <2>. QED BY <2>2, <2>3
<1>. QED BY <1>1, <1>2 DEF MovesOneAudit

\* A move keeps what is known of the rows.
LEMMA MoveKeepsRows ==
    ASSUME PipelineInv, MovesOneAudit
    PROVE  RowInv'
<1>. USE QueueAssumption, PipelineAssumption DEF PipelineInv
<1>1. UNCHANGED <<used, domainOf, origin, cpc, cdom, ctask, flushed, stream>>
  BY DEF MovesOneAudit, requestVars
<1>2. RowsNumbered'
  BY <1>1, MoveOfStatus DEF RowsNumbered
<1>3. TerminalHasEnded'
  BY <1>1, MoveOfStatus DEF TerminalHasEnded
<1>4. RequestsHoldRows'
  <2>1. \A c \in Clients : cpc[c] = "enqueue" => ctask[c] \in Tasks
    BY DEF RequestsHoldRows, TypeOK, Entries
  <2>. QED BY <1>1, <2>1, MoveOfStatus DEF RequestsHoldRows
<1>5. LockExcludes'
  <2>1. ASSUME NEW c \in Clients, cpc[c] = "insert",
               NEW t \in Tasks, domainOf[t] = cdom[c], status'[t] \in Active,
               origin[t] = "submit"
        PROVE  t \in ended'
    BY <2>1, MoveOfStatus DEF LockExcludes, Running
  <2>. QED BY <1>1, <2>1 DEF LockExcludes, Running
<1>6. SubmittedJobsHaveRows'
  <2>1. ASSUME NEW e \in DOMAIN stream PROVE stream[e] \in Tasks
    BY DEF QueueInv, QueueTypeOK
  <2>. QED BY <1>1, <2>1, MoveOfStatus DEF SubmittedJobsHaveRows
<1>7. OneFreshSubmission'
  BY <1>1, MoveOfStatus DEF OneFreshSubmission
<1>. QED BY <1>2, <1>3, <1>4, <1>5, <1>6, <1>7 DEF RowInv

\* A new job is appended for a known audit, and the others stay.
LEMMA EnqueueKeepsJobs ==
    ASSUME PipelineInv, used' \in Nat, used <= used', NEW t \in 1..used', Enqueue(t),
           origin'[t] = "submit" => status'[t] # "none",
           \A u \in 1..used : origin'[u] = origin[u] /\ status'[u] = status[u]
    PROVE  SubmittedJobsHaveRows'
<1>1. stream \in Seq(Tasks) /\ t \in Nat
  BY DEF PipelineInv, QueueInv, QueueTypeOK
<1>2. stream' = Append(stream, t)
  BY DEF Enqueue
<1>3. ASSUME NEW e \in DOMAIN stream' PROVE e \in DOMAIN stream \/ stream'[e] = t
  BY <1>1, <1>2
<1>4. ASSUME NEW e \in DOMAIN stream PROVE stream'[e] = stream[e]
  BY <1>1, <1>2
<1>5. ASSUME NEW e \in DOMAIN stream
      PROVE  /\ stream[e] \in 1..used'
             /\ origin'[stream[e]] = "submit" => status'[stream[e]] # "none"
  <2>1. used \in Nat
    BY QueueAssumption DEF PipelineInv, TypeOK
  <2>. QED BY <2>1 DEF PipelineInv, SubmittedJobsHaveRows
<1>. QED BY <1>3, <1>4, <1>5 DEF SubmittedJobsHaveRows

\* The check under the lock finds no running audit of the domain.
LEMMA CheckKeepsRows ==
    ASSUME PipelineInv, NEW c \in Clients, NEW d \in Domains, SubmitCheck(c, d)
    PROVE  RowInv'
<1>. USE DEF PipelineInv, TypeOK
<1>1. UNCHANGED <<used, domainOf, origin, status, ended, ctask, flushed, stream>>
  BY DEF SubmitCheck, auditVars, queueVars, redisVars
<1>2. cpc' = [cpc EXCEPT ![c] = "insert"] /\ cdom' = [cdom EXCEPT ![c] = d]
  BY DEF SubmitCheck
<1>3. RowsNumbered' /\ TerminalHasEnded' /\ SubmittedJobsHaveRows' /\ OneFreshSubmission'
  BY <1>1 DEF RowsNumbered, TerminalHasEnded, SubmittedJobsHaveRows, OneFreshSubmission
<1>4. RequestsHoldRows'
  BY <1>1, <1>2 DEF RequestsHoldRows
<1>5. LockExcludes'
  <2>1. ~Locked(d) /\ Running(d) = {}
    BY DEF SubmitCheck
  <2>2. ASSUME NEW b \in Clients, b # c, cpc[b] = "insert" PROVE cdom[b] # d
    BY <2>1, <2>2 DEF Locked
  <2>. QED BY <1>1, <1>2, <2>1, <2>2 DEF LockExcludes, Running
<1>. QED BY <1>3, <1>4, <1>5 DEF RowInv

\* The commit adds the only fresh submission of the domain.
LEMMA CommitKeepsRows ==
    ASSUME PipelineInv, NEW c \in Clients, SubmitCommit(c)
    PROVE  RowInv'
<1>. USE QueueAssumption, PipelineAssumption DEF PipelineInv, TypeOK
<1>1. PICK t \in Tasks :
        /\ NewAudit(t, cdom[c], "submit")
        /\ status' = [status EXCEPT ![t] = "queued"]
        /\ ctask' = [ctask EXCEPT ![c] = t]
  BY DEF SubmitCommit
<1>2. /\ cpc[c] = "insert" /\ cpc' = [cpc EXCEPT ![c] = "enqueue"]
      /\ UNCHANGED <<cdom, flushed, ended, stream>>
  BY DEF SubmitCommit, queueVars, redisVars
<1>3. /\ t = used + 1 /\ used' = t /\ used \in Nat
      /\ domainOf' = [domainOf EXCEPT ![t] = cdom[c]]
      /\ origin' = [origin EXCEPT ![t] = "submit"]
  BY <1>1 DEF NewAudit
<1>4. t \notin ended /\ status[t] = "none"
  BY <1>3 DEF RowsNumbered
<1>5. RowsNumbered'
  BY <1>1, <1>3 DEF RowsNumbered, Entries
<1>6. TerminalHasEnded'
  BY <1>1, <1>2 DEF TerminalHasEnded, Terminal
<1>7. RequestsHoldRows'
  <2>1. ASSUME NEW b \in Clients, cpc'[b] = "insert" PROVE cdom'[b] \in Domains
    BY <1>2, <2>1 DEF RequestsHoldRows
  <2>2. ASSUME NEW b \in Clients, cpc'[b] = "enqueue"
        PROVE  ctask'[b] # 0 /\ status'[ctask'[b]] # "none"
    BY <1>1, <1>2, <1>3, <2>2 DEF RequestsHoldRows
  <2>3. ASSUME NEW f \in Feeders, NEW u \in flushed'[f] PROVE origin'[u] = f
    BY <1>2, <1>3 DEF RequestsHoldRows
  <2>. QED BY <2>1, <2>2, <2>3 DEF RequestsHoldRows
<1>8. LockExcludes'
  <2>1. ASSUME NEW b \in Clients, cpc'[b] = "insert"
        PROVE  cpc[b] = "insert" /\ cdom[b] # cdom[c]
    BY <1>2, <2>1 DEF LockExcludes
  <2>2. ASSUME NEW b \in Clients, cpc'[b] = "insert", NEW u \in Tasks,
               domainOf'[u] = cdom'[b], status'[u] \in Active, origin'[u] = "submit"
        PROVE  u \in ended'
    <3>1. u # t
      BY <1>2, <1>3, <2>1, <2>2
    <3>2. domainOf[u] = cdom[b] /\ status[u] \in Active /\ origin[u] = "submit"
      BY <1>1, <1>2, <1>3, <2>2, <3>1
    <3>. QED BY <1>2, <2>1, <2>2, <3>2 DEF LockExcludes, Running
  <2>3. ASSUME NEW b \in Clients, cpc'[b] = "insert", NEW a \in Clients,
               cpc'[a] = "insert", cdom'[a] = cdom'[b]
        PROVE  a = b
    BY <1>2, <2>1, <2>3 DEF LockExcludes
  <2>. QED BY <2>2, <2>3 DEF LockExcludes, Running
<1>9. SubmittedJobsHaveRows'
  <2>1. ASSUME NEW e \in DOMAIN stream
        PROVE  /\ stream[e] \in 1..used' /\ stream[e] # t
               /\ origin[stream[e]] = "submit" => status[stream[e]] # "none"
    BY <1>3 DEF SubmittedJobsHaveRows
  <2>. QED BY <1>1, <1>2, <1>3, <2>1 DEF SubmittedJobsHaveRows
<1>10. OneFreshSubmission'
  <2>1. ASSUME NEW u \in Tasks, u # t, domainOf[u] = cdom[c], origin[u] = "submit",
               status[u] \in Active
        PROVE  u \in ended
    BY <1>2, <2>1 DEF LockExcludes, Running
  <2>2. ASSUME NEW u \in Tasks, u # t
        PROVE  /\ domainOf'[u] = domainOf[u] /\ origin'[u] = origin[u]
               /\ status'[u] = status[u]
    BY <1>1, <1>3, <2>2
  <2>3. domainOf'[t] = cdom[c]
    BY <1>3
  <2>. QED BY <1>2, <2>1, <2>2, <2>3 DEF OneFreshSubmission
<1>. QED BY <1>5, <1>6, <1>7, <1>8, <1>9, <1>10 DEF RowInv

\* The end of a request, with or without its job in the stream.
LEMMA EndKeepsRows ==
    ASSUME PipelineInv, NEW c \in Clients, SubmitEnqueue(c) \/ SubmitDies(c)
    PROVE  RowInv'
<1>. USE QueueAssumption, PipelineAssumption DEF PipelineInv, TypeOK
<1>1. EndRequest(c) /\ UNCHANGED <<used, domainOf, origin, status, ended>>
  BY DEF SubmitEnqueue, SubmitDies, auditVars
<1>2. /\ UNCHANGED flushed
      /\ \A b \in Clients : \/ cpc'[b] = "idle"
                            \/ cpc'[b] = cpc[b] /\ cdom'[b] = cdom[b] /\ ctask'[b] = ctask[b]
  BY <1>1 DEF EndRequest
<1>3. RowsNumbered' /\ TerminalHasEnded' /\ OneFreshSubmission'
  BY <1>1 DEF RowsNumbered, TerminalHasEnded, OneFreshSubmission
<1>4. RequestsHoldRows'
  BY <1>1, <1>2 DEF RequestsHoldRows
<1>5. LockExcludes'
  BY <1>1, <1>2 DEF LockExcludes, Running
<1>6. SubmittedJobsHaveRows'
  <2>1. CASE SubmitEnqueue(c)
    <3>1. Enqueue(ctask[c]) /\ cpc[c] = "enqueue"
      BY <2>1 DEF SubmitEnqueue
    <3>2. ctask[c] \in 1..used' /\ status[ctask[c]] # "none" /\ used' \in Nat
      BY <1>1, <3>1 DEF RequestsHoldRows
    <3>. QED BY <1>1, <3>1, <3>2, EnqueueKeepsJobs
  <2>2. CASE SubmitDies(c)
    <3>1. UNCHANGED stream
      BY <2>2 DEF SubmitDies, queueVars, redisVars
    <3>. QED BY <1>1, <3>1 DEF SubmittedJobsHaveRows
  <2>. QED BY <2>1, <2>2
<1>. QED BY <1>3, <1>4, <1>5, <1>6 DEF RowInv

\* A feeder's audits are none that a user submitted.
LEMMA FeederKeepsRows ==
    ASSUME PipelineInv, NEW f \in Feeders, FeedStep(f)
    PROVE  RowInv'
<1>. USE QueueAssumption, PipelineAssumption DEF PipelineInv, TypeOK
<1>1. ASSUME NEW d \in Domains, FeedOne(f, d) PROVE RowInv'
  <2>1. PICK t \in Tasks :
          /\ NewAudit(t, d, f)
          /\ flushed' = [flushed EXCEPT ![f] = @ \cup {t}]
          /\ Enqueue(t)
    BY <1>1 DEF FeedOne
  <2>2. UNCHANGED <<status, ended, cpc, cdom, ctask>>
    BY <1>1 DEF FeedOne
  <2>3. /\ t = used + 1 /\ used' = t /\ used \in Nat
        /\ domainOf' = [domainOf EXCEPT ![t] = d]
        /\ origin' = [origin EXCEPT ![t] = f]
    BY <2>1 DEF NewAudit
  <2>4. status[t] = "none" /\ origin'[t] # "submit"
    BY <2>3 DEF RowsNumbered
  <2>5. RowsNumbered'
    BY <2>2, <2>3 DEF RowsNumbered, Entries
  <2>6. TerminalHasEnded'
    BY <2>2 DEF TerminalHasEnded
  <2>7. RequestsHoldRows'
    <3>1. ASSUME NEW g \in Feeders, NEW u \in flushed'[g] PROVE origin'[u] = g
      <4>1. CASE u = t
        <5>1. t \notin flushed[g]
          BY <2>3
        <5>. QED BY <2>1, <2>3, <4>1, <5>1
      <4>2. CASE u # t
        BY <2>1, <2>3, <4>2 DEF RequestsHoldRows
      <4>. QED BY <4>1, <4>2
    <3>. QED BY <2>2, <3>1 DEF RequestsHoldRows
  <2>8. ASSUME NEW u \in Tasks, origin'[u] = "submit"
        PROVE  u # t /\ domainOf'[u] = domainOf[u] /\ origin[u] = "submit"
    BY <2>3, <2>4, <2>8
  <2>9. LockExcludes'
    BY <2>2, <2>8 DEF LockExcludes, Running
  <2>10. SubmittedJobsHaveRows'
    <3>1. used' \in Nat /\ used <= used' /\ t \in 1..used'
      BY <2>3
    <3>2. \A u \in 1..used : origin'[u] = origin[u] /\ status'[u] = status[u]
      BY <2>2, <2>3
    <3>. QED BY <2>1, <2>4, <3>1, <3>2, EnqueueKeepsJobs
  <2>11. OneFreshSubmission'
    BY <2>2, <2>8 DEF OneFreshSubmission
  <2>. QED BY <2>5, <2>6, <2>7, <2>9, <2>10, <2>11 DEF RowInv
<1>2. CASE FeedCommit(f)
  <2>1. /\ UNCHANGED <<used, domainOf, origin, ended, cpc, cdom, ctask, stream>>
        /\ status' = [t \in Tasks |-> IF t \in flushed[f] THEN "queued" ELSE status[t]]
        /\ flushed' = [flushed EXCEPT ![f] = {}]
    BY <1>2 DEF FeedCommit, queueVars, redisVars
  <2>2. ASSUME NEW t \in Tasks
        PROVE  /\ origin[t] = "submit" => status'[t] = status[t]
               /\ status'[t] = "none" => status[t] = "none"
               /\ status'[t] \in Terminal => status[t] \in Terminal
               /\ t > used => status'[t] = status[t]
    BY <2>1 DEF RequestsHoldRows, Terminal
  <2>3. RowsNumbered' /\ TerminalHasEnded'
    BY <2>1, <2>2 DEF RowsNumbered, TerminalHasEnded
  <2>4. RequestsHoldRows'
    <3>1. \A c \in Clients : cpc[c] = "enqueue" => ctask[c] \in Tasks
      BY DEF RequestsHoldRows, Entries
    <3>. QED BY <2>1, <2>2, <3>1 DEF RequestsHoldRows
  <2>5. LockExcludes'
    BY <2>1, <2>2 DEF LockExcludes, Running
  <2>6. SubmittedJobsHaveRows'
    <3>1. ASSUME NEW e \in DOMAIN stream PROVE stream[e] \in Tasks
      BY DEF QueueInv, QueueTypeOK
    <3>. QED BY <2>1, <2>2, <3>1 DEF SubmittedJobsHaveRows
  <2>7. OneFreshSubmission'
    BY <2>1, <2>2 DEF OneFreshSubmission
  <2>. QED BY <2>3, <2>4, <2>5, <2>6, <2>7 DEF RowInv
<1>3. CASE FeedDies(f)
  <2>1. /\ UNCHANGED <<used, domainOf, origin, status, ended, cpc, cdom, ctask, stream>>
        /\ flushed' = [flushed EXCEPT ![f] = {}]
    BY <1>3 DEF FeedDies, auditVars, queueVars, redisVars
  <2>2. RequestsHoldRows'
    BY <2>1 DEF RequestsHoldRows
  <2>. QED
    BY <2>1, <2>2 DEF RowInv, RowsNumbered, TerminalHasEnded, LockExcludes, Running,
                      SubmittedJobsHaveRows, OneFreshSubmission
<1>. QED BY <1>1, <1>2, <1>3 DEF FeedStep

\* Every step keeps what is known of the rows.
LEMMA RowStep ==
    ASSUME PipelineInv, [Next]_vars
    PROVE  RowInv'
<1>1. CASE \E c \in Clients : SubmitStep(c)
  BY <1>1, CheckKeepsRows, CommitKeepsRows, EndKeepsRows DEF SubmitStep
<1>2. CASE \E f \in Feeders : FeedStep(f)
  BY <1>2, FeederKeepsRows
<1>3. CASE \/ \E w \in Workers : ProcessStep(w) \/ Killed(w)
           \/ QueueStep \/ (\E t \in Tasks : Review(t)) \/ UNCHANGED vars
  BY <1>3, WorkersMoveOneAudit, MoveKeepsRows
<1>. QED BY <1>1, <1>2, <1>3 DEF Next

-------------------------------------------------------------------------------
(***************************************************************************)
(* The calls of process.                                                   *)
(***************************************************************************)

\* No step withdraws a job, a row, its origin, or the fact that it has ended.
RowsPersist ==
    /\ \A e \in DOMAIN stream : e \in DOMAIN stream' /\ stream'[e] = stream[e]
    /\ \A t \in 1..used : /\ origin'[t] = origin[t]
                          /\ status[t] # "none" => status'[t] # "none"
    /\ ended \subseteq ended'

\* A job that is added leaves the others where they are.
LEMMA EnqueueKeepsStream ==
    ASSUME PipelineInv, NEW t, Enqueue(t)
    PROVE  \A e \in DOMAIN stream : e \in DOMAIN stream' /\ stream'[e] = stream[e]
<1>1. stream \in Seq(Tasks) /\ stream' = Append(stream, t)
  BY DEF PipelineInv, QueueInv, QueueTypeOK, Enqueue
<1>2. ASSUME NEW e \in DOMAIN stream
      PROVE  e \in DOMAIN stream' /\ stream'[e] = stream[e]
  BY <1>1
<1>. QED BY <1>2

\* Every step lets the rows persist.
LEMMA RowsPersistStep ==
    ASSUME PipelineInv, [Next]_vars
    PROVE  RowsPersist
<1>. USE QueueAssumption, PipelineAssumption
<1>1. ASSUME NEW c \in Clients, SubmitStep(c) PROVE RowsPersist
  <2>1. CASE \E d \in Domains : SubmitCheck(c, d)
    BY <2>1 DEF SubmitCheck, auditVars, queueVars, redisVars, RowsPersist
  <2>2. CASE SubmitCommit(c)
    <3>1. PICK t \in Tasks : /\ NewAudit(t, cdom[c], "submit")
                             /\ status' = [status EXCEPT ![t] = "queued"]
      BY <2>2 DEF SubmitCommit
    <3>2. t = used + 1 /\ origin' = [origin EXCEPT ![t] = "submit"] /\ used \in Nat
      BY <3>1 DEF NewAudit, PipelineInv, TypeOK
    <3>3. UNCHANGED <<stream, ended>>
      BY <2>2 DEF SubmitCommit, queueVars, redisVars
    <3>. QED BY <3>1, <3>2, <3>3 DEF RowsPersist, PipelineInv, TypeOK, Entries
  <2>3. CASE SubmitEnqueue(c)
    BY <2>3, EnqueueKeepsStream DEF SubmitEnqueue, auditVars, RowsPersist
  <2>4. CASE SubmitDies(c)
    BY <2>4 DEF SubmitDies, auditVars, queueVars, redisVars, RowsPersist
  <2>. QED BY <1>1, <2>1, <2>2, <2>3, <2>4 DEF SubmitStep
<1>2. ASSUME NEW f \in Feeders, FeedStep(f) PROVE RowsPersist
  <2>1. ASSUME NEW d \in Domains, FeedOne(f, d) PROVE RowsPersist
    <3>1. PICK t \in Tasks : NewAudit(t, d, f) /\ Enqueue(t)
      BY <2>1 DEF FeedOne
    <3>2. t = used + 1 /\ origin' = [origin EXCEPT ![t] = f] /\ used \in Nat
      BY <3>1 DEF NewAudit, PipelineInv, TypeOK
    <3>3. \A u \in 1..used : origin'[u] = origin[u]
      BY <3>2 DEF PipelineInv, TypeOK
    <3>4. UNCHANGED <<status, ended>>
      BY <2>1 DEF FeedOne
    <3>. QED BY <3>1, <3>3, <3>4, EnqueueKeepsStream DEF RowsPersist
  <2>2. CASE FeedCommit(f)
    <3>1. /\ UNCHANGED <<origin, ended, stream>>
          /\ \A t \in Tasks : status'[t] \in {"queued", status[t]}
      BY <2>2 DEF FeedCommit, queueVars, redisVars
    <3>. QED BY <3>1 DEF RowsPersist, PipelineInv, TypeOK, Entries
  <2>3. CASE FeedDies(f)
    BY <2>3 DEF FeedDies, auditVars, queueVars, redisVars, RowsPersist
  <2>. QED BY <1>2, <2>1, <2>2, <2>3 DEF FeedStep
<1>3. CASE \/ \E w \in Workers : ProcessStep(w) \/ Killed(w)
           \/ QueueStep \/ (\E t \in Tasks : Review(t)) \/ UNCHANGED vars
  <2>1. MovesOneAudit
    BY <1>3, WorkersMoveOneAudit
  <2>2. 1..used \subseteq Tasks
    BY DEF PipelineInv, TypeOK, Entries
  <2>3. ended \subseteq ended'
    BY <2>1 DEF MovesOneAudit, SetStatus
  <2>. QED BY <2>1, <2>2, <2>3, MoveOfStatus DEF RowsPersist, MovesOneAudit
<1>. QED BY <1>1, <1>2, <1>3 DEF Next

\* A step of somebody else does not disturb a call of process.
LEMMA CallUndisturbed ==
    ASSUME PipelineInv, RowsPersist, NEW v \in Workers,
           stage'[v] = stage[v], wpc'[v] = wpc[v], job'[v] = job[v],
           loaded'[v] = loaded[v]
    PROVE  CallHoldsRow(v)'
<1>1. CASE stage[v] = "out"
  <2>1. loaded[v] = Expired
    BY <1>1 DEF PipelineInv, CallHoldsRow
  <2>. QED BY <1>1, <2>1 DEF CallHoldsRow, Expired, Terminal
<1>2. CASE stage[v] # "out"
  <2>1. wpc[v] = "run"
    BY <1>2 DEF PipelineInv, CallHoldsRow
  <2>2. job[v] \in DOMAIN stream /\ TaskOf(v) \in 1..used
    BY <2>1, TaskOfCall
  <2>3. TaskOf(v)' = TaskOf(v)
    BY <2>2 DEF RowsPersist, TaskOf
  <2>. QED BY <2>1, <2>2, <2>3 DEF CallHoldsRow, RowsPersist, PipelineInv
<1>. QED BY <1>1, <1>2

\* Every step keeps what is known of a call of process.
LEMMA CallStep ==
    ASSUME PipelineInv, [Next]_vars, RowsPersist, NEW v \in Workers
    PROVE  CallHoldsRow(v)'
<1>. USE QueueAssumption, PipelineAssumption
<1>. DEFINE Same == /\ stage'[v] = stage[v] /\ wpc'[v] = wpc[v]
                    /\ job'[v] = job[v] /\ loaded'[v] = loaded[v]
<1>0. /\ stage \in [Workers -> Stages] /\ wpc \in [Workers -> WorkerPc]
      /\ job \in [Workers -> 0..MaxJobs] /\ loaded \in [Workers -> Columns]
  BY DEF PipelineInv, TypeOK, QueueTypeOK
<1>1. CASE Same
  BY <1>1, CallUndisturbed
<1>2. CASE stage'[v] = "out" /\ loaded'[v] = Expired
  BY <1>2 DEF CallHoldsRow, Expired, Terminal
<1>3. ASSUME NEW w \in Workers, Load(w) PROVE CallHoldsRow(v)'
  <2>1. PICK e \in batch[w] : job' = [job EXCEPT ![w] = e]
    BY <1>3 DEF Load, BeginJob
  <2>2. wpc' = [wpc EXCEPT ![w] = "run"] /\ UNCHANGED <<stream, origin, status, ended>>
    BY <1>3 DEF Load, BeginJob, redisVars, auditVars
  <2>3. \/ /\ stage' = [stage EXCEPT ![w] = "leave"] /\ UNCHANGED loaded
           /\ status[stream[job'[w]]] = "none"
        \/ /\ stage' = [stage EXCEPT ![w] = "crawl"]
           /\ status[stream[job'[w]]] # "none"
           /\ loaded' = [loaded EXCEPT ![w] = RowOf(stream[job'[w]])]
        \/ stage' = [stage EXCEPT ![w] = "lost"] /\ UNCHANGED loaded
    BY <1>3 DEF Load, Goes
  <2>4. CASE v # w
    <3>1. stage'[v] = stage[v] /\ loaded'[v] = loaded[v]
      BY <1>0, <2>3, <2>4
    <3>2. wpc'[v] = wpc[v] /\ job'[v] = job[v]
      BY <1>0, <2>1, <2>2, <2>4
    <3>. QED BY <3>1, <3>2, <1>1
  <2>5. CASE v = w
    <3>1. e \in DOMAIN stream /\ job'[v] = e /\ wpc'[v] = "run"
      BY <2>1, <2>2, <2>5 DEF PipelineInv, QueueInv, QueueTypeOK, OnlyDelivered
    <3>2. stream[e] \in Tasks /\ TaskOf(v)' = stream[e]
      BY <2>2, <3>1 DEF PipelineInv, QueueInv, QueueTypeOK, TaskOf
    <3>3. origin[stream[e]] = "submit" => status[stream[e]] # "none"
      BY <3>1 DEF PipelineInv, SubmittedJobsHaveRows
    <3>4. loaded[v] = Expired
      BY <1>3, <2>5 DEF Load, Goes, PipelineInv, CallHoldsRow
    <3>5. status[stream[e]] \in Terminal => stream[e] \in ended
      BY <3>2 DEF PipelineInv, TerminalHasEnded
    <3>6. \/ /\ stage'[v] = "leave" /\ loaded'[v] = Expired
             /\ origin[stream[e]] # "submit"
          \/ /\ stage'[v] = "crawl" /\ loaded'[v].status = status[stream[e]]
             /\ status[stream[e]] # "none"
          \/ stage'[v] = "lost" /\ loaded'[v] = Expired
      BY <1>0, <2>3, <2>5, <3>1, <3>3, <3>4 DEF RowOf
    <3>. QED
      BY <2>2, <3>1, <3>2, <3>5, <3>6 DEF CallHoldsRow, Expired, Terminal
  <2>. QED BY <2>4, <2>5
<1>4. ASSUME NEW w \in Workers,
             \/ Crawl(w) \/ Analyze(w) \/ RefuseScore(w) \/ StartScoring(w)
             \/ Complete(w)
      PROVE  CallHoldsRow(v)'
  <2>1. /\ UNCHANGED <<wpc, job, stream>>
        /\ stage[w] \in {"crawl", "engine", "gate", "score"}
    BY <1>4 DEF Crawl, Analyze, RefuseScore, StartScoring, Complete, Goes, queueVars,
                redisVars, workerVars
  <2>2. wpc[w] = "run" /\ status[TaskOf(w)] # "none"
    BY <2>1 DEF PipelineInv, CallHoldsRow
  <2>3. PICK to \in {"engine", "gate", "score", "publish"} :
          stage' = [stage EXCEPT ![w] = to]
    BY <1>4 DEF Crawl, Analyze, RefuseScore, StartScoring, Complete, Goes
  <2>4. loaded' = [loaded EXCEPT ![w] = Expired]
    <3>1. CASE Analyze(w)
      <4>1. loaded[w] = Expired
        BY <3>1 DEF Analyze, Goes, PipelineInv, CallHoldsRow
      <4>. QED BY <1>0, <3>1, <4>1 DEF Analyze
    <3>2. CASE ~Analyze(w)
      BY <1>4, <3>2 DEF Crawl, RefuseScore, StartScoring, Complete, Forget
    <3>. QED BY <3>1, <3>2
  <2>5. CASE v # w
    <3>1. Same
      BY <1>0, <2>1, <2>3, <2>4, <2>5
    <3>. QED BY <3>1, <1>1
  <2>6. CASE v = w
    <3>1. job[v] \in DOMAIN stream /\ TaskOf(v) \in 1..used
      BY <2>2, <2>6, TaskOfCall
    <3>2. TaskOf(v)' = TaskOf(v) /\ stage'[v] = to /\ loaded'[v] = Expired
      BY <1>0, <2>1, <2>3, <2>4, <2>6 DEF TaskOf
    <3>3. status'[TaskOf(v)] # "none"
      BY <2>2, <2>6, <3>1 DEF RowsPersist
    <3>4. to = "publish" => TaskOf(v) \in ended'
      <4>1. ASSUME to = "publish" PROVE RefuseScore(w) \/ Complete(w)
        BY <1>0, <1>4, <2>3, <4>1 DEF Crawl, Analyze, StartScoring, Goes
      <4>2. ASSUME RefuseScore(w) \/ Complete(w)
            PROVE  \E s \in Terminal : SaveStatus(w, s)
        BY <4>2 DEF RefuseScore, Complete, Terminal
      <4>. QED BY <2>2, <2>6, <4>1, <4>2, SaveIsMove
    <3>. QED BY <2>1, <2>2, <2>6, <3>2, <3>3, <3>4 DEF CallHoldsRow, Expired, Terminal
  <2>. QED BY <2>5, <2>6
<1>5. ASSUME NEW w \in Workers, Reload(w) PROVE CallHoldsRow(v)'
  <2>1. /\ UNCHANGED <<wpc, job, stream, origin, status, ended, stage>>
        /\ stage[w] \in {"gate", "score"}
        /\ loaded' = [loaded EXCEPT ![w] = RowOf(TaskOf(w))]
    BY <1>5 DEF Reload, queueVars, redisVars, workerVars, auditVars
  <2>2. CASE v # w
    <3>1. Same
      BY <1>0, <2>1, <2>2
    <3>. QED BY <3>1, <1>1
  <2>3. CASE v = w
    <3>1. wpc[v] = "run" /\ status[TaskOf(v)] # "none"
      BY <2>1, <2>3 DEF PipelineInv, CallHoldsRow
    <3>2. TaskOf(v) \in Tasks /\ TaskOf(v)' = TaskOf(v)
      BY <2>1, <3>1, TaskOfCall DEF TaskOf
    <3>3. loaded'[v].status = status[TaskOf(v)]
      BY <1>0, <2>1, <2>3 DEF RowOf
    <3>4. status[TaskOf(v)] \in Terminal => TaskOf(v) \in ended
      BY <3>2 DEF PipelineInv, TerminalHasEnded
    <3>. QED BY <2>1, <2>3, <3>1, <3>2, <3>3, <3>4 DEF CallHoldsRow
  <2>. QED BY <2>2, <2>3
<1>6. ASSUME NEW w \in Workers,
             Publish(w) \/ Fail(w) \/ FailUnrecorded(w) \/ Killed(w)
      PROVE  CallHoldsRow(v)'
  <2>1. Leave(w)
    BY <1>6 DEF Publish, Fail, FailUnrecorded, Killed
  <2>2. CASE v # w
    <3>1. stage'[v] = stage[v] /\ loaded'[v] = loaded[v]
      BY <1>0, <2>1, <2>2 DEF Leave, Forget
    <3>2. wpc'[v] = wpc[v] /\ job'[v] = job[v]
      BY <1>0, <1>6, <2>2 DEF Publish, Fail, FailUnrecorded, Killed, JobReturns,
                              JobRaises, LeavePending, Crash
    <3>. QED BY <3>1, <3>2, <1>1
  <2>3. CASE v = w
    BY <1>0, <1>2, <2>1, <2>3 DEF Leave, Forget
  <2>. QED BY <2>2, <2>3
<1>7. ASSUME NEW w \in Workers, PollStep(w) \/ Ack(w) \/ AckFails(w) \/ Restart(w),
             UNCHANGED <<stage, loaded>>
      PROVE  CallHoldsRow(v)'
  <2>1. CASE v # w
    <3>1. Same
      BY <1>0, <1>7, <2>1 DEF PollStep, ReadJob, ReadNothing, Reclaim, SiftLive, SiftPoison,
                        Bury, Ack, AckFails, LeavePending, Restart
    <3>. QED BY <3>1, <1>1
  <2>2. CASE v = w
    <3>1. wpc[v] # "run"
      BY <1>7, <2>2 DEF PollStep, ReadJob, ReadNothing, Reclaim, SiftLive, SiftPoison,
                        Bury, Ack, AckFails, Restart
    <3>2. stage'[v] = "out" /\ loaded'[v] = Expired
      BY <1>7, <2>2, <3>1 DEF PipelineInv, CallHoldsRow
    <3>. QED BY <3>2, <1>2
  <2>. QED BY <2>1, <2>2
<1>8. CASE QueueStep
  <2>1. UNCHANGED <<stage, loaded>>
    BY <1>8 DEF QueueStep, processVars
  <2>2. CASE \E e \in Entries : GoIdle(e)
    BY <2>1, <2>2, <1>1 DEF GoIdle, workerVars
  <2>. QED BY <1>7, <1>8, <2>1, <2>2 DEF QueueStep
<1>9. ASSUME NEW c \in Clients, SubmitStep(c) PROVE Same
  BY <1>9 DEF SubmitStep, SubmitCheck, SubmitCommit, SubmitEnqueue, SubmitDies, Enqueue,
              queueVars, workerVars, processVars
<1>10. ASSUME NEW f \in Feeders, FeedStep(f) PROVE Same
  BY <1>10 DEF FeedStep, FeedOne, FeedCommit, FeedDies, Enqueue, queueVars, workerVars,
              processVars
<1>11. CASE (\E t \in Tasks : Review(t)) \/ UNCHANGED vars
  BY <1>11, <1>1 DEF Review, vars, queueVars, workerVars, processVars
<1>. QED
  BY <1>1, <1>3, <1>4, <1>5, <1>6, <1>8, <1>9, <1>10, <1>11 DEF Next, ProcessStep

\* A call of process returns only for an audit that has ended, or for one that
\* no user submitted.
LEMMA ReturnedStep ==
    ASSUME PipelineInv, [Next]_vars, RowsPersist
    PROVE  ReturnedHasEnded'
<1>1. ASSUME NEW e \in returned
      PROVE  /\ e \in DOMAIN stream'
             /\ origin'[stream'[e]] = "submit" => stream'[e] \in ended'
  BY DEF PipelineInv, ReturnedHasEnded, RowsPersist, SubmittedJobsHaveRows
<1>2. CASE UNCHANGED returned
  BY <1>1, <1>2 DEF ReturnedHasEnded
<1>3. ASSUME NEW w \in Workers, Publish(w) PROVE ReturnedHasEnded'
  <2>1. /\ returned' = returned \cup {job[w]} /\ wpc[w] = "run"
        /\ stage[w] \in {"publish", "leave"}
    BY <1>3 DEF Publish, JobReturns
  <2>2. job[w] \in DOMAIN stream /\ TaskOf(w) \in 1..used
    BY <2>1, TaskOfCall
  <2>3. TaskOf(w) \in ended \/ origin[TaskOf(w)] # "submit"
    BY <2>1 DEF PipelineInv, CallHoldsRow
  <2>4. /\ job[w] \in DOMAIN stream'
        /\ origin'[stream'[job[w]]] = "submit" => stream'[job[w]] \in ended'
    BY <2>2, <2>3 DEF RowsPersist, TaskOf
  <2>. QED BY <1>1, <2>1, <2>4 DEF ReturnedHasEnded
<1>4. ASSUME NEW w \in Workers, ProcessStep(w) \/ Killed(w), ~Publish(w)
      PROVE  UNCHANGED returned
  BY <1>4 DEF ProcessStep, Load, Crawl, Analyze, Reload, RefuseScore, StartScoring,
              Complete, Fail, FailUnrecorded, Killed, BeginJob, JobRaises, LeavePending, Crash,
              queueVars, histVars
<1>5. CASE QueueStep
  BY <1>5, <1>2 DEF QueueStep, GoIdle, PollStep, ReadJob, ReadNothing, Reclaim,
                    SiftLive, SiftPoison, Bury, Ack, AckFails, LeavePending, Restart,
                    histVars
<1>6. ASSUME NEW c \in Clients, SubmitStep(c) PROVE UNCHANGED returned
  BY <1>6 DEF SubmitStep, SubmitCheck, SubmitCommit, SubmitEnqueue, SubmitDies, Enqueue,
              queueVars, histVars
<1>7. ASSUME NEW f \in Feeders, FeedStep(f) PROVE UNCHANGED returned
  BY <1>7 DEF FeedStep, FeedOne, FeedCommit, FeedDies, Enqueue, queueVars, histVars
<1>8. CASE (\E t \in Tasks : Review(t)) \/ UNCHANGED vars
  BY <1>8, <1>2 DEF Review, vars, queueVars, histVars
<1>. QED BY <1>2, <1>3, <1>4, <1>5, <1>6, <1>7, <1>8 DEF Next

\* The invariant of the pipeline is inductive.
LEMMA PipelineInvStep == PipelineInv /\ [Next]_vars => PipelineInv'
<1>. SUFFICES ASSUME PipelineInv, [Next]_vars PROVE PipelineInv'
  OBVIOUS
<1>1. QueueInv' /\ TypeOK' /\ RowInv'
  BY QueueInvKept, TypeStep, RowStep
<1>2. ReturnedHasEnded' /\ \A w \in Workers : CallHoldsRow(w)'
  BY RowsPersistStep, CallStep, ReturnedStep
<1>. QED BY <1>1, <1>2 DEF PipelineInv, RowInv

-------------------------------------------------------------------------------
(***************************************************************************)
(* The attempts: who writes an audit, and how often.                       *)
(***************************************************************************)

\* A delivery or a call that was made stays made.
LEMMA CountsGrow ==
    ASSUME QueueInv, CutoffInv, [QueueNext]_queueVars, NEW e \in Entries
    PROVE  deliveries[e] <= deliveries'[e] /\ attempts[e] <= attempts'[e]
<1>. USE QueueAssumption DEF QueueInv, QueueTypeOK
<1>0. deliveries[e] \in Nat /\ attempts[e] \in Nat
  OBVIOUS
<1>1. ASSUME NEW w \in Workers, ReadJob(w)
      PROVE  deliveries[e] <= deliveries'[e] /\ attempts'[e] = attempts[e]
  <2>1. /\ cursor + 1 \in Entries
        /\ deliveries' = [deliveries EXCEPT ![cursor + 1] = 1]
        /\ attempts' = attempts
    BY <1>1 DEF ReadJob, OnlyDelivered, Entries, histVars
  <2>2. deliveries[cursor + 1] = 0
    BY <2>1 DEF CutoffInv
  <2>. QED BY <1>0, <2>1, <2>2
<1>2. ASSUME NEW w \in Workers, Reclaim(w)
      PROVE  deliveries[e] <= deliveries'[e] /\ attempts'[e] = attempts[e]
  BY <1>0, <1>2 DEF Reclaim, histVars
<1>3. ASSUME NEW w \in Workers, BeginJob(w)
      PROVE  deliveries'[e] = deliveries[e] /\ attempts[e] <= attempts'[e]
  BY <1>0, <1>3 DEF BeginJob, redisVars
<1>4. ASSUME NEW w \in Workers,
             \/ ReadNothing(w) \/ SiftLive(w) \/ SiftPoison(w) \/ Bury(w)
             \/ JobReturns(w) \/ JobRaises(w) \/ AckFails(w) \/ Ack(w)
             \/ Crash(w) \/ Restart(w)
      PROVE  UNCHANGED <<deliveries, attempts>>
  BY <1>4 DEF ReadNothing, SiftLive, SiftPoison, Bury, JobReturns, JobRaises, AckFails,
              LeavePending, Ack, Crash, Restart, redisVars, histVars
<1>5. CASE \/ \E t \in Tasks : Enqueue(t)
           \/ \E f \in Entries : GoIdle(f)
           \/ UNCHANGED queueVars
  BY <1>0, <1>5 DEF Enqueue, GoIdle, queueVars, redisVars, histVars
<1>6. ASSUME UNCHANGED <<deliveries, attempts>>
      PROVE  deliveries[e] <= deliveries'[e] /\ attempts[e] <= attempts'[e]
  BY <1>0, <1>6
<1>. HIDE DEF QueueInv, QueueTypeOK
<1>. QED BY <1>0, <1>1, <1>2, <1>3, <1>4, <1>5, <1>6
         DEF QueueNext, WorkerStep, PollStep, HandleStep

\* An audit that was delivered again, or called for, stays so.
LEMMA PastStays ==
    ASSUME PipelineInv, AttemptInv, [Next]_vars, RowsPersist, NEW t \in Tasks
    PROVE  /\ DeliveredAgain(t) => DeliveredAgain(t)'
           /\ Untouched(t)' => Untouched(t)
           /\ EntriesOf(t) \subseteq EntriesOf(t)'
<1>1. ASSUME NEW e \in DOMAIN stream PROVE
        /\ e \in Entries /\ e \in DOMAIN stream' /\ stream'[e] = stream[e]
        /\ deliveries[e] \in Nat /\ deliveries[e] <= deliveries'[e]
        /\ deliveries'[e] \in Nat
        /\ attempts[e] \in Nat /\ attempts[e] <= attempts'[e]
  <2>1. e \in Entries
    BY QueueAssumption DEF PipelineInv, QueueInv, QueueTypeOK, OnlyDelivered, Entries
  <2>2. deliveries[e] <= deliveries'[e] /\ attempts[e] <= attempts'[e]
    BY <2>1, QueueClientStep, CountsGrow DEF PipelineInv, AttemptInv
  <2>3. deliveries'[e] \in Nat
    BY <2>1, QueueInvKept DEF QueueInv, QueueTypeOK
  <2>4. deliveries[e] \in Nat /\ attempts[e] \in Nat
    BY <2>1 DEF PipelineInv, QueueInv, QueueTypeOK
  <2>. QED BY <2>1, <2>2, <2>3, <2>4 DEF RowsPersist
<1>2. EntriesOf(t) \subseteq EntriesOf(t)'
  BY <1>1 DEF EntriesOf
<1>3. ASSUME DeliveredAgain(t) PROVE DeliveredAgain(t)'
  BY <1>1, <1>3 DEF DeliveredAgain
<1>4. ASSUME Untouched(t)' PROVE Untouched(t)
  <2>1. ASSUME NEW e \in EntriesOf(t) PROVE attempts[e] = 0
    <3>1. attempts'[e] = 0 /\ e \in DOMAIN stream
      BY <1>2, <1>4, <2>1 DEF Untouched, EntriesOf
    <3>. QED BY <1>1, <3>1
  <2>. QED BY <2>1 DEF Untouched
<1>. QED BY <1>2, <1>3, <1>4

\* The audit of a call of process has one entry, and was called for.
LEMMA CalledFor ==
    ASSUME PipelineInv, AttemptInv, NEW w \in Workers, stage[w] # "out"
    PROVE  /\ wpc[w] = "run" /\ job[w] \in DOMAIN stream /\ job[w] \in Entries
           /\ TaskOf(w) \in Tasks /\ TaskOf(w) \in 1..used
           /\ w \in Working(job[w])
           /\ attempts[job[w]] >= 1
           /\ ~Untouched(TaskOf(w))
<1>1. wpc[w] = "run"
  BY DEF PipelineInv, CallHoldsRow
<1>2. /\ job[w] \in DOMAIN stream /\ TaskOf(w) \in 1..used /\ TaskOf(w) \in Tasks
  BY <1>1, TaskOfCall
<1>3. job[w] \in Entries
  BY <1>2, QueueAssumption DEF PipelineInv, QueueInv, QueueTypeOK, OnlyDelivered, Entries
<1>4. w \in Working(job[w]) /\ Working(job[w]) \subseteq Workers
  BY DEF Working
<1>5. Cardinality(Working(job[w])) \in Nat /\ Cardinality(Working(job[w])) # 0
  <2>1. Cardinality(Working(job[w])) \in Nat /\ IsFiniteSet(Working(job[w]))
    BY <1>4, WorkersCount
  <2>. QED BY <1>4, <2>1, FS_EmptySet
<1>6. attempts[job[w]] \in Nat
  BY <1>3 DEF PipelineInv, QueueInv, QueueTypeOK
<1>7. attempts[job[w]] >= 1
  <2>1. Cardinality(Working(job[w])) <= attempts[job[w]]
    BY <1>3 DEF AttemptInv, CallsWithinAttempts
  <2>. QED BY <1>5, <1>6, <2>1
<1>8. ~Untouched(TaskOf(w))
  BY <1>2, <1>6, <1>7 DEF Untouched, EntriesOf, TaskOf
<1>. QED BY <1>1, <1>2, <1>3, <1>4, <1>7, <1>8

\* Without a second delivery, an audit has one call of process.
LEMMA SoleCall ==
    ASSUME PipelineInv, AttemptInv,
           NEW v \in Workers, stage[v] # "out", NEW w \in Workers, stage[w] # "out",
           TaskOf(v) = TaskOf(w), ~DeliveredAgain(TaskOf(w))
    PROVE  v = w
<1>1. /\ job[v] \in DOMAIN stream /\ job[w] \in DOMAIN stream /\ job[w] \in Entries
      /\ v \in Working(job[v]) /\ w \in Working(job[w])
  BY CalledFor
<1>2. job[v] = job[w]
  BY <1>1 DEF AttemptInv, OneJobEach, TaskOf
<1>3. deliveries[job[w]] \in Nat /\ attempts[job[w]] \in Nat
  BY <1>1 DEF PipelineInv, QueueInv, QueueTypeOK
<1>4. deliveries[job[w]] <= 1
  BY <1>1, <1>3 DEF DeliveredAgain, TaskOf
<1>5. attempts[job[w]] <= 1
  <2>1. PaidFor(job[w])
    BY <1>1 DEF AttemptInv, CutoffInv
  <2>2. /\ Cardinality(Holders(job[w])) \in Nat
        /\ Cardinality(Claimants(job[w])) \in Nat
    BY WorkersCount DEF Holders, Claimants
  <2>. QED BY <1>3, <1>4, <2>1, <2>2 DEF PaidFor
<1>6. Cardinality(Working(job[w])) <= 1
  <2>1. Cardinality(Working(job[w])) <= attempts[job[w]]
    BY <1>1 DEF AttemptInv, CallsWithinAttempts
  <2>2. Cardinality(Working(job[w])) \in Nat
    BY WorkersCount DEF Working
  <2>. QED BY <1>3, <1>5, <2>1, <2>2
<1>7. ASSUME v # w PROVE FALSE
  <2>1. Working(job[w]) \subseteq Workers
    BY DEF Working
  <2>2. Cardinality(Working(job[w]) \ {v}) = Cardinality(Working(job[w])) - 1
    BY <1>1, <1>2, <2>1, WorkersCount
  <2>3. Working(job[w]) \ {v} \subseteq Workers /\ w \in Working(job[w]) \ {v}
    BY <1>1, <1>7, <2>1
  <2>4. Cardinality((Working(job[w]) \ {v}) \ {w})
          = Cardinality(Working(job[w]) \ {v}) - 1
    BY <2>3, WorkersCount
  <2>5. Cardinality((Working(job[w]) \ {v}) \ {w}) \in Nat
    BY <2>1, WorkersCount
  <2>6. Cardinality(Working(job[w])) \in Nat
    BY <2>1, WorkersCount
  <2>. QED BY <1>6, <2>2, <2>4, <2>5, <2>6
<1>. QED BY <1>7

\* The steps of a call of process that write its audit.
Writes(w) ==
    \/ Crawl(w) \/ Analyze(w) \/ RefuseScore(w) \/ StartScoring(w)
    \/ Complete(w) \/ Fail(w)

\* A new audit has the next number; no row, job or call has it yet.
LEMMA NewAuditIsNew ==
    ASSUME PipelineInv, NEW t, NEW d, NEW who, NewAudit(t, d, who)
    PROVE  /\ t \in Tasks /\ t \notin 1..used /\ used \in Nat
           /\ status[t] = "none" /\ EntriesOf(t) = {}
<1>1. t \in Tasks /\ t = used + 1 /\ used \in Nat
  BY DEF NewAudit, PipelineInv, TypeOK
<1>2. t \notin 1..used /\ t > used
  BY <1>1
<1>3. status[t] = "none"
  BY <1>1, <1>2 DEF PipelineInv, RowsNumbered
<1>4. EntriesOf(t) = {}
  BY <1>2 DEF PipelineInv, SubmittedJobsHaveRows, EntriesOf
<1>. QED BY <1>1, <1>2, <1>3, <1>4

\* Whoever changes the status, the verdict's method or the results of an audit
\* creates it, reviews it, or works on it.
LEMMA WhoWrites ==
    ASSUME PipelineInv, AttemptInv, [Next]_vars, NEW t \in Tasks
    PROVE  \/ UNCHANGED <<status[t], method[t], results[t]>>
           \/ /\ status[t] = "none" /\ status'[t] = "queued"
              /\ UNCHANGED <<method[t], results[t]>>
           \/ /\ status[t] = "completed" /\ method'[t] = "expert_reviewed"
              /\ UNCHANGED <<status[t], results[t]>>
           \/ \E w \in Workers : Writes(w) /\ TaskOf(w) = t
<1>. USE DEF PipelineInv, TypeOK
<1>1. ASSUME NEW c \in Clients, SubmitStep(c)
      PROVE  \/ UNCHANGED <<status[t], method[t], results[t]>>
             \/ /\ status[t] = "none" /\ status'[t] = "queued"
                /\ UNCHANGED <<method[t], results[t]>>
  <2>1. CASE SubmitCommit(c)
    <3>1. PICK u \in Tasks : /\ NewAudit(u, cdom[c], "submit")
                             /\ status' = [status EXCEPT ![u] = "queued"]
      BY <2>1 DEF SubmitCommit
    <3>2. status[u] = "none"
      BY <3>1, NewAuditIsNew
    <3>. QED BY <2>1, <3>1, <3>2 DEF SubmitCommit
  <2>2. CASE ~SubmitCommit(c)
    BY <1>1, <2>2 DEF SubmitStep, SubmitCheck, SubmitEnqueue, SubmitDies, auditVars
  <2>. QED BY <2>1, <2>2
<1>2. ASSUME NEW f \in Feeders, FeedStep(f)
      PROVE  \/ UNCHANGED <<status[t], method[t], results[t]>>
             \/ /\ status[t] = "none" /\ status'[t] = "queued"
                /\ UNCHANGED <<method[t], results[t]>>
  <2>1. CASE FeedCommit(f)
    <3>1. t \in flushed[f] => status[t] = "none"
      BY DEF AttemptInv, OneJobEach
    <3>2. status'[t] = IF t \in flushed[f] THEN "queued" ELSE status[t]
      BY <2>1 DEF FeedCommit
    <3>. QED BY <2>1, <3>1, <3>2 DEF FeedCommit
  <2>2. CASE ~FeedCommit(f)
    BY <1>2, <2>2 DEF FeedStep, FeedOne, FeedDies, auditVars
  <2>. QED BY <2>1, <2>2
<1>3. ASSUME NEW w \in Workers, ProcessStep(w) \/ Killed(w), ~Writes(w)
      PROVE  UNCHANGED <<status[t], method[t], results[t]>>
  BY <1>3 DEF ProcessStep, Writes, Load, Reload, Publish, FailUnrecorded, Killed, auditVars
<1>4. ASSUME NEW w \in Workers, Writes(w), TaskOf(w) # t
      PROVE  UNCHANGED <<status[t], method[t], results[t]>>
  <2>1. status'[t] = status[t]
    BY <1>4 DEF Writes, Crawl, Analyze, RefuseScore, StartScoring, Complete, Fail,
                SaveStatus, SetStatus
  <2>2. method'[t] = method[t] /\ results'[t] = results[t]
    BY <1>4 DEF Writes, Crawl, Analyze, RefuseScore, StartScoring, Complete, Fail,
                SaveMethod, AddResults
  <2>. QED BY <2>1, <2>2
<1>5. CASE QueueStep \/ UNCHANGED vars
  BY <1>5 DEF QueueStep, vars, auditVars
<1>6. ASSUME NEW u \in Tasks, Review(u)
      PROVE  \/ UNCHANGED <<status[t], method[t], results[t]>>
             \/ /\ status[t] = "completed" /\ method'[t] = "expert_reviewed"
                /\ UNCHANGED <<status[t], results[t]>>
  BY <1>6 DEF Review
<1>. QED BY <1>1, <1>2, <1>3, <1>4, <1>5, <1>6 DEF Next

\* What the only call of process that works on an audit makes of it: the next
\* status of the lifecycle.
LEMMA CallFollowsLifecycle ==
    ASSUME PipelineInv, AttemptInv, NEW w \in Workers, Writes(w),
           ~DeliveredAgain(TaskOf(w))
    PROVE  /\ stage[w] \in Unfinished \cup {"publish"}
           /\ stage[w] \in Unfinished =>
                /\ status[TaskOf(w)] \in Active
                /\ <<status[TaskOf(w)], status'[TaskOf(w)]>> \in Lifecycle
           /\ stage[w] = "publish" =>
                /\ status'[TaskOf(w)] = "failed"
                /\ UNCHANGED method /\ UNCHANGED results
           /\ stage'[w] \in Unfinished =>
                /\ <<stage'[w], status'[TaskOf(w)]>> \in StatusAt
                /\ loaded'[w] = Expired
<1>. DEFINE t == TaskOf(w)
            old == status[t]
            new == status'[t]
            row == loaded[w].status
<1>0. /\ stage \in [Workers -> Stages] /\ status \in [Tasks -> Statuses]
      /\ loaded \in [Workers -> Columns]
  BY DEF PipelineInv, TypeOK
<1>1. stage[w] \in Unfinished \cup {"publish"}
  BY DEF Writes, Crawl, Analyze, RefuseScore, StartScoring, Complete, Fail, Goes, Unfinished
<1>2. t \in Tasks
  BY <1>1, CalledFor DEF Unfinished
<1>3. ASSUME NEW s, SaveStatus(w, s) PROVE new = Written(row, s, old)
  BY <1>0, <1>2, <1>3 DEF SaveStatus, SetStatus
<1>4. stage[w] \in Unfinished =>
        /\ <<stage[w], old>> \in StatusAt
        /\ loaded[w] # Expired => row = old
  BY DEF AttemptInv, OnlyCallWrites
<1>5. loaded[w] = Expired => row = "none"
  BY DEF Expired
<1>6. stage[w] = "publish" => loaded[w] = Expired
  BY DEF PipelineInv, CallHoldsRow
<1>7. CASE Crawl(w)
  <2>1. stage[w] = "crawl" /\ stage'[w] = "engine" /\ loaded'[w] = Expired
    BY <1>0, <1>7 DEF Crawl, Goes, Forget
  <2>2. old = "queued"
    BY <1>4, <2>1 DEF Unfinished, StatusAt
  <2>3. row \in {"none", "queued"}
    BY <1>4, <1>5, <2>1, <2>2 DEF Unfinished
  <2>4. new = "crawling"
    BY <1>3, <1>7, <2>3 DEF Crawl, Written
  <2>. QED BY <2>1, <2>2, <2>4 DEF Unfinished, Active, Lifecycle, StatusAt
<1>8. CASE Analyze(w)
  <2>1. stage[w] = "engine" /\ stage'[w] = "gate" /\ loaded'[w] = loaded[w]
    BY <1>0, <1>8 DEF Analyze, Goes
  <2>2. old = "crawling" /\ loaded[w] = Expired
    BY <1>4, <2>1 DEF Unfinished, StatusAt, PipelineInv, CallHoldsRow
  <2>3. new = "analyzing"
    BY <1>0, <1>2, <1>8 DEF Analyze, SetStatus
  <2>. QED BY <2>1, <2>2, <2>3 DEF Unfinished, Active, Lifecycle, StatusAt
<1>9. CASE StartScoring(w) \/ RefuseScore(w)
  <2>1. stage[w] = "gate" /\ loaded[w] # Expired /\ loaded'[w] = Expired
    BY <1>0, <1>9 DEF StartScoring, RefuseScore, Goes, Forget
  <2>2. old = "analyzing" /\ row = "analyzing"
    BY <1>4, <2>1 DEF Unfinished, StatusAt
  <2>3. \/ stage'[w] = "score" /\ new = "scoring"
        \/ stage'[w] = "publish" /\ new = "insufficient_evidence"
    BY <1>0, <1>3, <1>9, <2>2 DEF StartScoring, RefuseScore, Goes, Written
  <2>. QED BY <2>1, <2>2, <2>3 DEF Unfinished, Active, Lifecycle, StatusAt
<1>10. CASE Complete(w)
  <2>1. stage[w] = "score" /\ loaded[w] # Expired /\ stage'[w] = "publish"
    BY <1>0, <1>10 DEF Complete, Goes
  <2>2. old = "scoring" /\ row = "scoring"
    BY <1>4, <2>1 DEF Unfinished, StatusAt
  <2>3. new = "completed"
    BY <1>3, <1>10, <2>2 DEF Complete, Written
  <2>. QED BY <2>1, <2>2, <2>3 DEF Unfinished, Active, Lifecycle
<1>11. CASE Fail(w)
  <2>1. /\ stage[w] \in {"engine", "gate", "score", "publish"}
        /\ stage'[w] = "out"
    BY <1>0, <1>11 DEF Fail, Leave
  <2>2. stage[w] # "publish" => old \in {"crawling", "analyzing", "scoring"}
    BY <1>4, <2>1 DEF Unfinished, StatusAt
  <2>3. stage[w] # "publish" => row \in {"none", old}
    BY <1>4, <1>5, <2>1 DEF Unfinished
  <2>4. row # "failed"
    BY <1>5, <1>6, <2>1, <2>2, <2>3
  <2>5. new = "failed"
    BY <1>3, <1>11, <2>4 DEF Fail, Written
  <2>6. stage[w] = "publish" => UNCHANGED method /\ UNCHANGED results
    BY <1>11 DEF Fail
  <2>. QED BY <2>1, <2>2, <2>5, <2>6 DEF Unfinished, Active, Lifecycle
<1>. QED BY <1>1, <1>7, <1>8, <1>9, <1>10, <1>11 DEF Writes

-------------------------------------------------------------------------------
(***************************************************************************)
(* Every step keeps the invariant of the attempts.                         *)
(***************************************************************************)

\* The state reached by Init satisfies it.
LEMMA AttemptInit == Init => AttemptInv
<1>. SUFFICES ASSUME Init PROVE AttemptInv
  OBVIOUS
<1>1. CutoffInv
  BY CutoffInit DEF Init
<1>2. stream = <<>> /\ \A w \in Workers : stage[w] = "out"
  BY DEF Init, QueueInit
<1>3. CallsWithinAttempts
  <2>1. \A e \in Entries : Working(e) = {} /\ attempts[e] = 0
    BY <1>2 DEF Working, Init, QueueInit
  <2>2. \A e \in Entries : Cardinality(Working(e)) <= attempts[e]
    BY <2>1, FS_EmptySet
  <2>3. DOMAIN stream = {}
    BY <1>2
  <2>. QED BY <2>2, <2>3 DEF CallsWithinAttempts
<1>4. OneJobEach
  BY <1>2 DEF Init, OneJobEach
<1>5. UntouchedIsNew /\ ReviewedIsOver
  BY DEF Init, UntouchedIsNew, ReviewedIsOver
<1>6. \A w \in Workers : OnlyCallWrites(w)
  BY <1>2 DEF OnlyCallWrites, Unfinished
<1>. QED BY <1>1, <1>3, <1>4, <1>5, <1>6 DEF AttemptInv

\* No call of process starts, changes its job or has more to persist.
CallsShrink ==
    \A w \in Workers : stage'[w] # "out" =>
        /\ stage[w] # "out" /\ job'[w] = job[w]
        /\ stage'[w] \in Unfinished => stage[w] \in Unfinished

\* Only Load starts a call.
LEMMA OnlyLoadStarts ==
    ASSUME PipelineInv, [Next]_vars, ~\E w \in Workers : Load(w)
    PROVE  CallsShrink
<1>0. /\ stage \in [Workers -> Stages] /\ job \in [Workers -> 0..MaxJobs]
  BY DEF PipelineInv, TypeOK, QueueTypeOK
<1>1. ASSUME UNCHANGED <<stage, job>> PROVE CallsShrink
  BY <1>1 DEF CallsShrink
<1>2. ASSUME NEW w \in Workers,
             \/ Crawl(w) \/ Analyze(w) \/ Reload(w) \/ RefuseScore(w)
             \/ StartScoring(w) \/ Complete(w)
      PROVE  CallsShrink
  <2>1. UNCHANGED job
    BY <1>2 DEF Crawl, Analyze, Reload, RefuseScore, StartScoring, Complete, queueVars,
                workerVars
  <2>2. \/ UNCHANGED stage
        \/ stage[w] \in Unfinished /\ \E to : stage' = [stage EXCEPT ![w] = to]
    BY <1>2 DEF Crawl, Analyze, Reload, RefuseScore, StartScoring, Complete, Goes,
                Unfinished
  <2>. QED BY <1>0, <2>1, <2>2 DEF CallsShrink, Unfinished
<1>3. ASSUME NEW w \in Workers,
             \/ Publish(w) \/ Fail(w) \/ FailUnrecorded(w) \/ Killed(w)
      PROVE  CallsShrink
  <2>1. stage' = [stage EXCEPT ![w] = "out"]
    BY <1>3 DEF Publish, Fail, FailUnrecorded, Killed, Leave
  <2>2. UNCHANGED job \/ job' = [job EXCEPT ![w] = 0]
    BY <1>3 DEF Publish, Fail, FailUnrecorded, Killed, JobReturns, JobRaises,
                LeavePending, Crash
  <2>. QED BY <1>0, <2>1, <2>2 DEF CallsShrink
<1>4. ASSUME NEW w \in Workers, PollStep(w) \/ Ack(w) \/ AckFails(w) \/ Restart(w),
             UNCHANGED stage
      PROVE  CallsShrink
  <2>1. wpc[w] # "run"
    BY <1>4 DEF PollStep, ReadJob, ReadNothing, Reclaim, SiftLive, SiftPoison, Bury, Ack,
                AckFails, Restart
  <2>2. stage[w] = "out"
    BY <2>1 DEF PipelineInv, CallHoldsRow
  <2>3. \A v \in Workers : v # w => job'[v] = job[v]
    BY <1>0, <1>4 DEF PollStep, ReadJob, ReadNothing, Reclaim, SiftLive, SiftPoison, Bury,
                Ack, AckFails, LeavePending, Restart
  <2>. QED BY <1>4, <2>2, <2>3 DEF CallsShrink
<1>5. CASE QueueStep
  <2>1. UNCHANGED stage
    BY <1>5 DEF QueueStep, processVars
  <2>2. CASE \E e \in Entries : GoIdle(e)
    BY <1>1, <2>1, <2>2 DEF GoIdle, workerVars
  <2>. QED BY <1>4, <1>5, <2>1, <2>2 DEF QueueStep
<1>6. ASSUME NEW c \in Clients, SubmitStep(c) PROVE UNCHANGED <<stage, job>>
  BY <1>6 DEF SubmitStep, SubmitCheck, SubmitCommit, SubmitEnqueue, SubmitDies, Enqueue,
              queueVars, workerVars, processVars
<1>7. ASSUME NEW f \in Feeders, FeedStep(f) PROVE UNCHANGED <<stage, job>>
  BY <1>7 DEF FeedStep, FeedOne, FeedCommit, FeedDies, Enqueue, queueVars, workerVars,
              processVars
<1>8. CASE (\E t \in Tasks : Review(t)) \/ UNCHANGED vars
  BY <1>1, <1>8 DEF Review, vars, queueVars, workerVars, processVars
<1>. QED BY <1>1, <1>2, <1>3, <1>5, <1>6, <1>7, <1>8 DEF Next, ProcessStep

\* The calls for an entry, and their results to come, do not grow with it.
LEMMA ShrinkCounts ==
    ASSUME PipelineInv, CallsShrink, NEW e
    PROVE  Working(e)' \subseteq Working(e) /\ Unsaved(e)' \subseteq Unsaved(e)
BY DEF CallsShrink, Working, Unsaved

\* Only Enqueue adds a job; what it adds is an audit that has none.
LEMMA OnlyEnqueueAdds ==
    ASSUME PipelineInv, AttemptInv, [Next]_vars
    PROVE  \/ UNCHANGED stream
           \/ \E t \in Tasks :
                /\ Enqueue(t) /\ EntriesOf(t) = {}
                /\ UNCHANGED <<results, stage>>
<1>1. ASSUME NEW c \in Clients, SubmitEnqueue(c)
      PROVE  \E t \in Tasks :
                /\ Enqueue(t) /\ EntriesOf(t) = {} /\ UNCHANGED <<results, stage>>
  <2>1. ctask[c] \in Tasks /\ EntriesOf(ctask[c]) = {}
    BY <1>1, QueueAssumption, PipelineAssumption
       DEF SubmitEnqueue, AttemptInv, OneJobEach, PipelineInv, TypeOK, RequestsHoldRows,
           Entries
  <2>. QED BY <1>1, <2>1 DEF SubmitEnqueue, auditVars, processVars
<1>2. ASSUME NEW c \in Clients, SubmitStep(c), ~SubmitEnqueue(c) PROVE UNCHANGED stream
  BY <1>2 DEF SubmitStep, SubmitCheck, SubmitCommit, SubmitDies, queueVars, redisVars
<1>3. ASSUME NEW f \in Feeders, NEW d \in Domains, FeedOne(f, d)
      PROVE  \E t \in Tasks :
                /\ Enqueue(t) /\ EntriesOf(t) = {} /\ UNCHANGED <<results, stage>>
  <2>1. PICK t \in Tasks : NewAudit(t, d, f) /\ Enqueue(t)
    BY <1>3 DEF FeedOne
  <2>2. EntriesOf(t) = {}
    BY <2>1, NewAuditIsNew
  <2>. QED BY <1>3, <2>1, <2>2 DEF FeedOne, processVars
<1>4. ASSUME NEW f \in Feeders, FeedCommit(f) \/ FeedDies(f) PROVE UNCHANGED stream
  BY <1>4 DEF FeedCommit, FeedDies, queueVars, redisVars
<1>5. CASE \/ \E w \in Workers : ProcessStep(w) \/ Killed(w)
           \/ QueueStep \/ (\E t \in Tasks : Review(t)) \/ UNCHANGED vars
  BY <1>5, WorkersMoveOneAudit DEF MovesOneAudit
<1>. QED BY <1>1, <1>2, <1>3, <1>4, <1>5 DEF Next, SubmitStep, FeedStep

\* Results are persisted by a call that has not done so, which has nothing to
\* persist after it.
LEMMA ResultsGrow ==
    ASSUME PipelineInv, AttemptInv, [Next]_vars
    PROVE  \/ UNCHANGED results
           \/ \E w \in Workers :
                /\ stage[w] \in Unfinished /\ stage'[w] \notin Unfinished
                /\ AddResults(w) /\ UNCHANGED stream
<1>1. ASSUME NEW w \in Workers, Writes(w), results' # results
      PROVE  /\ stage[w] \in Unfinished /\ stage'[w] \notin Unfinished
             /\ AddResults(w) /\ UNCHANGED stream
  <2>1. RefuseScore(w) \/ Complete(w) \/ Fail(w)
    BY <1>1 DEF Writes, Crawl, Analyze, StartScoring
  <2>2. stage[w] \in Unfinished /\ AddResults(w)
    BY <1>1, <2>1 DEF RefuseScore, Complete, Fail, Goes, Unfinished
  <2>3. stage \in [Workers -> Stages]
    BY DEF PipelineInv, TypeOK
  <2>4. stage'[w] \in {"publish", "out"}
    BY <2>1, <2>3 DEF RefuseScore, Complete, Fail, Goes, Leave
  <2>5. UNCHANGED stream
    BY <2>1 DEF RefuseScore, Complete, Fail, JobRaises, LeavePending, queueVars, redisVars
  <2>. QED BY <2>2, <2>4, <2>5 DEF Unfinished
<1>2. ASSUME NEW w \in Workers, ProcessStep(w) \/ Killed(w), ~Writes(w)
      PROVE  UNCHANGED results
  BY <1>2 DEF ProcessStep, Writes, Load, Reload, Publish, FailUnrecorded, Killed, auditVars
<1>3. ASSUME NEW c \in Clients, SubmitStep(c) PROVE UNCHANGED results
  BY <1>3 DEF SubmitStep, SubmitCheck, SubmitCommit, SubmitEnqueue, SubmitDies, auditVars
<1>4. ASSUME NEW f \in Feeders, FeedStep(f) PROVE UNCHANGED results
  BY <1>4 DEF FeedStep, FeedOne, FeedCommit, FeedDies, auditVars
<1>5. CASE QueueStep \/ (\E t \in Tasks : Review(t)) \/ UNCHANGED vars
  BY <1>5 DEF QueueStep, Review, vars, auditVars
<1>. QED BY <1>1, <1>2, <1>3, <1>4, <1>5 DEF Next

\* The calls and results of every entry stay within its attempts.
LEMMA CallsStep ==
    ASSUME PipelineInv, AttemptInv, [Next]_vars, RowsPersist
    PROVE  CallsWithinAttempts'
<1>. USE QueueAssumption, PipelineAssumption
<1>0. /\ \A e \in Entries : attempts[e] \in Nat /\ attempts'[e] \in Nat
      /\ \A t \in Tasks : results[t] \in Nat /\ results'[t] \in Nat
      /\ stream \in Seq(Tasks) /\ stream' \in Seq(Tasks)
      /\ DOMAIN stream \subseteq Entries /\ DOMAIN stream' \subseteq Entries
      /\ stage \in [Workers -> Stages] /\ job \in [Workers -> 0..MaxJobs]
  <2>1. QueueInv /\ QueueInv' /\ TypeOK /\ TypeOK'
    BY QueueInvKept, TypeStep DEF PipelineInv
  <2>2. /\ attempts \in [Entries -> Nat] /\ attempts' \in [Entries -> Nat]
        /\ results \in [Tasks -> Nat] /\ results' \in [Tasks -> Nat]
        /\ stage \in [Workers -> Stages] /\ job \in [Workers -> 0..MaxJobs]
    BY <2>1 DEF TypeOK, QueueInv, QueueTypeOK
  <2>3. /\ stream \in Seq(Tasks) /\ stream' \in Seq(Tasks)
        /\ Len(stream) <= MaxJobs /\ Len(stream') <= MaxJobs
    BY <2>1 DEF QueueInv, QueueTypeOK, OnlyDelivered
  <2>4. DOMAIN stream \subseteq Entries /\ DOMAIN stream' \subseteq Entries
    BY <2>3 DEF Entries
  <2>. QED BY <2>2, <2>3, <2>4
<1>1. \A e \in Entries : attempts[e] <= attempts'[e]
  BY QueueClientStep, CountsGrow DEF PipelineInv, AttemptInv
<1>2. \A e : /\ Working(e) \subseteq Workers /\ Unsaved(e) \subseteq Working(e)
             /\ Working(e)' \subseteq Workers /\ Unsaved(e)' \subseteq Working(e)'
  BY DEF Working, Unsaved
<1>3. \A e : /\ Cardinality(Working(e)) \in Nat /\ Cardinality(Working(e)') \in Nat
             /\ Cardinality(Unsaved(e)) \in Nat /\ Cardinality(Unsaved(e)') \in Nat
             /\ Cardinality(Unsaved(e)') <= Cardinality(Working(e)')
  BY <1>2, WorkersCount
<1>4. \A e \in Entries : Cardinality(Working(e)) <= attempts[e]
  BY DEF AttemptInv, CallsWithinAttempts
<1>5. \A e \in DOMAIN stream :
         results[stream[e]] + Cardinality(Unsaved(e)) <= attempts[e]
  BY DEF AttemptInv, CallsWithinAttempts
<1>6. ASSUME NEW w \in Workers, Load(w) PROVE CallsWithinAttempts'
  <2>1. PICK n \in batch[w] : /\ job' = [job EXCEPT ![w] = n]
                              /\ attempts' = [attempts EXCEPT ![n] = @ + 1]
    BY <1>6 DEF Load, BeginJob
  <2>2. n \in Entries /\ UNCHANGED <<stream, results>>
    BY <1>6, <2>1 DEF Load, BeginJob, redisVars, auditVars, PipelineInv, QueueInv, QueueTypeOK
  <2>3. stage[w] = "out" /\ \E to : stage' = [stage EXCEPT ![w] = to]
    BY <1>6 DEF Load, Goes
  <2>4. /\ Working(n)' \subseteq Working(n) \cup {w}
        /\ Unsaved(n)' \subseteq Unsaved(n) \cup {w}
    BY <1>0, <2>1, <2>3 DEF Working, Unsaved
  <2>5. ASSUME NEW e \in Entries, e # n
        PROVE  Working(e)' \subseteq Working(e) /\ Unsaved(e)' \subseteq Unsaved(e)
    BY <1>0, <2>1, <2>3, <2>5 DEF Working, Unsaved
  <2>6. attempts'[n] = attempts[n] + 1
    BY <2>1, <2>2 DEF PipelineInv, QueueInv, QueueTypeOK
  <2>7. /\ Cardinality(Working(n)') <= Cardinality(Working(n)) + 1
        /\ Cardinality(Unsaved(n)') <= Cardinality(Unsaved(n)) + 1
    <3>1. /\ Working(n) \cup {w} \subseteq Workers
          /\ Unsaved(n) \cup {w} \subseteq Workers
          /\ Unsaved(n) \subseteq Workers
      BY <1>2
    <3>2. /\ Cardinality(Working(n)') <= Cardinality(Working(n) \cup {w})
          /\ Cardinality(Unsaved(n)') <= Cardinality(Unsaved(n) \cup {w})
      BY <2>4, <3>1, WorkersCount
    <3>3. /\ Cardinality(Working(n) \cup {w}) <= Cardinality(Working(n)) + 1
          /\ Cardinality(Unsaved(n) \cup {w}) <= Cardinality(Unsaved(n)) + 1
          /\ Cardinality(Working(n) \cup {w}) \in Nat
          /\ Cardinality(Unsaved(n) \cup {w}) \in Nat
      BY <1>2, <3>1, WorkersCount
    <3>. QED BY <1>3, <3>2, <3>3
  <2>8. ASSUME NEW e \in Entries, e # n
        PROVE  /\ Cardinality(Working(e)') <= Cardinality(Working(e))
               /\ Cardinality(Unsaved(e)') <= Cardinality(Unsaved(e))
    <3>1. Unsaved(e) \subseteq Workers
      BY <1>2
    <3>. QED BY <1>2, <2>5, <2>8, <3>1, WorkersCount
  <2>9. ASSUME NEW e \in Entries PROVE Cardinality(Working(e)') <= attempts'[e]
    <3>1. attempts[e] <= attempts'[e] /\ Cardinality(Working(e)) <= attempts[e]
      BY <1>1, <1>4
    <3>2. attempts[e] \in Nat /\ attempts'[e] \in Nat
      BY <1>0
    <3>3. CASE e = n
      BY <1>3, <2>6, <2>7, <3>1, <3>2, <3>3
    <3>4. CASE e # n
      BY <1>3, <2>8, <3>1, <3>2, <3>4
    <3>. QED BY <3>3, <3>4
  <2>10. ASSUME NEW e \in DOMAIN stream
         PROVE  results[stream[e]] + Cardinality(Unsaved(e)') <= attempts'[e]
    <3>1. e \in Entries /\ results[stream[e]] \in Nat
      BY <1>0
    <3>2. /\ attempts[e] <= attempts'[e]
          /\ results[stream[e]] + Cardinality(Unsaved(e)) <= attempts[e]
      BY <1>1, <1>5, <3>1
    <3>3. attempts[e] \in Nat /\ attempts'[e] \in Nat
      BY <1>0, <3>1
    <3>4. CASE e = n
      BY <1>3, <2>6, <2>7, <3>1, <3>2, <3>3, <3>4
    <3>5. CASE e # n
      BY <1>3, <2>8, <3>1, <3>2, <3>3, <3>5
    <3>. QED BY <3>4, <3>5
  <2>. QED BY <2>2, <2>9, <2>10 DEF CallsWithinAttempts
<1>7. CASE ~\E w \in Workers : Load(w)
  <2>1. CallsShrink
    BY <1>7, OnlyLoadStarts
  <2>2. \A e : /\ Working(e)' \subseteq Working(e) /\ Unsaved(e)' \subseteq Unsaved(e)
    BY <2>1, ShrinkCounts
  <2>3. \A e : /\ Cardinality(Working(e)') <= Cardinality(Working(e))
               /\ Cardinality(Unsaved(e)') <= Cardinality(Unsaved(e))
    <3>1. \A e : Unsaved(e) \subseteq Workers
      BY <1>2
    <3>. QED BY <1>2, <2>2, <3>1, WorkersCount
  <2>4. ASSUME NEW e \in Entries PROVE Cardinality(Working(e)') <= attempts'[e]
    <3>1. attempts[e] <= attempts'[e] /\ Cardinality(Working(e)) <= attempts[e]
      BY <1>1, <1>4
    <3>. QED BY <1>0, <1>3, <2>3, <3>1
  <2>5. ASSUME NEW e \in DOMAIN stream', UNCHANGED results
        PROVE  results'[stream'[e]] + Cardinality(Unsaved(e)') <= attempts'[e]
    <3>1. e \in Entries /\ attempts[e] \in Nat /\ attempts'[e] \in Nat
      BY <1>0
    <3>2. CASE e \in DOMAIN stream
      <4>1. stream'[e] = stream[e] /\ results[stream[e]] \in Nat
        BY <1>0, <3>2 DEF RowsPersist
      <4>2. /\ results[stream[e]] + Cardinality(Unsaved(e)) <= attempts[e]
            /\ attempts[e] <= attempts'[e]
            /\ Cardinality(Unsaved(e)') <= Cardinality(Unsaved(e))
        BY <1>1, <1>5, <2>3, <3>1, <3>2
      <4>. QED BY <1>3, <2>5, <3>1, <4>1, <4>2
    <3>3. CASE e \notin DOMAIN stream
      <4>1. PICK t \in Tasks : stream' = Append(stream, t) /\ EntriesOf(t) = {}
        BY <3>3, OnlyEnqueueAdds DEF Enqueue
      <4>2. stream'[e] = t
        BY <1>0, <3>3, <4>1
      <4>3. results[t] = 0
        BY <4>1 DEF AttemptInv, UntouchedIsNew, Untouched
      <4>4. /\ Cardinality(Unsaved(e)') <= Cardinality(Working(e)')
            /\ Cardinality(Working(e)') <= attempts'[e]
        BY <1>3, <2>4, <3>1
      <4>. QED BY <1>3, <2>5, <3>1, <4>2, <4>3, <4>4
    <3>. QED BY <3>2, <3>3
  <2>6. ASSUME NEW w \in Workers,
               stage[w] \in Unfinished, stage'[w] \notin Unfinished,
               AddResults(w), UNCHANGED stream,
               NEW e \in DOMAIN stream
        PROVE  results'[stream[e]] + Cardinality(Unsaved(e)') <= attempts'[e]
    <3>1. /\ stage[w] # "out" /\ job[w] \in DOMAIN stream /\ TaskOf(w) \in Tasks
          /\ w \in Working(job[w])
      BY <2>6, CalledFor DEF Unfinished
    <3>2. e \in Entries /\ stream[e] \in Tasks
      BY <1>0
    <3>3. /\ attempts[e] \in Nat /\ attempts'[e] \in Nat /\ attempts[e] <= attempts'[e]
          /\ results[stream[e]] \in Nat
          /\ results[stream[e]] + Cardinality(Unsaved(e)) <= attempts[e]
      BY <1>0, <1>1, <1>5, <3>2
    <3>4. results' = [results EXCEPT ![TaskOf(w)] = results[TaskOf(w)] + 1]
      BY <2>6 DEF AddResults
    <3>5. CASE e = job[w]
      <4>1. results'[stream[e]] = results[stream[e]] + 1
        BY <3>1, <3>4, <3>5 DEF TaskOf, PipelineInv, TypeOK
      <4>2. w \in Unsaved(e) /\ w \notin Unsaved(e)'
        BY <2>6, <3>1, <3>5 DEF Unsaved
      <4>3. Unsaved(e)' \subseteq Unsaved(e) \ {w}
        BY <2>2, <4>2
      <4>4. Unsaved(e) \subseteq Workers /\ Unsaved(e) \ {w} \subseteq Workers
        BY <1>2
      <4>5. /\ Cardinality(Unsaved(e) \ {w}) = Cardinality(Unsaved(e)) - 1
            /\ Cardinality(Unsaved(e)') <= Cardinality(Unsaved(e) \ {w})
        BY <4>2, <4>3, <4>4, WorkersCount
      <4>. QED BY <1>3, <3>3, <4>1, <4>5
    <3>6. CASE e # job[w]
      <4>1. stream[e] # TaskOf(w)
        BY <3>1, <3>6 DEF AttemptInv, OneJobEach, TaskOf
      <4>2. results'[stream[e]] = results[stream[e]]
        BY <3>2, <3>4, <4>1 DEF PipelineInv, TypeOK
      <4>. QED BY <1>3, <2>3, <3>3, <4>2
    <3>. QED BY <3>5, <3>6
  <2>7. \A e \in DOMAIN stream' :
           results'[stream'[e]] + Cardinality(Unsaved(e)') <= attempts'[e]
    BY <2>5, <2>6, ResultsGrow
  <2>. QED BY <2>4, <2>7 DEF CallsWithinAttempts
<1>. QED BY <1>6, <1>7

\* A task has one job, and what a feeder has flushed has no row.
LEMMA OneJobStep ==
    ASSUME PipelineInv, AttemptInv, [Next]_vars, RowsPersist
    PROVE  OneJobEach'
<1>. USE QueueAssumption, PipelineAssumption
<1>0. /\ cpc \in [Clients -> {"idle", "insert", "enqueue"}]
      /\ ctask \in [Clients -> 0..used] /\ flushed \in [Feeders -> SUBSET (1..used)]
      /\ status \in [Tasks -> Statuses] /\ used \in Nat
      /\ 1..used \subseteq Tasks /\ stream \in Seq(Tasks)
      /\ \A c \in Clients : cpc[c] = "enqueue" => ctask[c] \in Tasks
  BY DEF PipelineInv, QueueInv, QueueTypeOK, TypeOK, RequestsHoldRows, Entries
<1>1. /\ \A e, f \in DOMAIN stream : stream[e] = stream[f] => e = f
      /\ \A c \in Clients : cpc[c] = "enqueue" =>
           /\ EntriesOf(ctask[c]) = {}
           /\ \A b \in Clients : cpc[b] = "enqueue" /\ ctask[b] = ctask[c] => b = c
      /\ \A f \in Feeders : \A t \in flushed[f] : status[t] = "none"
  BY DEF AttemptInv, OneJobEach
<1>2. ASSUME UNCHANGED stream PROVE \A t : EntriesOf(t)' = EntriesOf(t)
  BY <1>2 DEF EntriesOf
<1>3. ASSUME NEW t \in Tasks, Enqueue(t), EntriesOf(t) = {}
      PROVE  /\ \A e, f \in DOMAIN stream' : stream'[e] = stream'[f] => e = f
             /\ \A u \in Tasks : u # t => EntriesOf(u)' = EntriesOf(u)
  <2>1. stream' = Append(stream, t)
    BY <1>3 DEF Enqueue
  <2>2. \A e \in DOMAIN stream : stream[e] # t
    BY <1>3 DEF EntriesOf
  <2>3. /\ DOMAIN stream' = DOMAIN stream \cup {Len(stream) + 1}
        /\ stream'[Len(stream) + 1] = t
        /\ \A e \in DOMAIN stream : stream'[e] = stream[e]
    BY <1>0, <2>1
  <2>4. \A u \in Tasks : u # t => EntriesOf(u)' = EntriesOf(u)
    BY <2>3 DEF EntriesOf
  <2>5. \A e, f \in DOMAIN stream' : stream'[e] = stream'[f] => e = f
    BY <1>1, <2>2, <2>3
  <2>. QED BY <2>4, <2>5
<1>4. ASSUME NEW c \in Clients, SubmitStep(c) PROVE OneJobEach'
  <2>1. CASE (\E d \in Domains : SubmitCheck(c, d)) \/ SubmitDies(c)
    <3>1. UNCHANGED <<stream, status, flushed>>
      BY <2>1 DEF SubmitCheck, SubmitDies, EndRequest, queueVars, redisVars, auditVars
    <3>2. \A b \in Clients : cpc'[b] = "enqueue" => cpc[b] = "enqueue" /\ ctask'[b] = ctask[b]
      BY <1>0, <2>1 DEF SubmitCheck, SubmitDies, EndRequest
    <3>. QED BY <1>1, <3>1, <3>2 DEF OneJobEach, EntriesOf
  <2>2. CASE SubmitCommit(c)
    <3>1. PICK t \in Tasks : /\ NewAudit(t, cdom[c], "submit")
                             /\ status' = [status EXCEPT ![t] = "queued"]
                             /\ ctask' = [ctask EXCEPT ![c] = t]
      BY <2>2 DEF SubmitCommit
    <3>2. t \notin 1..used /\ EntriesOf(t) = {} /\ t # 0
      <4>1. t = used + 1
        BY <3>1 DEF NewAudit
      <4>. QED BY <1>0, <3>1, <4>1, NewAuditIsNew
    <3>3. UNCHANGED <<stream, flushed>> /\ cpc' = [cpc EXCEPT ![c] = "enqueue"]
      BY <2>2 DEF SubmitCommit, queueVars, redisVars
    <3>4. \A f \in Feeders : \A u \in flushed'[f] : status'[u] = "none"
      BY <1>0, <1>1, <3>1, <3>2, <3>3
    <3>5. /\ ctask'[c] = t
          /\ \A b \in Clients : b # c => /\ ctask'[b] = ctask[b] /\ ctask'[b] # t
                                         /\ cpc'[b] = cpc[b]
      BY <1>0, <3>1, <3>2, <3>3
    <3>6. \A b \in Clients : cpc'[b] = "enqueue" =>
            /\ \A e \in DOMAIN stream' : stream'[e] # ctask'[b]
            /\ \A a \in Clients : cpc'[a] = "enqueue" /\ ctask'[a] = ctask'[b] => a = b
      BY <1>1, <3>2, <3>3, <3>5 DEF EntriesOf
    <3>. QED BY <1>1, <3>3, <3>4, <3>6 DEF OneJobEach, EntriesOf
  <2>3. CASE SubmitEnqueue(c)
    <3>1. Enqueue(ctask[c]) /\ ctask[c] \in Tasks /\ EntriesOf(ctask[c]) = {}
      BY <1>0, <1>1, <2>3 DEF SubmitEnqueue
    <3>2. /\ UNCHANGED <<status, flushed>> /\ cpc[c] = "enqueue"
          /\ cpc' = [cpc EXCEPT ![c] = "idle"] /\ ctask' = [ctask EXCEPT ![c] = 0]
      BY <2>3 DEF SubmitEnqueue, EndRequest, auditVars
    <3>3. \A b \in Clients : cpc'[b] = "enqueue" =>
            /\ b # c /\ cpc[b] = "enqueue" /\ ctask'[b] = ctask[b]
            /\ ctask[b] \in Tasks /\ ctask[b] # ctask[c]
      BY <1>0, <1>1, <3>2
    <3>4. \A e, f \in DOMAIN stream' : stream'[e] = stream'[f] => e = f
      BY <1>3, <3>1
    <3>5. \A b \in Clients : cpc'[b] = "enqueue" =>
            /\ \A e \in DOMAIN stream' : stream'[e] # ctask'[b]
            /\ \A a \in Clients : cpc'[a] = "enqueue" /\ ctask'[a] = ctask'[b] => a = b
      <4>1. \A u \in Tasks : u # ctask[c] => EntriesOf(u)' = EntriesOf(u)
        BY <1>3, <3>1
      <4>2. ASSUME NEW b \in Clients, cpc'[b] = "enqueue", NEW e \in DOMAIN stream'
            PROVE  stream'[e] # ctask'[b]
        <5>1. EntriesOf(ctask[b])' = {} /\ ctask'[b] = ctask[b]
          BY <1>1, <3>3, <4>1, <4>2
        <5>. QED BY <5>1 DEF EntriesOf
      <4>. QED BY <1>1, <3>3, <4>2
    <3>. QED BY <1>1, <3>2, <3>4, <3>5 DEF OneJobEach, EntriesOf
  <2>. QED BY <1>4, <2>1, <2>2, <2>3 DEF SubmitStep
<1>5. ASSUME NEW f \in Feeders, FeedStep(f) PROVE OneJobEach'
  <2>1. UNCHANGED <<cpc, ctask>>
    BY <1>5 DEF FeedStep, FeedOne, FeedCommit, FeedDies
  <2>2. ASSUME NEW d \in Domains, FeedOne(f, d) PROVE OneJobEach'
    <3>1. PICK t \in Tasks : /\ NewAudit(t, d, f) /\ Enqueue(t)
                             /\ flushed' = [flushed EXCEPT ![f] = @ \cup {t}]
      BY <2>2 DEF FeedOne
    <3>2. /\ t \notin 1..used /\ EntriesOf(t) = {} /\ status[t] = "none"
          /\ UNCHANGED status /\ t # 0
      <4>1. t = used + 1
        BY <3>1 DEF NewAudit
      <4>. QED BY <1>0, <2>2, <3>1, <4>1, NewAuditIsNew DEF FeedOne
    <3>3. \A c \in Clients : cpc[c] = "enqueue" => ctask[c] # t /\ ctask[c] \in Tasks
      BY <1>0, <3>2
    <3>4. \A g \in Feeders : \A u \in flushed'[g] : status'[u] = "none"
      BY <1>0, <1>1, <3>1, <3>2
    <3>5. \A e, g \in DOMAIN stream' : stream'[e] = stream'[g] => e = g
      BY <1>3, <3>1, <3>2
    <3>6. ASSUME NEW c \in Clients, cpc[c] = "enqueue"
          PROVE  EntriesOf(ctask[c]) = {} /\ EntriesOf(ctask[c])' = {}
      <4>1. \A u \in Tasks : u # t => EntriesOf(u)' = EntriesOf(u)
        BY <1>3, <3>1, <3>2
      <4>2. EntriesOf(ctask[c]) = {} /\ ctask[c] \in Tasks /\ ctask[c] # t
        BY <1>1, <3>3, <3>6
      <4>3. \A u \in Tasks : u = ctask[c] => EntriesOf(u)' = {}
        BY <4>1, <4>2
      <4>. QED BY <2>1, <4>2, <4>3 DEF EntriesOf
    <3>. QED BY <1>1, <2>1, <3>4, <3>5, <3>6 DEF OneJobEach, EntriesOf
  <2>3. CASE FeedCommit(f) \/ FeedDies(f)
    <3>1. UNCHANGED stream /\ flushed' = [flushed EXCEPT ![f] = {}]
      BY <2>3 DEF FeedCommit, FeedDies, queueVars, redisVars
    <3>2. \A t \in Tasks : t \notin flushed[f] => status'[t] = status[t]
      BY <2>3 DEF FeedCommit, FeedDies, auditVars
    <3>3. \A g \in Feeders : \A t \in flushed[g] : origin[t] = g
      BY DEF PipelineInv, RequestsHoldRows
    <3>4. ASSUME NEW g \in Feeders, NEW t \in flushed'[g] PROVE status'[t] = "none"
      <4>1. g # f /\ t \in flushed[g]
        BY <1>0, <3>1, <3>4
      <4>2. t \notin flushed[f] /\ t \in Tasks
        BY <1>0, <3>3, <4>1
      <4>. QED BY <1>1, <3>2, <4>1, <4>2
    <3>. QED BY <1>1, <2>1, <3>1, <3>4 DEF OneJobEach, EntriesOf
  <2>. QED BY <1>5, <2>2, <2>3 DEF FeedStep
<1>6. CASE \/ \E w \in Workers : ProcessStep(w) \/ Killed(w)
           \/ QueueStep \/ (\E t \in Tasks : Review(t)) \/ UNCHANGED vars
  <2>1. MovesOneAudit
    BY <1>6, WorkersMoveOneAudit
  <2>2. UNCHANGED <<stream, cpc, ctask, flushed>>
    BY <2>1 DEF MovesOneAudit, requestVars
  <2>3. \A f \in Feeders : \A t \in flushed[f] : status'[t] = "none"
    BY <1>0, <1>1, <2>1, MoveOfStatus
  <2>. QED BY <1>1, <2>2, <2>3 DEF OneJobEach, EntriesOf
<1>. QED BY <1>4, <1>5, <1>6 DEF Next

\* An audit for which process was never called is as it was created.
LEMMA UntouchedStep ==
    ASSUME PipelineInv, AttemptInv, [Next]_vars, RowsPersist
    PROVE  UntouchedIsNew'
<1>. SUFFICES ASSUME NEW t \in Tasks, Untouched(t)'
              PROVE  /\ results'[t] = 0 /\ status'[t] \in {"none", "queued"}
                     /\ method'[t] = "automated"
  BY DEF UntouchedIsNew
<1>1. Untouched(t)
  BY PastStays
<1>2. results[t] = 0 /\ status[t] \in {"none", "queued"} /\ method[t] = "automated"
  BY <1>1 DEF AttemptInv, UntouchedIsNew
<1>3. ASSUME NEW w \in Workers, Writes(w) PROVE TaskOf(w) # t
  <2>1. stage[w] # "out"
    BY <1>3 DEF Writes, Crawl, Analyze, RefuseScore, StartScoring, Complete, Fail, Goes
  <2>. QED BY <1>1, <2>1, CalledFor
<1>. QED BY <1>2, <1>3, WhoWrites

\* What the others do leaves the audit of a call of process alone, unless it
\* was delivered again.
LEMMA OthersLeaveAlone ==
    ASSUME PipelineInv, AttemptInv, [Next]_vars, NEW v \in Workers,
           stage[v] \in Unfinished, ~DeliveredAgain(TaskOf(v)), ~Writes(v)
    PROVE  status'[TaskOf(v)] = status[TaskOf(v)]
<1>1. TaskOf(v) \in Tasks /\ stage[v] # "out"
  BY CalledFor DEF Unfinished
<1>2. status[TaskOf(v)] # "none"
  BY DEF PipelineInv, CallHoldsRow, Unfinished
<1>3. ASSUME NEW w \in Workers, Writes(w), TaskOf(w) = TaskOf(v) PROVE FALSE
  <2>1. stage[w] # "out"
    BY <1>3 DEF Writes, Crawl, Analyze, RefuseScore, StartScoring, Complete, Fail, Goes
  <2>2. v = w
    BY <1>1, <1>3, <2>1, SoleCall
  <2>. QED BY <1>3, <2>2
<1>. QED BY <1>1, <1>2, <1>3, WhoWrites

\* A call that loads an audit delivered once finds it queued.
LEMMA LoadFindsQueued ==
    ASSUME PipelineInv, AttemptInv, [Next]_vars, NEW w \in Workers, Load(w),
           stage'[w] \in Unfinished,
           NEW e, e = job'[w], ~DeliveredAgain(stream[e])
    PROVE  /\ stage'[w] = "crawl" /\ status[stream[e]] = "queued"
           /\ loaded'[w].status = "queued" /\ UNCHANGED <<stream, status>>
<1>. USE QueueAssumption
<1>1. PICK n \in batch[w] : /\ job' = [job EXCEPT ![w] = n]
                            /\ attempts' = [attempts EXCEPT ![n] = @ + 1]
  BY DEF Load, BeginJob
<1>2. /\ n \in Entries /\ n \in DOMAIN stream /\ job'[w] = n /\ stream[n] \in Tasks
      /\ UNCHANGED <<stream, status, deliveries>>
  BY <1>1 DEF Load, BeginJob, redisVars, auditVars, PipelineInv, QueueInv, QueueTypeOK,
              OnlyDelivered
<1>3. /\ stage'[w] = "crawl" /\ loaded'[w] = RowOf(stream[n]) /\ status[stream[n]] # "none"
  <2>1. stage \in [Workers -> Stages] /\ loaded \in [Workers -> Columns]
    BY DEF PipelineInv, TypeOK
  <2>. QED BY <1>2, <2>1 DEF Load, Goes, Unfinished
<1>4. CutoffInv'
  BY QueueClientStep, CutoffStep DEF PipelineInv, AttemptInv
<1>5. /\ attempts'[n] = attempts[n] + 1 /\ attempts[n] \in Nat
      /\ deliveries'[n] \in Nat
  BY <1>1, <1>2 DEF PipelineInv, QueueInv, QueueTypeOK
<1>6. deliveries'[n] <= 1
  BY <1>2, <1>5 DEF DeliveredAgain
<1>7. attempts'[n] <= deliveries'[n]
  <2>1. PaidFor(n)'
    BY <1>2, <1>4 DEF CutoffInv
  <2>2. Cardinality(Holders(n)') \in Nat /\ Cardinality(Claimants(n)') \in Nat
    BY WorkersCount DEF Holders, Claimants
  <2>. QED BY <1>5, <2>1, <2>2 DEF PaidFor
<1>8. attempts[n] = 0
  BY <1>5, <1>6, <1>7
<1>9. Untouched(stream[n])
  BY <1>2, <1>8 DEF Untouched, EntriesOf, AttemptInv, OneJobEach
<1>10. status[stream[n]] = "queued"
  BY <1>2, <1>3, <1>9 DEF AttemptInv, UntouchedIsNew
<1>. QED BY <1>2, <1>3, <1>10 DEF RowOf

\* Until it is delivered again, an audit has the status its only call wrote.
LEMMA OnlyCallStep ==
    ASSUME PipelineInv, AttemptInv, [Next]_vars, RowsPersist, NEW v \in Workers
    PROVE  OnlyCallWrites(v)'
<1>. SUFFICES ASSUME stage'[v] \in Unfinished, ~DeliveredAgain(TaskOf(v))'
              PROVE  /\ <<stage'[v], status'[TaskOf(v)']>> \in StatusAt
                     /\ loaded'[v] # Expired =>
                          loaded'[v].status = status'[TaskOf(v)']
  BY DEF OnlyCallWrites
<1>0. stage \in [Workers -> Stages] /\ loaded \in [Workers -> Columns]
      /\ job \in [Workers -> 0..MaxJobs]
  BY DEF PipelineInv, TypeOK, QueueTypeOK
<1>1. CASE Load(v)
  <2>1. PICK e : e = job'[v]
    OBVIOUS
  <2>2. UNCHANGED <<stream, deliveries>> /\ TaskOf(v)' = stream[e]
    BY <1>1, <2>1 DEF TaskOf, Load, BeginJob, redisVars
  <2>3. ~DeliveredAgain(stream[e])
    <3>1. ~\E f \in DOMAIN stream' : stream'[f] = TaskOf(v)' /\ deliveries'[f] > 1
      BY DEF DeliveredAgain
    <3>. QED BY <2>2, <3>1 DEF DeliveredAgain
  <2>. QED BY <1>1, <2>1, <2>2, <2>3, LoadFindsQueued DEF StatusAt
<1>2. CASE ~Load(v)
  <2>1. /\ stage[v] \in Unfinished /\ job'[v] = job[v]
        /\ stage'[v] # stage[v] \/ loaded'[v] # loaded[v] => Writes(v) \/ Reload(v)
    <3>1. CASE \E w \in Workers : Load(w)
      <4>1. PICK w \in Workers : Load(w)
        BY <3>1
      <4>2. v # w
        BY <1>2, <4>1
      <4>3. UNCHANGED <<stage[v], loaded[v], job[v]>>
        BY <1>0, <4>1, <4>2 DEF Load, Goes, BeginJob
      <4>. QED BY <4>3
    <3>2. CASE ~\E w \in Workers : Load(w)
      <4>1. stage[v] \in Unfinished /\ job'[v] = job[v]
        BY <3>2, OnlyLoadStarts DEF CallsShrink, Unfinished
      <4>2. ASSUME NEW w \in Workers, ProcessStep(w) \/ Killed(w), w # v
            PROVE  UNCHANGED <<stage[v], loaded[v]>>
        BY <1>0, <3>2, <4>2 DEF ProcessStep, Crawl, Analyze, Reload, RefuseScore,
             StartScoring, Complete, Publish, Fail, FailUnrecorded, Killed, Goes, Forget,
             Leave
      <4>3. ASSUME Publish(v) \/ FailUnrecorded(v) \/ Killed(v) PROVE FALSE
        BY <1>0, <4>3 DEF Publish, FailUnrecorded, Killed, Leave, Unfinished
      <4>4. ASSUME ProcessStep(v) \/ Killed(v) PROVE Writes(v) \/ Reload(v)
        BY <1>2, <4>3, <4>4 DEF ProcessStep, Writes
      <4>5. CASE \/ \E c \in Clients : SubmitStep(c)
                 \/ \E f \in Feeders : FeedStep(f)
                 \/ QueueStep \/ (\E t \in Tasks : Review(t)) \/ UNCHANGED vars
        BY <4>1, <4>5 DEF SubmitStep, SubmitCheck, SubmitCommit, SubmitEnqueue, SubmitDies,
             FeedStep, FeedOne, FeedCommit, FeedDies, QueueStep, Review, vars, processVars
      <4>. QED BY <4>1, <4>2, <4>4, <4>5 DEF Next
    <3>. QED BY <3>1, <3>2
  <2>2. job[v] \in DOMAIN stream /\ TaskOf(v) \in Tasks
    BY <2>1, CalledFor DEF Unfinished
  <2>3. TaskOf(v)' = TaskOf(v)
    BY <2>1, <2>2 DEF RowsPersist, TaskOf
  <2>4. ~DeliveredAgain(TaskOf(v))
    <3>1. DeliveredAgain(TaskOf(v)) => \E e \in DOMAIN stream' :
             stream'[e] = TaskOf(v) /\ deliveries'[e] > 1
      BY <2>2, PastStays DEF DeliveredAgain
    <3>. QED BY <2>3, <3>1 DEF DeliveredAgain
  <2>5. /\ <<stage[v], status[TaskOf(v)]>> \in StatusAt
        /\ loaded[v] # Expired => loaded[v].status = status[TaskOf(v)]
    BY <2>1, <2>4 DEF AttemptInv, OnlyCallWrites
  <2>6. CASE Writes(v)
    BY <2>3, <2>4, <2>6, CallFollowsLifecycle
  <2>7. CASE ~Writes(v)
    <3>1. status'[TaskOf(v)] = status[TaskOf(v)]
      BY <2>1, <2>4, <2>7, OthersLeaveAlone
    <3>2. CASE Reload(v)
      <4>1. stage'[v] = stage[v] /\ loaded'[v].status = status[TaskOf(v)]
        BY <1>0, <3>2 DEF Reload, RowOf
      <4>. QED BY <2>3, <2>5, <3>1, <4>1
    <3>3. CASE ~Reload(v)
      BY <2>1, <2>3, <2>5, <2>7, <3>1, <3>3
    <3>. QED BY <3>2, <3>3
  <2>. QED BY <2>6, <2>7
<1>. QED BY <1>1, <1>2

\* A reviewed audit is over, unless it was delivered again.
LEMMA ReviewedStep ==
    ASSUME PipelineInv, AttemptInv, [Next]_vars, RowsPersist
    PROVE  ReviewedIsOver'
<1>. SUFFICES ASSUME NEW t \in Tasks, method'[t] = "expert_reviewed",
                     ~DeliveredAgain(t)'
              PROVE  status'[t] \in {"completed", "failed"}
  BY DEF ReviewedIsOver
<1>1. ~DeliveredAgain(t)
  BY PastStays
<1>2. method[t] = "expert_reviewed" => status[t] \in {"completed", "failed"}
  BY <1>1 DEF AttemptInv, ReviewedIsOver
<1>3. ASSUME NEW w \in Workers, Writes(w), TaskOf(w) = t
      PROVE  status'[t] \in {"completed", "failed"}
  <2>1. method[t] = "expert_reviewed"
    <3>1. method \in [Tasks -> Methods]
      BY DEF PipelineInv, TypeOK
    <3>2. method'[t] \in {method[t], "automated"}
      BY <1>3, <3>1 DEF Writes, Crawl, Analyze, RefuseScore, StartScoring, Complete, Fail,
                        SaveMethod, Written
    <3>. QED BY <3>2
  <2>2. stage[w] \notin Unfinished
    BY <1>1, <1>2, <1>3, <2>1, CallFollowsLifecycle DEF Active
  <2>. QED BY <1>1, <1>3, <2>2, CallFollowsLifecycle
<1>. QED BY <1>2, <1>3, WhoWrites

\* The invariant of the attempts is inductive, given the pipeline's.
LEMMA AttemptStep ==
    ASSUME PipelineInv, AttemptInv, [Next]_vars
    PROVE  AttemptInv'
<1>1. RowsPersist
  BY RowsPersistStep
<1>2. CutoffInv'
  BY QueueClientStep, CutoffStep DEF PipelineInv, AttemptInv
<1>3. CallsWithinAttempts' /\ OneJobEach' /\ UntouchedIsNew' /\ ReviewedIsOver'
  BY <1>1, CallsStep, OneJobStep, UntouchedStep, ReviewedStep
<1>4. \A w \in Workers : OnlyCallWrites(w)'
  BY <1>1, OnlyCallStep
<1>. QED BY <1>2, <1>3, <1>4 DEF AttemptInv

-------------------------------------------------------------------------------
(***************************************************************************)
(* The theorems.                                                           *)
(***************************************************************************)

\* The inductive invariant holds in every reachable state of the pipeline.
THEOREM PipelineInvariant == Spec => []PipelineInv
BY InitInv, PipelineInvStep, PTL DEF Spec

\* Types of the rows, the requests and the calls of process.
THEOREM PipelineTypeCorrect == Spec => []TypeOK
<1>1. PipelineInv => TypeOK
  BY DEF PipelineInv
<1>. QED BY PipelineInvariant, <1>1, PTL

\* The API, the feeders and the workers drive the queue through its operations
\* only, so that every theorem about the queue holds of the whole pipeline.
THEOREM PipelineUsesTheQueue == Spec => UsesTheQueue
<1>1. Init => QueueInit
  BY DEF Init
<1>2. PipelineInv /\ [Next]_vars => [QueueNext]_queueVars
  BY QueueClientStep
<1>. QED BY <1>1, <1>2, PipelineInvariant, PTL DEF Spec, UsesTheQueue, QueueSpec

\* The advisory lock: of two submitted audits of one domain that are running,
\* one had ended before and was revived by the queue.
THEOREM LockExcludesSubmissions == Spec => []OneFreshSubmission
<1>1. PipelineInv => OneFreshSubmission
  BY DEF PipelineInv
<1>. QED BY PipelineInvariant, <1>1, PTL

\* A submitted audit whose job has left the queue ended, or its job is in the
\* dead-letter stream.
THEOREM SubmissionsAreAnswered == Spec => []SubmittedAuditIsAnswered
<1>1. PipelineInv => SubmittedAuditIsAnswered
  BY DEF PipelineInv, QueueInv, NoLostJob, ReturnedHasEnded, SubmittedAuditIsAnswered
<1>. QED BY PipelineInvariant, <1>1, PTL

\* The calls of process, and what they write, stay within the attempts in every
\* reachable state of the pipeline.
THEOREM AttemptInvariant == Spec => []AttemptInv
<1>1. PipelineInv /\ AttemptInv /\ [Next]_vars => AttemptInv'
  BY AttemptStep
<1>. QED BY AttemptInit, PipelineInvariant, <1>1, PTL DEF Spec

\* One call of process persists its results at most once, whatever way it ends
\* and whoever else works on the audit.
THEOREM ResultsArePerAttempt == Spec => []ResultsPerAttempt
<1>1. PipelineInv /\ AttemptInv => ResultsPerAttempt
  <2>. SUFFICES ASSUME PipelineInv, AttemptInv, NEW e \in DOMAIN stream
                PROVE  results[stream[e]] <= attempts[e]
    BY DEF ResultsPerAttempt
  <2>1. results[stream[e]] \in Nat /\ attempts[e] \in Nat
    BY QueueAssumption
       DEF PipelineInv, QueueInv, QueueTypeOK, OnlyDelivered, TypeOK, Entries
  <2>2. results[stream[e]] + Cardinality(Unsaved(e)) <= attempts[e]
    BY DEF AttemptInv, CallsWithinAttempts
  <2>3. Unsaved(e) \subseteq Workers
    BY DEF Unsaved, Working
  <2>4. Cardinality(Unsaved(e)) \in Nat
    BY <2>3, WorkersCount
  <2>. QED BY <2>1, <2>2, <2>4
<1>. QED BY PipelineInvariant, AttemptInvariant, <1>1, PTL

\* A step of the pipeline takes an audit that was delivered at most once along
\* the lifecycle, and leaves an expert's verdict on it alone.
LEMMA StepWithoutRedelivery ==
    ASSUME PipelineInv, AttemptInv, [Next]_vars,
           NEW t \in Tasks, ~DeliveredAgain(t)
    PROVE  /\ status[t] # status'[t] => <<status[t], status'[t]>> \in Lifecycle
           /\ method[t] = "expert_reviewed" => method'[t] = "expert_reviewed"
<1>1. ASSUME NEW w \in Workers, Writes(w), TaskOf(w) = t, status[t] # status'[t]
      PROVE  <<status[t], status'[t]>> \in Lifecycle
  <2>1. CASE stage[w] \in Unfinished
    BY <1>1, <2>1, CallFollowsLifecycle
  <2>2. CASE stage[w] = "publish"
    <3>1. status'[t] = "failed"
      BY <1>1, <2>2, CallFollowsLifecycle
    <3>2. status[t] # "none"
      BY <1>1, <2>2 DEF PipelineInv, CallHoldsRow
    <3>3. status[t] \in Active \cup {"completed", "insufficient_evidence"}
      BY <1>1, <3>1, <3>2 DEF PipelineInv, TypeOK, Statuses, Terminal
    <3>. QED BY <3>1, <3>3 DEF Lifecycle
  <2>. QED BY <1>1, <2>1, <2>2, CallFollowsLifecycle
<1>2. ASSUME NEW w \in Workers, Writes(w), TaskOf(w) = t, method[t] = "expert_reviewed"
      PROVE  method'[t] = method[t]
  <2>1. status[t] \in {"completed", "failed"}
    BY <1>2 DEF AttemptInv, ReviewedIsOver
  <2>2. stage[w] \notin Unfinished
    BY <1>2, <2>1, CallFollowsLifecycle DEF Active
  <2>. QED BY <1>2, <2>2, CallFollowsLifecycle
<1>3. <<"none", "queued">> \in Lifecycle
  BY DEF Lifecycle
<1>. QED BY <1>1, <1>2, <1>3, WhoWrites

\* Only a second delivery by the queue turns an audit back in its lifecycle, or
\* replaces an expert's verdict by an automated one.
THEOREM OnlyRedeliveryTurnsBack == Spec => UnlessRedelivered
<1>1. PipelineInv /\ AttemptInv /\ [Next]_vars =>
        \A t \in Tasks : ~DeliveredAgain(t) /\ status[t] # status'[t]
             => <<status[t], status'[t]>> \in Lifecycle
  BY StepWithoutRedelivery
<1>2. PipelineInv /\ AttemptInv /\ [Next]_vars =>
        \A t \in Tasks : method[t] = "expert_reviewed" /\ ~DeliveredAgain(t)
             => method'[t] = "expert_reviewed"
  BY StepWithoutRedelivery
<1>. QED BY <1>1, <1>2, PipelineInvariant, AttemptInvariant, PTL
         DEF Spec, UnlessRedelivered, LifecycleWithoutRedelivery,
             ReviewStandsWithoutRedelivery
===============================================================================
