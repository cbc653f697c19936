------------------------------ MODULE AuditQueue ------------------------------
(***************************************************************************)
(* The audit job queue: services/queue.py over a Redis stream with one     *)
(* consumer group, and the loop of worker.py that consumes it (run and     *)
(* _handle; the call of process in the middle is refined by AuditPipeline).*)
(*                                                                         *)
(* An entry id is its position in the stream.  The stream is never         *)
(* trimmed: XACK only removes an entry from the group's pending list.      *)
(* Time is abstracted to one bit per pending entry: whether it has been    *)
(* idle for min_idle_ms.  An engine run may take 600 s and the limit is    *)
(* 120 s, so an entry may become idle while its worker is alive and busy.  *)
(***************************************************************************)
EXTENDS Naturals, Sequences, FiniteSets

CONSTANTS
    Workers,            \* worker replicas
    Tasks,              \* audit ids a job can carry
    MaxDeliveries,      \* MAX_DELIVERIES
    ClaimCount,         \* count of XAUTOCLAIM
    ReclaimEvery,       \* loop iterations between two calls of reclaim_stale
    MaxJobs,            \* bound: entries ever added to the stream
    MaxCrashes          \* bound: worker processes killed

ASSUME QueueAssumption ==
    /\ MaxDeliveries \in Nat \ {0}
    /\ ClaimCount \in Nat \ {0}
    /\ ReclaimEvery \in Nat \ {0}
    /\ MaxJobs \in Nat
    /\ MaxCrashes \in Nat
    /\ IsFiniteSet(Workers)

VARIABLES
    stream,             \* govux:audits, the task id each entry carries
    cursor,             \* the group's last-delivered entry
    pel,                \* the group's pending entries list
    deliveries,         \* times_delivered of each entry
    idle,               \* pending entries idle for min_idle_ms or more
    dlq,                \* govux:audits:dlq, the src_id of each entry
    wpc,                \* where each worker is in its loop
    ticks,              \* reads since the worker's last reclaim_stale
    claimed,            \* entries of XAUTOCLAIM's reply not yet looked at
    batch,              \* entries the worker still has to handle
    job,                \* the entry in the worker's hands, 0 if none
    crashes,            \* worker processes killed so far
    attempts,           \* history: calls of process, per entry
    returned            \* history: entries a call of process returned for

redisVars  == <<stream, cursor, pel, deliveries, idle, dlq>>
workerVars == <<wpc, ticks, claimed, batch, job, crashes>>
histVars   == <<attempts, returned>>
queueVars  == <<redisVars, workerVars, histVars>>

Entries == 1..MaxJobs

WorkerPc == {"loop", "sift", "bury", "pick", "run", "ack", "down"}

QueueTypeOK ==
    /\ stream \in Seq(Tasks)
    /\ cursor \in 0..MaxJobs
    /\ pel \subseteq Entries
    /\ deliveries \in [Entries -> Nat]
    /\ idle \subseteq pel
    /\ dlq \in Seq(Entries)
    /\ wpc \in [Workers -> WorkerPc]
    /\ ticks \in [Workers -> 0..ReclaimEvery]
    /\ claimed \in [Workers -> SUBSET Entries]
    /\ batch \in [Workers -> SUBSET Entries]
    /\ job \in [Workers -> 0..MaxJobs]
    /\ crashes \in 0..MaxCrashes
    /\ attempts \in [Entries -> Nat]
    /\ returned \subseteq Entries

-------------------------------------------------------------------------------
IsLeast(e, S) == e \in S /\ \A f \in S : e <= f

Buried == {dlq[i] : i \in DOMAIN dlq}

\* Delivered, and no longer in the pending list.
Settled == (1..cursor) \ pel

\* The worker goes on with its batch, or back to the top of its loop.
NextPc(rest) == IF rest = {} THEN "loop" ELSE "pick"

\* reclaim_stale goes on with its reply, then hands its live entries over.
SiftPc(left, live) == IF left # {} THEN "sift" ELSE NextPc(live)

QueueInit ==
    /\ stream = <<>>
    /\ cursor = 0
    /\ pel = {}
    /\ deliveries = [e \in Entries |-> 0]
    /\ idle = {}
    /\ dlq = <<>>
    /\ wpc = [w \in Workers |-> "loop"]
    /\ ticks = [w \in Workers |-> 1]
    /\ claimed = [w \in Workers |-> {}]
    /\ batch = [w \in Workers |-> {}]
    /\ job = [w \in Workers |-> 0]
    /\ crashes = 0
    /\ attempts = [e \in Entries |-> 0]
    /\ returned = {}

\* enqueue_audit: XADD.
Enqueue(t) ==
    /\ Len(stream) < MaxJobs
    /\ stream' = Append(stream, t)
    /\ UNCHANGED <<cursor, pel, deliveries, idle, dlq, workerVars, histVars>>

\* The idle time of a pending entry passes min_idle_ms.
GoIdle(e) ==
    /\ e \in pel \ idle
    /\ idle' = idle \cup {e}
    /\ UNCHANGED <<stream, cursor, pel, deliveries, dlq, workerVars, histVars>>

-------------------------------------------------------------------------------
\* read_jobs: XREADGROUP with ">" and count 1 hands out the next new entry.
ReadJob(w) ==
    /\ wpc[w] = "loop"
    /\ ticks[w] < ReclaimEvery
    /\ cursor < Len(stream)
    /\ cursor' = cursor + 1
    /\ pel' = pel \cup {cursor'}
    /\ deliveries' = [deliveries EXCEPT ![cursor'] = 1]
    /\ ticks' = [ticks EXCEPT ![w] = @ + 1]
    /\ batch' = [batch EXCEPT ![w] = {cursor'}]
    /\ wpc' = [wpc EXCEPT ![w] = "pick"]
    /\ UNCHANGED <<stream, idle, dlq, claimed, job, crashes, histVars>>

\* Variant: only iterations that got a job count towards the next reclaim.
ReadNothingUncounted(w) ==
    /\ wpc[w] = "loop"
    /\ ticks[w] < ReclaimEvery
    /\ cursor = Len(stream)
    /\ UNCHANGED queueVars

\* read_jobs times out after block_ms.
ReadNothing(w) ==
    /\ wpc[w] = "loop"
    /\ ticks[w] < ReclaimEvery
    /\ cursor = Len(stream)
    /\ ticks' = [ticks EXCEPT ![w] = @ + 1]
    /\ UNCHANGED <<redisVars, wpc, claimed, batch, job, crashes, histVars>>

\* XAUTOCLAIM from "0-0": the first ClaimCount idle entries in id order,
\* whoever owns them.
IsClaim(S) ==
    /\ S \subseteq idle
    /\ \A e \in S, f \in idle \ S : e < f
    /\ \/ S = idle /\ Cardinality(S) <= ClaimCount
       \/ Cardinality(S) = ClaimCount

Reclaim(w) ==
    /\ wpc[w] = "loop"
    /\ ticks[w] = ReclaimEvery
    /\ \E S \in SUBSET idle :
         /\ IsClaim(S)
         /\ deliveries' = [e \in Entries |->
                             deliveries[e] + (IF e \in S THEN 1 ELSE 0)]
         /\ idle' = idle \ S
         /\ claimed' = [claimed EXCEPT ![w] = S]
         /\ wpc' = [wpc EXCEPT ![w] = SiftPc(S, {})]
    /\ ticks' = [ticks EXCEPT ![w] = 0]
    /\ UNCHANGED <<stream, cursor, pel, dlq, batch, job, crashes, histVars>>

\* Variant: the cutoff is one delivery late.
IsPoisonLate(e) == e \in pel /\ deliveries[e] > MaxDeliveries + 1

\* XPENDING of one claimed entry.  An entry acknowledged since XAUTOCLAIM is
\* no longer pending and counts as delivered once.
IsPoison(e) == e \in pel /\ deliveries[e] > MaxDeliveries

SiftLive(w) ==
    /\ wpc[w] = "sift"
    /\ \E e \in claimed[w] :
         /\ IsLeast(e, claimed[w])
         /\ ~IsPoison(e)
         /\ claimed' = [claimed EXCEPT ![w] = @ \ {e}]
         /\ batch' = [batch EXCEPT ![w] = @ \cup {e}]
         /\ wpc' = [wpc EXCEPT ![w] = SiftPc(claimed[w] \ {e}, batch[w] \cup {e})]
    /\ UNCHANGED <<redisVars, ticks, job, crashes, histVars>>

\* Variant: XACK before XADD, and the worker is killed in between.
SiftPoisonAckFirst(w) ==
    /\ wpc[w] = "sift"
    /\ \E e \in claimed[w] :
         /\ IsLeast(e, claimed[w])
         /\ IsPoison(e)
         /\ pel' = pel \ {e}
         /\ idle' = idle \ {e}
         /\ claimed' = [claimed EXCEPT ![w] = @ \ {e}]
         /\ job' = [job EXCEPT ![w] = e]
    /\ wpc' = [wpc EXCEPT ![w] = "bury"]
    /\ UNCHANGED <<stream, cursor, deliveries, dlq, ticks, batch, crashes,
                   histVars>>

\* XADD to the dead-letter stream; the XACK is a second call to Redis.
SiftPoison(w) ==
    /\ wpc[w] = "sift"
    /\ \E e \in claimed[w] :
         /\ IsLeast(e, claimed[w])
         /\ IsPoison(e)
         /\ dlq' = Append(dlq, e)
         /\ claimed' = [claimed EXCEPT ![w] = @ \ {e}]
         /\ job' = [job EXCEPT ![w] = e]
    /\ wpc' = [wpc EXCEPT ![w] = "bury"]
    /\ UNCHANGED <<stream, cursor, pel, deliveries, idle, ticks, batch,
                   crashes, histVars>>

\* Variant: an acknowledged entry keeps its idle clock.
RemovePendingOnly(e) ==
    /\ pel' = pel \ {e}
    /\ idle' = idle

\* XACK: the entry leaves the pending list, whoever owns it by now.
RemovePending(e) ==
    /\ pel' = pel \ {e}
    /\ idle' = idle \ {e}

Bury(w) ==
    /\ wpc[w] = "bury"
    /\ RemovePending(job[w])
    /\ job' = [job EXCEPT ![w] = 0]
    /\ wpc' = [wpc EXCEPT ![w] = SiftPc(claimed[w], batch[w])]
    /\ UNCHANGED <<stream, cursor, deliveries, dlq, ticks, claimed, batch,
                   crashes, histVars>>

-------------------------------------------------------------------------------
\* _handle calls process on the next entry of the batch.
BeginJob(w) ==
    /\ wpc[w] = "pick"
    /\ \E e \in batch[w] :
         /\ IsLeast(e, batch[w])
         /\ job' = [job EXCEPT ![w] = e]
         /\ batch' = [batch EXCEPT ![w] = @ \ {e}]
         /\ attempts' = [attempts EXCEPT ![e] = @ + 1]
    /\ wpc' = [wpc EXCEPT ![w] = "run"]
    /\ UNCHANGED <<redisVars, ticks, claimed, crashes, returned>>

\* process returned.
JobReturns(w) ==
    /\ wpc[w] = "run"
    /\ returned' = returned \cup {job[w]}
    /\ wpc' = [wpc EXCEPT ![w] = "ack"]
    /\ UNCHANGED <<redisVars, ticks, claimed, batch, job, crashes, attempts>>

\* process raised, or the XACK did: _handle logs it, the entry stays pending.
LeavePending(w) ==
    /\ job' = [job EXCEPT ![w] = 0]
    /\ wpc' = [wpc EXCEPT ![w] = NextPc(batch[w])]
    /\ UNCHANGED <<redisVars, ticks, claimed, batch, crashes, histVars>>

JobRaises(w) == wpc[w] = "run" /\ LeavePending(w)

AckFails(w) == wpc[w] = "ack" /\ LeavePending(w)

Ack(w) ==
    /\ wpc[w] = "ack"
    /\ RemovePending(job[w])
    /\ job' = [job EXCEPT ![w] = 0]
    /\ wpc' = [wpc EXCEPT ![w] = NextPc(batch[w])]
    /\ UNCHANGED <<stream, cursor, deliveries, dlq, ticks, claimed, batch,
                   crashes, histVars>>

\* The worker process is killed, or Redis raises in run itself.
Crash(w) ==
    /\ wpc[w] # "down"
    /\ crashes < MaxCrashes
    /\ crashes' = crashes + 1
    /\ wpc' = [wpc EXCEPT ![w] = "down"]
    /\ claimed' = [claimed EXCEPT ![w] = {}]
    /\ batch' = [batch EXCEPT ![w] = {}]
    /\ job' = [job EXCEPT ![w] = 0]
    /\ UNCHANGED <<redisVars, ticks, histVars>>

\* The container restarts (restart: unless-stopped).
Restart(w) ==
    /\ wpc[w] = "down"
    /\ wpc' = [wpc EXCEPT ![w] = "loop"]
    /\ ticks' = [ticks EXCEPT ![w] = 1]
    /\ UNCHANGED <<redisVars, claimed, batch, job, crashes, histVars>>

-------------------------------------------------------------------------------
\* One step of reclaim_stale or of read_jobs.
PollStep(w) ==
    \/ ReadJob(w)  \/ ReadNothing(w)
    \/ Reclaim(w)  \/ SiftLive(w)  \/ SiftPoison(w)  \/ Bury(w)

\* One step of _handle.
HandleStep(w) ==
    \/ BeginJob(w)  \/ JobReturns(w)  \/ JobRaises(w)
    \/ Ack(w)  \/ AckFails(w)

WorkerStep(w) == PollStep(w) \/ HandleStep(w) \/ Restart(w)

QueueNext ==
    \/ \E t \in Tasks : Enqueue(t)
    \/ \E e \in Entries : GoIdle(e)
    \/ \E w \in Workers : WorkerStep(w) \/ Crash(w)

QueueSpec == QueueInit /\ [][QueueNext]_queueVars

\* A worker's loop never stops for good: every call in it is bounded (block_ms,
\* the engine's timeout of 600 s) and a dead container is restarted.  Time
\* passes.  Nobody has to enqueue, and nobody has to crash.
QueueFairness ==
    /\ \A w \in Workers : WF_queueVars(WorkerStep(w))
    /\ \A e \in Entries : WF_queueVars(GoIdle(e))

FairQueueSpec == QueueSpec /\ QueueFairness

-------------------------------------------------------------------------------
(***************************************************************************)
(* Properties                                                              *)
(***************************************************************************)

\* An entry leaves the pending list only after a call of process returned for
\* it or after its copy reached the dead-letter stream, whichever workers
\* hold it at the same time and wherever they are killed: the ack contract of
\* _handle together with the order XADD, XACK in reclaim_stale.
NoLostJob == Settled \subseteq returned \cup Buried

\* Nothing is held, pending or done that was not delivered before.
OnlyDelivered ==
    /\ cursor <= Len(stream) /\ Len(stream) <= MaxJobs
    /\ pel \subseteq 1..cursor
    /\ \A w \in Workers : claimed[w] \cup batch[w] \subseteq 1..cursor

\* What makes NoLostJob inductive: a worker that is about to acknowledge an
\* entry holds the evidence for it.
JobInHand ==
    \A w \in Workers :
        /\ wpc[w] \in {"bury", "run", "ack"} => job[w] \in 1..cursor
        /\ wpc[w] = "ack" => job[w] \in returned
        /\ wpc[w] = "bury" => job[w] \in Buried

QueueInv == QueueTypeOK /\ OnlyDelivered /\ JobInHand /\ NoLostJob

\* The poison cutoff of reclaim_stale: as long as a job is in the queue,
\* process has been called for it at most MAX_DELIVERIES times, even when
\* several workers claim it from one another.
PoisonCutoff ==
    \A e \in pel : attempts[e] <= MaxDeliveries

\* What makes PoisonCutoff inductive: every call of process, and every copy of
\* an entry that is on its way to one, was paid for by a delivery of its own;
\* the copies past the cutoff's check were there before it was reached.
Holders(e)   == {w \in Workers : e \in batch[w]}
Claimants(e) == {w \in Workers : e \in claimed[w]}

PaidFor(e) ==
    attempts[e] + Cardinality(Holders(e)) + Cardinality(Claimants(e))
        <= deliveries[e]

WithinCutoff(e) ==
    e \in pel => attempts[e] + Cardinality(Holders(e)) <= MaxDeliveries

CutoffInv ==
    /\ \A e \in Entries : PaidFor(e) /\ WithinCutoff(e)
    /\ \A e \in Entries : e > cursor => deliveries[e] = 0

\* The queue keeps the promise of JobDelivery.
EvidenceOf(e) ==
    (IF e \in returned THEN {"done"} ELSE {})
        \cup (IF e \in Buried THEN {"buried"} ELSE {})

Delivery == INSTANCE JobDelivery WITH
    accepted <- 1..Len(stream),
    evidence <- [e \in Entries |-> EvidenceOf(e)],
    settled  <- Settled

DeliversEveryJob == Delivery!Spec
===============================================================================
