--------------------------- MODULE AuditQueueProofs ---------------------------
(***************************************************************************)
(* Proofs about AuditQueue for any number of workers, jobs, crashes and    *)
(* deliveries: the type invariant, that no job is lost, that a poisonous   *)
(* one is cut off, and that every step of the queue is one of JobDelivery. *)
(***************************************************************************)
EXTENDS AuditQueue, FiniteSetTheorems, TLAPS

\* XADD to the dead-letter stream buries one more entry.
LEMMA BuriedAppend ==
    ASSUME dlq \in Seq(Entries), NEW e \in Entries, dlq' = Append(dlq, e)
    PROVE  Buried' = Buried \cup {e}
<1>1. /\ Len(dlq') = Len(dlq) + 1
      /\ dlq'[Len(dlq) + 1] = e
      /\ \A i \in 1..Len(dlq) : dlq'[i] = dlq[i]
  OBVIOUS
<1>2. DOMAIN dlq = 1..Len(dlq) /\ DOMAIN dlq' = 1..Len(dlq')
  OBVIOUS
<1>. QED BY <1>1, <1>2 DEF Buried

\* The state reached by Init satisfies the inductive invariant.
LEMMA QueueInitInv == QueueInit => QueueInv
<1>. SUFFICES ASSUME QueueInit PROVE QueueInv
  OBVIOUS
<1>1. QueueTypeOK
  BY QueueAssumption DEF QueueInit, QueueTypeOK, WorkerPc, Entries
<1>2. JobInHand
  BY DEF QueueInit, JobInHand
<1>3. NoLostJob
  BY DEF QueueInit, NoLostJob, Settled
<1>4. OnlyDelivered
  BY QueueAssumption DEF QueueInit, OnlyDelivered
<1>. QED BY <1>1, <1>2, <1>3, <1>4 DEF QueueInv

-------------------------------------------------------------------------------
(***************************************************************************)
(* Every action keeps the types.                                           *)
(***************************************************************************)
LEMMA QueueTypeStep ==
    ASSUME QueueInv, [QueueNext]_queueVars
    PROVE  QueueTypeOK'
<1>. USE QueueAssumption DEF QueueInv, QueueTypeOK
<1>1. ASSUME NEW t \in Tasks, Enqueue(t) PROVE QueueTypeOK'
  <2>1. stream' \in Seq(Tasks)
    BY <1>1 DEF Enqueue
  <2>. QED BY <1>1, <2>1 DEF Enqueue, workerVars, histVars
<1>2. ASSUME NEW e \in Entries, GoIdle(e) PROVE QueueTypeOK'
  <2>1. pel' \subseteq Entries /\ idle' \subseteq pel'
    BY <1>2 DEF GoIdle, Entries
  <2>. QED BY <1>2, <2>1 DEF GoIdle, workerVars, histVars
<1>3. ASSUME NEW w \in Workers, ReadJob(w) PROVE QueueTypeOK'
  <2>1. cursor' \in 0..MaxJobs /\ cursor' \in Entries
    BY <1>3 DEF ReadJob, OnlyDelivered, Entries
  <2>2. pel' \subseteq Entries /\ idle' \subseteq pel'
    BY <1>3, <2>1 DEF ReadJob, Entries
  <2>3. deliveries' \in [Entries -> Nat]
    BY <1>3, <2>1 DEF ReadJob, Entries
  <2>4. ticks' \in [Workers -> 0..ReclaimEvery]
    BY <1>3, <2>1 DEF ReadJob
  <2>5. batch' \in [Workers -> SUBSET Entries]
    BY <1>3, <2>1 DEF ReadJob, Entries
  <2>6. wpc' \in [Workers -> WorkerPc]
    BY <1>3, <2>1 DEF ReadJob, WorkerPc
  <2>. QED BY <1>3, <2>1, <2>2, <2>3, <2>4, <2>5, <2>6 DEF ReadJob, histVars
<1>4. ASSUME NEW w \in Workers, ReadNothing(w) PROVE QueueTypeOK'
  <2>1. ticks' \in [Workers -> 0..ReclaimEvery]
    BY <1>4 DEF ReadNothing
  <2>. QED BY <1>4, <2>1 DEF ReadNothing, redisVars, histVars
<1>5. ASSUME NEW w \in Workers, Reclaim(w) PROVE QueueTypeOK'
  <2>1. pel' \subseteq Entries /\ idle' \subseteq pel'
    BY <1>5 DEF Reclaim, IsClaim, Entries
  <2>2. deliveries' \in [Entries -> Nat]
    BY <1>5 DEF Reclaim, Entries
  <2>3. ticks' \in [Workers -> 0..ReclaimEvery]
    BY <1>5 DEF Reclaim
  <2>4. claimed' \in [Workers -> SUBSET Entries]
    BY <1>5 DEF Reclaim, IsClaim, Entries
  <2>5. wpc' \in [Workers -> WorkerPc]
    BY <1>5 DEF Reclaim, WorkerPc, SiftPc, NextPc
  <2>. QED BY <1>5, <2>1, <2>2, <2>3, <2>4, <2>5 DEF Reclaim, histVars
<1>6. ASSUME NEW w \in Workers, SiftLive(w) PROVE QueueTypeOK'
  <2>1. claimed' \in [Workers -> SUBSET Entries]
    BY <1>6 DEF SiftLive, Entries
  <2>2. batch' \in [Workers -> SUBSET Entries]
    BY <1>6 DEF SiftLive, Entries
  <2>3. wpc' \in [Workers -> WorkerPc]
    BY <1>6 DEF SiftLive, WorkerPc, SiftPc, NextPc
  <2>. QED BY <1>6, <2>1, <2>2, <2>3 DEF SiftLive, redisVars, histVars
<1>7. ASSUME NEW w \in Workers, SiftPoison(w) PROVE QueueTypeOK'
  <2>1. dlq' \in Seq(Entries)
    BY <1>7 DEF SiftPoison, Entries
  <2>2. claimed' \in [Workers -> SUBSET Entries]
    BY <1>7 DEF SiftPoison, Entries
  <2>3. job' \in [Workers -> 0..MaxJobs]
    BY <1>7 DEF SiftPoison, Entries
  <2>4. wpc' \in [Workers -> WorkerPc]
    BY <1>7 DEF SiftPoison, WorkerPc
  <2>. QED BY <1>7, <2>1, <2>2, <2>3, <2>4 DEF SiftPoison, histVars
<1>8. ASSUME NEW w \in Workers, Bury(w) PROVE QueueTypeOK'
  <2>1. pel' \subseteq Entries /\ idle' \subseteq pel'
    BY <1>8 DEF Bury, RemovePending, Entries
  <2>2. job' \in [Workers -> 0..MaxJobs]
    BY <1>8 DEF Bury, Entries
  <2>3. wpc' \in [Workers -> WorkerPc]
    BY <1>8 DEF Bury, WorkerPc, SiftPc, NextPc
  <2>. QED BY <1>8, <2>1, <2>2, <2>3 DEF Bury, histVars
<1>9. ASSUME NEW w \in Workers, BeginJob(w) PROVE QueueTypeOK'
  <2>1. job' \in [Workers -> 0..MaxJobs]
    BY <1>9 DEF BeginJob, Entries
  <2>2. batch' \in [Workers -> SUBSET Entries]
    BY <1>9 DEF BeginJob, Entries
  <2>3. attempts' \in [Entries -> Nat]
    BY <1>9 DEF BeginJob, Entries
  <2>4. wpc' \in [Workers -> WorkerPc]
    BY <1>9 DEF BeginJob, WorkerPc
  <2>. QED BY <1>9, <2>1, <2>2, <2>3, <2>4 DEF BeginJob, redisVars
<1>10. ASSUME NEW w \in Workers, JobReturns(w) PROVE QueueTypeOK'
  <2>1. returned' \subseteq Entries
    <3>1. job[w] \in 1..cursor
      BY <1>10 DEF JobReturns, JobInHand
    <3>2. job[w] \in Entries
      BY <3>1 DEF Entries
    <3>3. returned' = returned \cup {job[w]}
      BY <1>10 DEF JobReturns
    <3>. QED BY <3>2, <3>3
  <2>2. wpc' \in [Workers -> WorkerPc]
    BY <1>10 DEF JobReturns, WorkerPc
  <2>. QED BY <1>10, <2>1, <2>2 DEF JobReturns, redisVars
<1>11. ASSUME NEW w \in Workers, JobRaises(w) \/ AckFails(w) PROVE QueueTypeOK'
  <2>1. job' \in [Workers -> 0..MaxJobs]
    <3>1. job' = [job EXCEPT ![w] = 0]
      BY <1>11 DEF JobRaises, AckFails, LeavePending
    <3>. QED BY <3>1
  <2>2. wpc' \in [Workers -> WorkerPc]
    BY <1>11 DEF JobRaises, AckFails, LeavePending, WorkerPc, NextPc
  <2>. QED BY <1>11, <2>1, <2>2 DEF JobRaises, AckFails, LeavePending, redisVars, histVars
<1>12. ASSUME NEW w \in Workers, Ack(w) PROVE QueueTypeOK'
  <2>1. pel' \subseteq Entries /\ idle' \subseteq pel'
    BY <1>12 DEF Ack, RemovePending, Entries
  <2>2. job' \in [Workers -> 0..MaxJobs]
    BY <1>12 DEF Ack, Entries
  <2>3. wpc' \in [Workers -> WorkerPc]
    BY <1>12 DEF Ack, WorkerPc, NextPc
  <2>. QED BY <1>12, <2>1, <2>2, <2>3 DEF Ack, histVars
<1>13. ASSUME NEW w \in Workers, Crash(w) PROVE QueueTypeOK'
  <2>1. crashes' \in 0..MaxCrashes
    BY <1>13 DEF Crash
  <2>2. wpc' \in [Workers -> WorkerPc]
    BY <1>13 DEF Crash, WorkerPc
  <2>3. claimed' \in [Workers -> SUBSET Entries]
    BY <1>13 DEF Crash, Entries
  <2>4. batch' \in [Workers -> SUBSET Entries]
    BY <1>13 DEF Crash, Entries
  <2>5. job' \in [Workers -> 0..MaxJobs]
    BY <1>13 DEF Crash, Entries
  <2>. QED BY <1>13, <2>1, <2>2, <2>3, <2>4, <2>5 DEF Crash, redisVars, histVars
<1>14. ASSUME NEW w \in Workers, Restart(w) PROVE QueueTypeOK'
  <2>1. wpc' \in [Workers -> WorkerPc]
    BY <1>14 DEF Restart, WorkerPc
  <2>2. ticks' \in [Workers -> 0..ReclaimEvery]
    BY <1>14 DEF Restart
  <2>. QED BY <1>14, <2>1, <2>2 DEF Restart, redisVars, histVars
<1>15. CASE UNCHANGED queueVars
  BY <1>15 DEF queueVars, redisVars, workerVars, histVars
<1>. QED
  BY <1>1, <1>2, <1>3, <1>4, <1>5, <1>6, <1>7, <1>8, <1>9, <1>10, <1>11, <1>12, <1>13, <1>14, <1>15
     DEF QueueNext, WorkerStep, PollStep, HandleStep
-------------------------------------------------------------------------------
(***************************************************************************)
(* Every action keeps the rest of the invariant.                           *)
(***************************************************************************)
LEMMA OnlyDeliveredStep ==
    ASSUME QueueInv, [QueueNext]_queueVars
    PROVE  OnlyDelivered'
<1>. USE QueueAssumption DEF QueueInv, QueueTypeOK, OnlyDelivered
<1>1. ASSUME NEW t \in Tasks, Enqueue(t) PROVE OnlyDelivered'
  <2>1. Len(stream') = Len(stream) + 1
    BY <1>1 DEF Enqueue
  <2>2. UNCHANGED <<cursor, pel, claimed, batch>>
    BY <1>1 DEF Enqueue, workerVars
  <2>. QED BY <1>1, <2>1, <2>2 DEF Enqueue
<1>2. ASSUME NEW e \in Entries, GoIdle(e) PROVE OnlyDelivered'
  BY <1>2 DEF GoIdle, workerVars
<1>3. ASSUME NEW w \in Workers, ReadJob(w) PROVE OnlyDelivered'
  <2>1. cursor' = cursor + 1 /\ cursor' <= Len(stream') /\ Len(stream') <= MaxJobs
    BY <1>3 DEF ReadJob
  <2>2. pel' \subseteq 1..cursor'
    BY <1>3, <2>1 DEF ReadJob
  <2>3. ASSUME NEW v \in Workers PROVE claimed'[v] \cup batch'[v] \subseteq 1..cursor'
    <3>1. claimed'[v] = claimed[v] /\ batch'[v] \subseteq batch[v] \cup {cursor'}
      BY <1>3 DEF ReadJob
    <3>. QED BY <2>1, <3>1
  <2>. QED BY <2>1, <2>2, <2>3
<1>4. ASSUME NEW w \in Workers, ReadNothing(w) PROVE OnlyDelivered'
  BY <1>4 DEF ReadNothing, redisVars
<1>5. ASSUME NEW w \in Workers, Reclaim(w) PROVE OnlyDelivered'
  <2>1. UNCHANGED <<stream, cursor, pel, batch>>
    BY <1>5 DEF Reclaim
  <2>2. ASSUME NEW v \in Workers PROVE claimed'[v] \subseteq claimed[v] \cup pel
    BY <1>5 DEF Reclaim, IsClaim
  <2>. QED BY <2>1, <2>2
<1>6. ASSUME NEW w \in Workers, SiftLive(w) PROVE OnlyDelivered'
  <2>1. UNCHANGED <<stream, cursor, pel>>
    BY <1>6 DEF SiftLive, redisVars
  <2>2. ASSUME NEW v \in Workers
        PROVE claimed'[v] \cup batch'[v] \subseteq claimed[v] \cup batch[v]
    BY <1>6 DEF SiftLive
  <2>. QED BY <2>1, <2>2
<1>7. ASSUME NEW w \in Workers, SiftPoison(w) PROVE OnlyDelivered'
  <2>1. UNCHANGED <<stream, cursor, pel, batch>>
    BY <1>7 DEF SiftPoison
  <2>2. ASSUME NEW v \in Workers PROVE claimed'[v] \subseteq claimed[v]
    BY <1>7 DEF SiftPoison
  <2>. QED BY <2>1, <2>2
<1>8. ASSUME NEW w \in Workers, Bury(w) \/ Ack(w) PROVE OnlyDelivered'
  BY <1>8 DEF Bury, Ack, RemovePending
<1>9. ASSUME NEW w \in Workers, BeginJob(w) PROVE OnlyDelivered'
  <2>1. UNCHANGED <<stream, cursor, pel, claimed>>
    BY <1>9 DEF BeginJob, redisVars
  <2>2. ASSUME NEW v \in Workers PROVE batch'[v] \subseteq batch[v]
    BY <1>9 DEF BeginJob
  <2>. QED BY <2>1, <2>2
<1>10. ASSUME NEW w \in Workers, JobReturns(w) \/ JobRaises(w) \/ AckFails(w)
       PROVE OnlyDelivered'
  BY <1>10 DEF JobReturns, JobRaises, AckFails, LeavePending, redisVars
<1>11. ASSUME NEW w \in Workers, Crash(w) PROVE OnlyDelivered'
  <2>1. UNCHANGED <<stream, cursor, pel>>
    BY <1>11 DEF Crash, redisVars
  <2>2. ASSUME NEW v \in Workers
        PROVE claimed'[v] \subseteq claimed[v] /\ batch'[v] \subseteq batch[v]
    BY <1>11 DEF Crash
  <2>. QED BY <2>1, <2>2
<1>12. ASSUME NEW w \in Workers, Restart(w) PROVE OnlyDelivered'
  BY <1>12 DEF Restart, redisVars
<1>13. CASE UNCHANGED queueVars
  BY <1>13 DEF queueVars, redisVars, workerVars
<1>. QED
  BY <1>1, <1>2, <1>3, <1>4, <1>5, <1>6, <1>7, <1>8, <1>9, <1>10, <1>11, <1>12,
     <1>13
     DEF QueueNext, WorkerStep, PollStep, HandleStep

\* What a worker holds in its hands does not depend on the other workers.
LEMMA JobInHandStep ==
    ASSUME QueueInv, [QueueNext]_queueVars
    PROVE  JobInHand'
<1>. USE QueueAssumption DEF QueueInv, QueueTypeOK, OnlyDelivered, JobInHand
<1>1. ASSUME NEW t \in Tasks, Enqueue(t) PROVE JobInHand'
  BY <1>1 DEF Enqueue, workerVars, histVars, Buried
<1>2. ASSUME NEW e \in Entries, GoIdle(e) PROVE JobInHand'
  BY <1>2 DEF GoIdle, workerVars, histVars, Buried
<1>3. ASSUME NEW w \in Workers, ReadJob(w) PROVE JobInHand'
  <2>1. /\ cursor' = cursor + 1 /\ UNCHANGED <<job, dlq, returned>>
        /\ \A v \in Workers : wpc'[v] = wpc[v] \/ wpc'[v] = "pick"
    BY <1>3 DEF ReadJob, histVars
  <2>. QED BY <2>1 DEF Buried
<1>4. ASSUME NEW w \in Workers, ReadNothing(w) PROVE JobInHand'
  BY <1>4 DEF ReadNothing, redisVars, histVars, Buried
<1>5. ASSUME NEW w \in Workers, Reclaim(w) \/ SiftLive(w) PROVE JobInHand'
  <2>1. /\ UNCHANGED <<cursor, job, dlq, returned>>
        /\ \A v \in Workers : wpc'[v] = wpc[v] \/ wpc'[v] \in {"loop", "sift", "pick"}
    BY <1>5 DEF Reclaim, SiftLive, SiftPc, NextPc, redisVars, histVars
  <2>. QED BY <2>1 DEF Buried
<1>6. ASSUME NEW w \in Workers, SiftPoison(w) PROVE JobInHand'
  <2>1. PICK e \in claimed[w] : dlq' = Append(dlq, e) /\ job' = [job EXCEPT ![w] = e]
    BY <1>6 DEF SiftPoison
  <2>2. e \in 1..cursor /\ e \in Entries
    BY <2>1
  <2>3. Buried' = Buried \cup {e}
    BY <2>1, <2>2, BuriedAppend
  <2>4. UNCHANGED <<cursor, returned>> /\ wpc' = [wpc EXCEPT ![w] = "bury"]
    BY <1>6 DEF SiftPoison, histVars
  <2>5. ASSUME NEW v \in Workers, v # w
        PROVE wpc'[v] = wpc[v] /\ job'[v] = job[v]
    BY <2>1, <2>4, <2>5
  <2>6. wpc'[w] = "bury" /\ job'[w] = e
    BY <2>1, <2>4
  <2>. QED BY <2>2, <2>3, <2>4, <2>5, <2>6
<1>7. ASSUME NEW w \in Workers,
             Bury(w) \/ JobRaises(w) \/ AckFails(w) \/ Ack(w) \/ Crash(w) \/ Restart(w)
      PROVE JobInHand'
  <2>1. /\ UNCHANGED <<cursor, dlq, returned>>
        /\ wpc'[w] \in {"loop", "sift", "pick", "down"}
        /\ \A v \in Workers \ {w} : wpc'[v] = wpc[v] /\ job'[v] = job[v]
    BY <1>7 DEF Bury, JobRaises, AckFails, LeavePending, Ack, Crash, Restart,
                SiftPc, NextPc, redisVars, histVars
  <2>. QED BY <2>1 DEF Buried
<1>8. ASSUME NEW w \in Workers, BeginJob(w) PROVE JobInHand'
  <2>1. /\ UNCHANGED <<cursor, dlq, returned>>
        /\ wpc'[w] = "run" /\ job'[w] \in batch[w]
        /\ \A v \in Workers \ {w} : wpc'[v] = wpc[v] /\ job'[v] = job[v]
    BY <1>8 DEF BeginJob, redisVars
  <2>. QED BY <2>1 DEF Buried
<1>9. ASSUME NEW w \in Workers, JobReturns(w) PROVE JobInHand'
  <2>1. /\ UNCHANGED <<cursor, dlq, job>>
        /\ wpc[w] = "run" /\ wpc'[w] = "ack"
        /\ returned' = returned \cup {job[w]}
        /\ \A v \in Workers \ {w} : wpc'[v] = wpc[v]
    BY <1>9 DEF JobReturns, redisVars
  <2>. QED BY <2>1 DEF Buried
<1>10. CASE UNCHANGED queueVars
  BY <1>10 DEF queueVars, redisVars, workerVars, histVars, Buried
<1>. QED
  BY <1>1, <1>2, <1>3, <1>4, <1>5, <1>6, <1>7, <1>8, <1>9, <1>10
     DEF QueueNext, WorkerStep, PollStep, HandleStep

\* The evidence never shrinks, and an entry leaves the pending list only
\* through the hands of a worker that has evidence for it.
LEMMA NoLostJobStep ==
    ASSUME QueueInv, [QueueNext]_queueVars
    PROVE  NoLostJob'
<1>. USE QueueAssumption DEF QueueInv, QueueTypeOK, OnlyDelivered, NoLostJob, Settled
<1>1. ASSUME UNCHANGED <<cursor, pel, dlq>>, returned \subseteq returned'
      PROVE  NoLostJob'
  BY <1>1 DEF Buried
<1>2. ASSUME NEW w \in Workers, ReadJob(w) PROVE NoLostJob'
  <2>1. /\ cursor' = cursor + 1 /\ pel' = pel \cup {cursor'}
        /\ UNCHANGED <<dlq, returned>>
    BY <1>2 DEF ReadJob, histVars
  <2>. QED BY <2>1 DEF Buried
<1>3. ASSUME NEW w \in Workers, SiftPoison(w) PROVE NoLostJob'
  <2>1. PICK e \in claimed[w] : dlq' = Append(dlq, e)
    BY <1>3 DEF SiftPoison
  <2>2. e \in Entries
    BY <2>1
  <2>3. Buried' = Buried \cup {e}
    BY <2>1, <2>2, BuriedAppend
  <2>4. UNCHANGED <<cursor, pel, returned>>
    BY <1>3 DEF SiftPoison, histVars
  <2>. QED BY <2>3, <2>4
<1>4. ASSUME NEW w \in Workers, Bury(w) \/ Ack(w) PROVE NoLostJob'
  <2>1. pel' = pel \ {job[w]} /\ UNCHANGED <<cursor, dlq, returned>>
    BY <1>4 DEF Bury, Ack, RemovePending, histVars
  <2>2. job[w] \in returned \cup Buried
    BY <1>4 DEF Bury, Ack, JobInHand
  <2>. QED BY <2>1, <2>2 DEF Buried
<1>5. ASSUME NEW w \in Workers, JobReturns(w) PROVE NoLostJob'
  BY <1>1, <1>5 DEF JobReturns, redisVars
<1>6. ASSUME NEW w \in Workers,
             \/ ReadNothing(w) \/ Reclaim(w) \/ SiftLive(w) \/ BeginJob(w)
             \/ JobRaises(w) \/ AckFails(w) \/ Crash(w) \/ Restart(w)
      PROVE NoLostJob'
  BY <1>1, <1>6 DEF ReadNothing, Reclaim, SiftLive, BeginJob, JobRaises, AckFails,
                    LeavePending, Crash, Restart, redisVars, histVars
<1>7. ASSUME NEW t \in Tasks, Enqueue(t) PROVE NoLostJob'
  BY <1>1, <1>7 DEF Enqueue, histVars
<1>8. ASSUME NEW e \in Entries, GoIdle(e) PROVE NoLostJob'
  BY <1>1, <1>8 DEF GoIdle, histVars
<1>9. CASE UNCHANGED queueVars
  BY <1>1, <1>9 DEF queueVars, redisVars, histVars
<1>. QED
  BY <1>2, <1>3, <1>4, <1>5, <1>6, <1>7, <1>8, <1>9
     DEF QueueNext, WorkerStep, PollStep, HandleStep

\* The invariant is inductive.
LEMMA QueueInvStep == QueueInv /\ [QueueNext]_queueVars => QueueInv'
BY QueueTypeStep, OnlyDeliveredStep, JobInHandStep, NoLostJobStep DEF QueueInv

-------------------------------------------------------------------------------
(***************************************************************************)
(* The theorems.                                                           *)
(***************************************************************************)

\* The inductive invariant holds in every reachable state of the queue.
THEOREM QueueInvariant == QueueSpec => []QueueInv
BY QueueInitInv, QueueInvStep, PTL DEF QueueSpec

\* Type correctness of the queue and of the workers' loop.
THEOREM QueueTypeCorrect == QueueSpec => []QueueTypeOK
<1>1. QueueInv => QueueTypeOK
  BY DEF QueueInv
<1>. QED BY QueueInvariant, <1>1, PTL

\* An entry leaves the pending list only when process returned for it or when
\* it was copied to the dead-letter stream.
THEOREM QueueLosesNoJob == QueueSpec => []NoLostJob
<1>1. QueueInv => NoLostJob
  BY DEF QueueInv
<1>. QED BY QueueInvariant, <1>1, PTL

-------------------------------------------------------------------------------
(***************************************************************************)
(* The cutoff: calls and copies of an entry are counted against its        *)
(* deliveries.                                                             *)
(***************************************************************************)

\* Sets of workers can be counted; a larger one counts more.
LEMMA WorkersCount ==
    ASSUME NEW S, S \subseteq Workers
    PROVE  /\ IsFiniteSet(S) /\ Cardinality(S) \in Nat
           /\ \A T : T \subseteq S => Cardinality(T) <= Cardinality(S)
           /\ \A w \in Workers : Cardinality(S \cup {w}) <= Cardinality(S) + 1
           /\ \A w \in S : Cardinality(S \ {w}) = Cardinality(S) - 1
<1>1. IsFiniteSet(S)
  BY FS_Subset, QueueAssumption
<1>2. Cardinality(S) \in Nat
  BY <1>1, FS_CardinalityType
<1>3. ASSUME NEW T, T \subseteq S PROVE Cardinality(T) <= Cardinality(S)
  BY <1>1, <1>3, FS_Subset
<1>4. ASSUME NEW w \in Workers PROVE Cardinality(S \cup {w}) <= Cardinality(S) + 1
  <2>1. Cardinality(S \cup {w}) = IF w \in S THEN Cardinality(S) ELSE Cardinality(S) + 1
    BY <1>1, FS_AddElement
  <2>. QED BY <1>2, <2>1
<1>5. ASSUME NEW w \in S PROVE Cardinality(S \ {w}) = Cardinality(S) - 1
  BY <1>1, FS_RemoveElement
<1>. QED BY <1>1, <1>2, <1>3, <1>4, <1>5

\* The state reached by Init satisfies the counts.
LEMMA CutoffInit == QueueInit => CutoffInv
<1>. SUFFICES ASSUME QueueInit PROVE CutoffInv
  OBVIOUS
<1>1. ASSUME NEW e \in Entries PROVE PaidFor(e) /\ WithinCutoff(e)
  <2>1. Holders(e) = {} /\ Claimants(e) = {}
    BY DEF QueueInit, Holders, Claimants
  <2>2. attempts[e] = 0 /\ deliveries[e] = 0 /\ e \notin pel
    BY DEF QueueInit
  <2>. QED BY <2>1, <2>2, FS_EmptySet DEF PaidFor, WithinCutoff
<1>2. \A e \in Entries : deliveries[e] = 0
  BY DEF QueueInit
<1>. QED BY <1>1, <1>2 DEF CutoffInv

\* An entry that is not delivered, called or copied again stays paid for.
LEMMA NoMoreCopies ==
    ASSUME QueueTypeOK, NEW e \in Entries, PaidFor(e), WithinCutoff(e),
           Holders(e)' \subseteq Holders(e), Claimants(e)' \subseteq Claimants(e),
           attempts'[e] = attempts[e], deliveries'[e] = deliveries[e],
           e \in pel' => e \in pel
    PROVE  PaidFor(e)' /\ WithinCutoff(e)'
<1>1. /\ Holders(e) \subseteq Workers /\ Claimants(e) \subseteq Workers
      /\ Holders(e)' \subseteq Workers /\ Claimants(e)' \subseteq Workers
  BY DEF Holders, Claimants
<1>2. /\ Cardinality(Holders(e)) \in Nat /\ Cardinality(Claimants(e)) \in Nat
      /\ Cardinality(Holders(e)') \in Nat /\ Cardinality(Claimants(e)') \in Nat
      /\ Cardinality(Holders(e)') <= Cardinality(Holders(e))
      /\ Cardinality(Claimants(e)') <= Cardinality(Claimants(e))
  BY <1>1, WorkersCount
<1>3. attempts[e] \in Nat /\ deliveries[e] \in Nat
  BY DEF QueueTypeOK
<1>. QED BY <1>2, <1>3, QueueAssumption DEF PaidFor, WithinCutoff

\* read_jobs delivers an entry nobody has: it is paid for and in one hand.
LEMMA ReadJobCounts ==
    ASSUME QueueInv, CutoffInv, NEW w \in Workers, ReadJob(w)
    PROVE  CutoffInv'
<1>. USE QueueAssumption DEF QueueInv, QueueTypeOK
<1>1. PICK n \in Entries :
        /\ n = cursor + 1 /\ cursor' = n
        /\ pel' = pel \cup {n}
        /\ deliveries' = [deliveries EXCEPT ![n] = 1]
        /\ batch' = [batch EXCEPT ![w] = {n}]
        /\ UNCHANGED <<claimed, attempts>>
  <2>1. cursor + 1 \in Entries /\ cursor' = cursor + 1
    BY DEF ReadJob, OnlyDelivered, Entries
  <2>. QED BY <2>1 DEF ReadJob, histVars
<1>2. ASSUME NEW e \in Entries, e # n PROVE PaidFor(e)' /\ WithinCutoff(e)'
  <2>1. Holders(e)' \subseteq Holders(e) /\ Claimants(e)' \subseteq Claimants(e)
    BY <1>1, <1>2 DEF Holders, Claimants
  <2>2. /\ attempts'[e] = attempts[e] /\ deliveries'[e] = deliveries[e]
        /\ e \in pel' => e \in pel
    BY <1>1, <1>2
  <2>3. PaidFor(e) /\ WithinCutoff(e)
    BY DEF CutoffInv
  <2>. QED BY <2>1, <2>2, <2>3, NoMoreCopies
<1>3. PaidFor(n)' /\ WithinCutoff(n)'
  <2>1. deliveries[n] = 0 /\ PaidFor(n)
    BY <1>1 DEF CutoffInv
  <2>2. Holders(n) \subseteq Workers /\ Claimants(n) \subseteq Workers
    BY DEF Holders, Claimants
  <2>3. /\ Cardinality(Holders(n)) \in Nat /\ Cardinality(Claimants(n)) \in Nat
        /\ attempts[n] \in Nat
    BY <2>2, WorkersCount
  <2>4. /\ attempts[n] = 0 /\ Cardinality(Holders(n)) = 0
        /\ Cardinality(Claimants(n)) = 0
    BY <2>1, <2>3 DEF PaidFor
  <2>5. Holders(n)' \subseteq Holders(n) \cup {w} /\ Claimants(n)' = Claimants(n)
    BY <1>1 DEF Holders, Claimants
  <2>6. Cardinality(Holders(n) \cup {w}) <= 1
    <3>1. Cardinality(Holders(n) \cup {w}) <= Cardinality(Holders(n)) + 1
      BY <2>2, WorkersCount
    <3>. QED BY <2>4, <3>1
  <2>7. Holders(n) \cup {w} \subseteq Workers
    BY <2>2
  <2>8. /\ Cardinality(Holders(n) \cup {w}) \in Nat
        /\ Cardinality(Holders(n)') <= Cardinality(Holders(n) \cup {w})
    BY <2>5, <2>7, WorkersCount
  <2>9. Cardinality(Holders(n)') \in Nat
    BY <2>5, <2>7, WorkersCount
  <2>10. attempts'[n] = 0 /\ deliveries'[n] = 1 /\ MaxDeliveries >= 1
    BY <1>1, <2>4
  <2>. HIDE DEF QueueInv, QueueTypeOK
  <2>. QED BY <2>4, <2>5, <2>6, <2>8, <2>9, <2>10 DEF PaidFor, WithinCutoff
<1>4. \A e \in Entries : e > cursor' => deliveries'[e] = 0
  BY <1>1 DEF CutoffInv
<1>. QED BY <1>2, <1>3, <1>4 DEF CutoffInv

\* XAUTOCLAIM pays for the copies it makes.
LEMMA ReclaimCounts ==
    ASSUME QueueInv, CutoffInv, NEW w \in Workers, Reclaim(w)
    PROVE  CutoffInv'
<1>. USE QueueAssumption DEF QueueInv, QueueTypeOK
<1>1. PICK S \in SUBSET idle :
        /\ deliveries' = [e \in Entries |-> deliveries[e] + (IF e \in S THEN 1 ELSE 0)]
        /\ claimed' = [claimed EXCEPT ![w] = S]
  BY DEF Reclaim
<1>2. UNCHANGED <<cursor, pel, batch, attempts>>
  BY DEF Reclaim, histVars
<1>3. ASSUME NEW e \in Entries PROVE PaidFor(e)' /\ WithinCutoff(e)'
  <2>1. PaidFor(e) /\ WithinCutoff(e)
    BY DEF CutoffInv
  <2>2. Holders(e)' = Holders(e) /\ attempts'[e] = attempts[e]
    BY <1>2 DEF Holders
  <2>3. CASE e \in S
    <3>1. Claimants(e)' \subseteq Claimants(e) \cup {w}
      BY <1>1 DEF Claimants
    <3>2. Claimants(e) \cup {w} \subseteq Workers /\ Claimants(e) \subseteq Workers
          /\ Holders(e) \subseteq Workers
      BY DEF Claimants, Holders
    <3>3. /\ Cardinality(Claimants(e)') <= Cardinality(Claimants(e) \cup {w})
          /\ Cardinality(Claimants(e) \cup {w}) <= Cardinality(Claimants(e)) + 1
      BY <3>1, <3>2, WorkersCount
    <3>4. Claimants(e)' \subseteq Workers
      BY <3>1, <3>2
    <3>5. /\ Cardinality(Claimants(e)') \in Nat
          /\ Cardinality(Claimants(e) \cup {w}) \in Nat
          /\ Cardinality(Claimants(e)) \in Nat /\ Cardinality(Holders(e)) \in Nat
      BY <3>2, <3>4, WorkersCount
    <3>6. /\ deliveries'[e] = deliveries[e] + 1
          /\ deliveries[e] \in Nat /\ attempts[e] \in Nat
      BY <1>1, <2>3
    <3>. HIDE DEF QueueInv, QueueTypeOK
    <3>7. PaidFor(e)'
      BY <2>1, <2>2, <3>3, <3>5, <3>6 DEF PaidFor
    <3>. QED BY <1>2, <2>1, <2>2, <3>7 DEF WithinCutoff
  <2>4. CASE e \notin S
    <3>1. Claimants(e)' \subseteq Claimants(e)
      BY <1>1, <2>4 DEF Claimants
    <3>2. deliveries'[e] = deliveries[e]
      BY <1>1, <2>4
    <3>. QED BY <1>2, <2>1, <2>2, <3>1, <3>2, NoMoreCopies
  <2>. QED BY <2>3, <2>4
<1>4. \A e \in Entries : e > cursor' => deliveries'[e] = 0
  <2>1. ASSUME NEW e \in Entries, e > cursor PROVE e \notin S
    BY <2>1 DEF OnlyDelivered, Entries
  <2>. QED BY <1>1, <1>2, <2>1 DEF CutoffInv
<1>. QED BY <1>3, <1>4 DEF CutoffInv

\* An entry that passes the check of the cutoff goes from one hand to the other
\* of the same worker.
LEMMA SiftLiveCounts ==
    ASSUME QueueInv, CutoffInv, NEW w \in Workers, SiftLive(w)
    PROVE  CutoffInv'
<1>. USE QueueAssumption DEF QueueInv, QueueTypeOK
<1>1. PICK n \in claimed[w] :
        /\ ~IsPoison(n)
        /\ claimed' = [claimed EXCEPT ![w] = @ \ {n}]
        /\ batch' = [batch EXCEPT ![w] = @ \cup {n}]
  BY DEF SiftLive
<1>2. UNCHANGED <<cursor, pel, deliveries, attempts>> /\ n \in Entries
  BY <1>1 DEF SiftLive, redisVars, histVars
<1>3. ASSUME NEW e \in Entries, e # n PROVE PaidFor(e)' /\ WithinCutoff(e)'
  <2>1. Holders(e)' \subseteq Holders(e) /\ Claimants(e)' \subseteq Claimants(e)
    BY <1>1, <1>3 DEF Holders, Claimants
  <2>. QED BY <1>2, <2>1, NoMoreCopies DEF CutoffInv
<1>4. PaidFor(n)' /\ WithinCutoff(n)'
  <2>1. PaidFor(n)
    BY <1>2 DEF CutoffInv
  <2>2. /\ Holders(n)' \subseteq Holders(n) \cup {w}
        /\ Claimants(n)' = Claimants(n) \ {w} /\ w \in Claimants(n)
    BY <1>1 DEF Holders, Claimants
  <2>3. Holders(n) \cup {w} \subseteq Workers /\ Holders(n) \subseteq Workers
        /\ Claimants(n) \subseteq Workers /\ Holders(n)' \subseteq Workers
    BY DEF Holders, Claimants
  <2>4. /\ Cardinality(Holders(n)') <= Cardinality(Holders(n) \cup {w})
        /\ Cardinality(Holders(n) \cup {w}) <= Cardinality(Holders(n)) + 1
        /\ Cardinality(Claimants(n)') = Cardinality(Claimants(n)) - 1
    BY <2>2, <2>3, WorkersCount
  <2>5. /\ Cardinality(Holders(n)') \in Nat /\ Cardinality(Holders(n)) \in Nat
        /\ Cardinality(Claimants(n)) \in Nat
        /\ Cardinality(Holders(n) \cup {w}) \in Nat
    BY <2>3, WorkersCount
  <2>6. /\ attempts[n] \in Nat /\ deliveries[n] \in Nat
        /\ attempts'[n] = attempts[n] /\ deliveries'[n] = deliveries[n]
    BY <1>2
  <2>7. PaidFor(n)'
    BY <2>1, <2>4, <2>5, <2>6 DEF PaidFor
  <2>8. n \in pel' => deliveries[n] <= MaxDeliveries
    BY <1>1, <1>2, <2>6 DEF IsPoison
  <2>9. Cardinality(Claimants(n)') \in Nat
    <3>1. Claimants(n)' \subseteq Workers
      BY <2>2, <2>3
    <3>. QED BY <3>1, WorkersCount
  <2>10. WithinCutoff(n)'
    BY <2>5, <2>6, <2>7, <2>8, <2>9 DEF WithinCutoff, PaidFor
  <2>. QED BY <2>7, <2>10
<1>. QED BY <1>2, <1>3, <1>4 DEF CutoffInv

\* A call of process uses up a copy.
LEMMA BeginJobCounts ==
    ASSUME QueueInv, CutoffInv, NEW w \in Workers, BeginJob(w)
    PROVE  CutoffInv'
<1>. USE QueueAssumption DEF QueueInv, QueueTypeOK
<1>1. PICK n \in batch[w] :
        /\ batch' = [batch EXCEPT ![w] = @ \ {n}]
        /\ attempts' = [attempts EXCEPT ![n] = @ + 1]
  BY DEF BeginJob
<1>2. UNCHANGED <<cursor, pel, deliveries, claimed>> /\ n \in Entries
  BY <1>1 DEF BeginJob, redisVars
<1>3. ASSUME NEW e \in Entries, e # n PROVE PaidFor(e)' /\ WithinCutoff(e)'
  <2>1. Holders(e)' \subseteq Holders(e) /\ Claimants(e)' \subseteq Claimants(e)
    BY <1>1, <1>2, <1>3 DEF Holders, Claimants
  <2>2. attempts'[e] = attempts[e]
    BY <1>1, <1>3
  <2>. QED BY <1>2, <2>1, <2>2, NoMoreCopies DEF CutoffInv
<1>4. PaidFor(n)' /\ WithinCutoff(n)'
  <2>1. PaidFor(n) /\ WithinCutoff(n)
    BY <1>2 DEF CutoffInv
  <2>2. /\ Holders(n)' = Holders(n) \ {w} /\ w \in Holders(n)
        /\ Claimants(n)' = Claimants(n)
    BY <1>1, <1>2 DEF Holders, Claimants
  <2>3. Holders(n) \subseteq Workers /\ Claimants(n) \subseteq Workers
    BY DEF Holders, Claimants
  <2>4. Cardinality(Holders(n)') = Cardinality(Holders(n)) - 1
    BY <2>2, <2>3, WorkersCount
  <2>5. Cardinality(Holders(n)) \in Nat /\ Cardinality(Claimants(n)) \in Nat
    BY <2>3, WorkersCount
  <2>6. /\ attempts[n] \in Nat /\ attempts'[n] = attempts[n] + 1
        /\ deliveries[n] \in Nat /\ deliveries'[n] = deliveries[n]
    BY <1>1, <1>2
  <2>. QED BY <1>2, <2>1, <2>2, <2>4, <2>5, <2>6 DEF PaidFor, WithinCutoff
<1>. QED BY <1>2, <1>3, <1>4 DEF CutoffInv

\* The other steps make no copy, no call and no delivery.
LEMMA QuietCounts ==
    ASSUME QueueInv, CutoffInv,
           UNCHANGED <<cursor, deliveries, attempts>>, pel' \subseteq pel,
           \A w \in Workers : batch'[w] \subseteq batch[w] /\ claimed'[w] \subseteq claimed[w]
    PROVE  CutoffInv'
<1>1. ASSUME NEW e \in Entries PROVE PaidFor(e)' /\ WithinCutoff(e)'
  <2>1. Holders(e)' \subseteq Holders(e) /\ Claimants(e)' \subseteq Claimants(e)
    BY DEF Holders, Claimants
  <2>. QED BY <2>1, NoMoreCopies DEF CutoffInv, QueueInv
<1>. QED BY <1>1 DEF CutoffInv

\* The counts are inductive, given the invariant of the queue.
LEMMA CutoffStep ==
    ASSUME QueueInv, CutoffInv, [QueueNext]_queueVars
    PROVE  CutoffInv'
<1>1. ASSUME NEW w \in Workers, ReadJob(w) \/ Reclaim(w) \/ SiftLive(w) \/ BeginJob(w)
      PROVE  CutoffInv'
  BY <1>1, ReadJobCounts, ReclaimCounts, SiftLiveCounts, BeginJobCounts
<1>2. ASSUME NEW w \in Workers,
             \/ ReadNothing(w) \/ SiftPoison(w) \/ Bury(w) \/ JobReturns(w)
             \/ JobRaises(w) \/ AckFails(w) \/ Ack(w) \/ Crash(w) \/ Restart(w)
      PROVE  CutoffInv'
  <2>1. UNCHANGED <<cursor, deliveries, attempts>> /\ pel' \subseteq pel
    BY <1>2 DEF ReadNothing, SiftPoison, Bury, JobReturns, JobRaises, AckFails,
                LeavePending, Ack, Crash, Restart, RemovePending, redisVars, histVars
  <2>2. \A v \in Workers : batch'[v] \subseteq batch[v] /\ claimed'[v] \subseteq claimed[v]
    BY <1>2 DEF ReadNothing, SiftPoison, Bury, JobReturns, JobRaises, AckFails,
                LeavePending, Ack, Crash, Restart, QueueInv, QueueTypeOK
  <2>. QED BY <2>1, <2>2, QuietCounts
<1>3. CASE \/ \E t \in Tasks : Enqueue(t)
           \/ \E e \in Entries : GoIdle(e)
           \/ UNCHANGED queueVars
  <2>1. UNCHANGED <<cursor, deliveries, attempts, pel, batch, claimed>>
    BY <1>3 DEF Enqueue, GoIdle, queueVars, redisVars, workerVars, histVars
  <2>. QED BY <2>1, QuietCounts
<1>. QED BY <1>1, <1>2, <1>3 DEF QueueNext, WorkerStep, PollStep, HandleStep

\* Calls and copies stay within the deliveries, in every reachable state.
THEOREM CutoffInvariant == QueueSpec => []CutoffInv
<1>1. QueueInv /\ CutoffInv /\ [QueueNext]_queueVars => CutoffInv'
  BY CutoffStep
<1>. QED BY CutoffInit, <1>1, QueueInvariant, PTL DEF QueueSpec

\* As long as a job is in the queue, process has been called for it at most
\* MAX_DELIVERIES times, however many workers claim it from one another.
THEOREM PoisonIsCutOff == QueueSpec => []PoisonCutoff
<1>1. QueueInv /\ CutoffInv => PoisonCutoff
  <2>. SUFFICES ASSUME QueueInv, CutoffInv, NEW e \in pel
                PROVE  attempts[e] <= MaxDeliveries
    BY DEF PoisonCutoff
  <2>1. e \in Entries /\ attempts[e] \in Nat
    BY DEF QueueInv, QueueTypeOK
  <2>2. attempts[e] + Cardinality(Holders(e)) <= MaxDeliveries
    BY <2>1 DEF CutoffInv, WithinCutoff
  <2>3. Holders(e) \subseteq Workers
    BY DEF Holders
  <2>4. Cardinality(Holders(e)) \in Nat
    BY <2>3, WorkersCount
  <2>. QED BY <2>1, <2>2, <2>4, QueueAssumption
<1>. QED BY <1>1, QueueInvariant, CutoffInvariant, PTL

-------------------------------------------------------------------------------
(***************************************************************************)
(* The queue implements JobDelivery, its liveness apart.                   *)
(***************************************************************************)

\* The state of JobDelivery that a state of the queue stands for.
EvidenceMap == [e \in Entries |-> EvidenceOf(e)]

\* A step that leaves the stream, the settled entries and the evidence alone is
\* a stuttering step of JobDelivery.
LEMMA DeliveryStutter ==
    ASSUME UNCHANGED <<stream, Settled, returned, dlq>>
    PROVE  UNCHANGED Delivery!vars
BY DEF Delivery!vars, EvidenceOf, Buried

\* process returned for e: one more witness.
LEMMA ReturnIsWitness ==
    ASSUME NEW e \in Entries, e \in 1..Len(stream),
           UNCHANGED <<stream, Settled, dlq>>, returned' = returned \cup {e}
    PROVE  Delivery!Next
<1>1. EvidenceMap' = [EvidenceMap EXCEPT ![e] = @ \cup {"done"}]
  BY DEF EvidenceMap, EvidenceOf, Buried
<1>2. Delivery!Witness(e, "done")
  BY <1>1 DEF Delivery!Witness, EvidenceMap
<1>. QED BY <1>2 DEF Delivery!Next, Delivery!Evidence

\* The copy of e reached the dead-letter stream: one more witness.
LEMMA BurialIsWitness ==
    ASSUME NEW e \in Entries, e \in 1..Len(stream),
           UNCHANGED <<stream, Settled, returned>>, Buried' = Buried \cup {e}
    PROVE  Delivery!Next
<1>1. EvidenceMap' = [EvidenceMap EXCEPT ![e] = @ \cup {"buried"}]
  BY DEF EvidenceMap, EvidenceOf
<1>2. Delivery!Witness(e, "buried")
  BY <1>1 DEF Delivery!Witness, EvidenceMap
<1>. QED BY <1>2 DEF Delivery!Next, Delivery!Evidence

\* XACK of e, for which there is evidence: JobDelivery settles e, or had
\* settled it before (another worker acknowledged it first).
LEMMA AckIsSettle ==
    ASSUME NEW e \in Entries, e \in 1..cursor, cursor <= Len(stream),
           cursor \in Nat, Len(stream) \in Nat,
           e \in returned \cup Buried,
           UNCHANGED <<stream, cursor, dlq, returned>>, pel' = pel \ {e}
    PROVE  [Delivery!Next]_Delivery!vars
<1>1. Settled' = Settled \cup {e}
  BY DEF Settled
<1>2. CASE e \in Settled
  BY <1>1, <1>2, DeliveryStutter
<1>3. CASE e \notin Settled
  <2>1. EvidenceMap[e] # {}
    BY DEF EvidenceMap, EvidenceOf
  <2>2. EvidenceMap' = EvidenceMap
    BY DEF EvidenceMap, EvidenceOf, Buried
  <2>3. e \in 1..Len(stream)
    OBVIOUS
  <2>4. Delivery!Settle(e)
    BY <1>1, <1>3, <2>1, <2>2, <2>3 DEF Delivery!Settle, EvidenceMap
  <2>. QED BY <2>4 DEF Delivery!Next
<1>. QED BY <1>2, <1>3

\* Every step of the queue is a step of JobDelivery or leaves its state alone.
LEMMA DeliveryStep ==
    QueueInv /\ [QueueNext]_queueVars => [Delivery!Next]_Delivery!vars
<1>. SUFFICES ASSUME QueueInv, [QueueNext]_queueVars
              PROVE  [Delivery!Next]_Delivery!vars
  OBVIOUS
<1>. USE QueueAssumption DEF QueueInv, QueueTypeOK, OnlyDelivered
<1>1. ASSUME NEW t \in Tasks, Enqueue(t) PROVE Delivery!Next
  <2>1. /\ Len(stream') = Len(stream) + 1
        /\ Len(stream) + 1 \in Entries
    BY <1>1 DEF Enqueue, Entries
  <2>2. 1..Len(stream') = (1..Len(stream)) \cup {Len(stream) + 1}
    BY <2>1
  <2>3. Settled' = Settled /\ EvidenceMap' = EvidenceMap
    BY <1>1 DEF Enqueue, histVars, Settled, EvidenceMap, EvidenceOf, Buried
  <2>4. Delivery!Accept(Len(stream) + 1)
    BY <2>1, <2>2, <2>3 DEF Delivery!Accept, EvidenceMap
  <2>. QED BY <2>1, <2>4 DEF Delivery!Next
<1>2. ASSUME NEW w \in Workers, ReadJob(w) PROVE UNCHANGED Delivery!vars
  <2>1. cursor' = cursor + 1 /\ pel' = pel \cup {cursor'}
    BY <1>2 DEF ReadJob
  <2>2. Settled' = Settled
    BY <2>1 DEF Settled
  <2>. QED BY <1>2, <2>2, DeliveryStutter DEF ReadJob, histVars
<1>3. ASSUME NEW w \in Workers, SiftPoison(w) PROVE Delivery!Next
  <2>1. PICK e \in claimed[w] : dlq' = Append(dlq, e)
    BY <1>3 DEF SiftPoison
  <2>2. e \in Entries /\ e \in 1..Len(stream)
    BY <2>1
  <2>3. Buried' = Buried \cup {e}
    BY <2>1, <2>2, BuriedAppend
  <2>4. UNCHANGED <<stream, Settled, returned>>
    BY <1>3 DEF SiftPoison, histVars, Settled
  <2>. QED BY <2>2, <2>3, <2>4, BurialIsWitness
<1>4. ASSUME NEW w \in Workers, Bury(w) \/ Ack(w)
      PROVE  [Delivery!Next]_Delivery!vars
  <2>1. pel' = pel \ {job[w]} /\ UNCHANGED <<stream, cursor, dlq, returned>>
    BY <1>4 DEF Bury, Ack, RemovePending, histVars
  <2>2. job[w] \in 1..cursor /\ job[w] \in returned \cup Buried
    BY <1>4 DEF Bury, Ack, JobInHand
  <2>3. job[w] \in Entries
    BY <2>2 DEF Entries
  <2>4. cursor <= Len(stream) /\ cursor \in Nat /\ Len(stream) \in Nat
    OBVIOUS
  <2>. HIDE DEF QueueInv, QueueTypeOK, OnlyDelivered
  <2>. QED BY <2>1, <2>2, <2>3, <2>4, AckIsSettle
<1>5. ASSUME NEW w \in Workers, JobReturns(w) PROVE Delivery!Next
  <2>1. job[w] \in 1..cursor
    BY <1>5 DEF JobReturns, JobInHand
  <2>2. job[w] \in Entries /\ job[w] \in 1..Len(stream)
    BY <2>1 DEF Entries
  <2>3. UNCHANGED <<stream, Settled, dlq>> /\ returned' = returned \cup {job[w]}
    BY <1>5 DEF JobReturns, redisVars, Settled
  <2>. QED BY <2>2, <2>3, ReturnIsWitness
<1>6. ASSUME NEW w \in Workers,
             \/ ReadNothing(w) \/ Reclaim(w) \/ SiftLive(w) \/ BeginJob(w)
             \/ JobRaises(w) \/ AckFails(w) \/ Crash(w) \/ Restart(w)
      PROVE UNCHANGED Delivery!vars
  <2>1. UNCHANGED <<stream, cursor, pel, dlq, returned>>
    BY <1>6 DEF ReadNothing, Reclaim, SiftLive, BeginJob, JobRaises, AckFails,
                LeavePending, Crash, Restart, redisVars, histVars
  <2>. QED BY <2>1, DeliveryStutter DEF Settled
<1>7. ASSUME NEW e \in Entries, GoIdle(e) PROVE UNCHANGED Delivery!vars
  BY <1>7, DeliveryStutter DEF GoIdle, histVars, Settled
<1>8. CASE UNCHANGED queueVars
  BY <1>8, DeliveryStutter DEF queueVars, redisVars, histVars, Settled
<1>. QED
  BY <1>1, <1>2, <1>3, <1>4, <1>5, <1>6, <1>7, <1>8
     DEF QueueNext, WorkerStep, PollStep, HandleStep

\* The safety half of DeliversEveryJob: the streams, the group and the workers
\* implement JobDelivery for any number of workers, jobs, crashes and claims.
\* (That every job leaves the queue in the end is checked by TLC.)
THEOREM QueueImplementsDelivery == QueueSpec => Delivery!SafeSpec
<1>1. QueueInit => Delivery!Init
  BY DEF QueueInit, Delivery!Init, Settled, Buried, EvidenceOf
<1>2. QueueInv /\ [QueueNext]_queueVars => [Delivery!Next]_Delivery!vars
  BY DeliveryStep
<1>. QED BY <1>1, <1>2, QueueInvariant, PTL DEF QueueSpec, Delivery!SafeSpec
===============================================================================
