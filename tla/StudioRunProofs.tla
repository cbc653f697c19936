---------------------------- MODULE StudioRunProofs ----------------------------
(***************************************************************************)
(* Proofs about StudioRun, for any number of requests, runs, slugs, any    *)
(* quota and any number of refinements: its types, the monthly quota, and  *)
(* what the showcase serves.                                               *)
(***************************************************************************)
EXTENDS StudioRun, SequenceTheorems, FiniteSetTheorems, TLAPS

-------------------------------------------------------------------------------
(***************************************************************************)
(* The inductive invariant                                                 *)
(***************************************************************************)

\* A request that is past the check has the place it found, if it is alone.
PlaceIsKept ==
    Quota > 0 /\ ~crowded =>
        /\ Cardinality(month) <= Quota
        /\ (\E q \in Requests : pc[q] = "insert") => Cardinality(month) < Quota
        /\ \A p, q \in Requests : pc[p] = "insert" /\ pc[q] = "insert" => p = q

\* What a task has in memory adds up at every call.
JobAddsUp(j) ==
    /\ j.at \in {"none", "start"} => j.fault = "none" /\ j.tokens = 0 /\ j.it = 0
    /\ j.at = "loop" => j.fault = "none"
    /\ j.at \in {"loop", "commit"} /\ j.fault = "none" =>
          /\ j.pages = j.it + 1 /\ j.scored = j.pages /\ j.tokens = j.pages
          /\ j.it <= MaxRefines
    /\ j.at = "commit" /\ j.fault = "none" => j.good \/ j.it = MaxRefines

\* Only a run that is generating has a task, or a request that will start it.
TasksHeld ==
    /\ \A r \in Runs : JobAddsUp(jobs[r])
    /\ \A r \in Runs : jobs[r].at # "none" => rows[r].status = "generating"
    /\ \A q \in Requests :
          /\ pc[q] = "task" <=> made[q] # 0
          /\ made[q] # 0 => jobs[made[q]].at = "none" /\ rows[made[q]].status = "generating"
    /\ \A p, q \in Requests : made[p] # 0 /\ made[p] = made[q] => p = q

RowsHold ==
    \A r \in Runs :
        /\ rows[r].status = "scored" => RunAddsUp(rows[r])
        /\ rows[r].published => rows[r].status = "scored" /\ rows[r].slug # 0
        /\ rows[r].slug <= slugs

\* A first publication finds no slug, unless it has a rival.
PublishHeld ==
    /\ \A p \in Publishers :
          /\ pub[p].run # 0 /\ pub[p].to =>
                /\ rows[pub[p].run].status = "scored"
                /\ pub[p].drawn # 0 \/ rows[pub[p].run].slug # 0
          /\ pub[p].drawn # 0 =>
                /\ pub[p].run # 0
                /\ pub[p].run \in doubled \/ rows[pub[p].run].slug = 0
    /\ \A o, p \in Publishers :
          o # p /\ pub[o].drawn # 0 /\ pub[p].drawn # 0 /\ pub[o].run = pub[p].run =>
              pub[p].run \in doubled

SlugsHeld == \A x \in replied : x[1] \in doubled \/ rows[x[1]].slug = x[2]

StudioInv ==
    /\ StudioTypeOK /\ PlaceIsKept
    /\ TasksHeld /\ RowsHold /\ PublishHeld /\ SlugsHeld

-------------------------------------------------------------------------------
(***************************************************************************)
(* Sequences and records                                                   *)
(***************************************************************************)
LEMMA SeqAppend ==
    ASSUME NEW S, NEW s \in Seq(S), NEW e \in S
    PROVE  /\ Len(s) \in Nat
           /\ Append(s, e) \in Seq(S)
           /\ Len(Append(s, e)) = Len(s) + 1
           /\ \A i \in 1..Len(s) : Append(s, e)[i] = s[i]
           /\ Append(s, e)[Len(s) + 1] = e
BY AppendProperties, LenProperties

LEMMA SeqExcept ==
    ASSUME NEW S, NEW s \in Seq(S), NEW i \in 1..Len(s), NEW e \in S
    PROVE  /\ [s EXCEPT ![i] = e] \in Seq(S)
           /\ Len([s EXCEPT ![i] = e]) = Len(s)
           /\ [s EXCEPT ![i] = e][i] = e
           /\ \A j \in 1..Len(s) : j # i => [s EXCEPT ![i] = e][j] = s[j]
BY ExceptSeq, LenProperties

LEMMA Bounds == {Quota, MaxRefines, MaxRuns, MaxSlugs} \subseteq Nat
BY StudioAssumption

LEMMA StudioFacts ==
    ASSUME StudioTypeOK
    PROVE  /\ Len(rows) \in Nat /\ Len(jobs) = Len(rows) /\ slugs \in Nat
           /\ \A r \in Runs : rows[r] \in Row /\ jobs[r] \in Job
           /\ \A q \in Requests : made[q] \in 0..Len(rows)
           /\ \A p \in Publishers :
                 /\ pub[p] \in [run : 0..Len(rows), was : BOOLEAN, to : BOOLEAN,
                                drawn : 0..slugs]
                 /\ pub[p].run \in 0..Len(rows) /\ pub[p].drawn \in 0..slugs
                 /\ pub[p].run # 0 => pub[p].run \in Runs
           /\ IsFiniteSet(month)
<1>1. rows \in Seq(Row) /\ jobs \in Seq(Job) /\ Len(jobs) = Len(rows) /\ slugs \in 0..MaxSlugs
      BY DEF StudioTypeOK
<1>2. Len(rows) \in Nat /\ slugs \in Nat  BY <1>1, LenProperties, Bounds
<1>3. \A r \in Runs : rows[r] \in Row /\ jobs[r] \in Job
      BY <1>1, ElementOfSeq DEF Runs
<1>4. \A p \in Publishers :
         /\ pub[p] \in [run : 0..Len(rows), was : BOOLEAN, to : BOOLEAN, drawn : 0..slugs]
         /\ pub[p].run \in 0..Len(rows) /\ pub[p].drawn \in 0..slugs
      BY DEF StudioTypeOK
<1>5. month \subseteq 1..Len(rows)  BY DEF StudioTypeOK, Runs
<1>6. IsFiniteSet(1..Len(rows))  BY <1>2, FS_Interval
<1>7. IsFiniteSet(month)  BY <1>5, <1>6, FS_Subset
<1>8. \A p \in Publishers : pub[p].run # 0 => pub[p].run \in Runs
      BY <1>2, <1>4 DEF Runs
<1>9. \A q \in Requests : made[q] \in 0..Len(rows)  BY DEF StudioTypeOK
<1>10. QED  BY <1>1, <1>2, <1>3, <1>4, <1>7, <1>8, <1>9

LEMMA NewRecords ==
    /\ NewRow \in Row /\ NewJob \in Job
    /\ NewRow.status = "generating" /\ ~NewRow.published /\ NewRow.slug = 0
    /\ NewJob.at = "none" /\ JobAddsUp(NewJob)
<1>1. NewRow \in Row  BY DEF NewRow, Row
<1>2. NewJob \in Job  BY DEF NewJob, Job
<1>3. NewRow.status = "generating" /\ ~NewRow.published /\ NewRow.slug = 0  BY DEF NewRow
<1>4. NewJob.at = "none" /\ JobAddsUp(NewJob)  BY DEF NewJob, JobAddsUp
<1>5. QED  BY <1>1, <1>2, <1>3, <1>4

\* What a model call does to the task's row in memory.
LEMMA AnsweredFacts ==
    ASSUME NEW j \in Job, NEW good \in BOOLEAN, NEW a, a = Answered(j, good)
    PROVE  /\ a \in Job /\ a.at = j.at /\ a.it = j.it /\ a.fault = j.fault
           /\ a.pages = j.tokens + 1 /\ a.scored = j.tokens + 1 /\ a.tokens = j.tokens + 1
           /\ a.good = good
<1>1. j.tokens \in Nat /\ j.tokens + 1 \in Nat  BY DEF Job
<1>2. j.at \in {"none", "start", "loop", "commit"} /\ j.it \in Nat /\ j.fault \in {"none", "call", "cost"}
      BY Zenon DEF Job
<1> DEFINE n == j.tokens + 1
<1>3. a = [j EXCEPT !.pages = n, !.tokens = n, !.scored = n, !.good = good]
      BY DEF Answered
<1>4. n \in Nat /\ n = j.tokens + 1  BY <1>1
<1> HIDE DEF n
<1>5. a = [at |-> j.at, pages |-> n, scored |-> n, good |-> good, it |-> j.it,
           tokens |-> n, fault |-> j.fault]
      BY <1>3 DEF Job
<1>6. [at |-> j.at, pages |-> n, scored |-> n, good |-> good, it |-> j.it,
       tokens |-> n, fault |-> j.fault] \in Job
      BY <1>2, <1>4 DEF Job
<1>7. QED  BY <1>4, <1>5, <1>6

LEMMA JobFields ==
    ASSUME NEW j \in Job
    PROVE  /\ j.at \in {"none", "start", "loop", "commit"}
           /\ j.pages \in Nat /\ j.scored \in Nat /\ j.it \in Nat /\ j.tokens \in Nat
           /\ j.good \in BOOLEAN /\ j.fault \in {"none", "call", "cost"}
BY Zenon DEF Job

LEMMA JobMoved ==
    ASSUME NEW j \in Job, NEW place \in {"none", "start", "loop", "commit"}
    PROVE  /\ [j EXCEPT !.at = place] \in Job
           /\ [j EXCEPT !.at = place].at = place
           /\ [j EXCEPT !.at = place].pages = j.pages
           /\ [j EXCEPT !.at = place].scored = j.scored
           /\ [j EXCEPT !.at = place].good = j.good
           /\ [j EXCEPT !.at = place].it = j.it
           /\ [j EXCEPT !.at = place].tokens = j.tokens
           /\ [j EXCEPT !.at = place].fault = j.fault
BY Zenon DEF Job

\* A task goes on, or is over.
LEMMA TaskMoves ==
    ASSUME StudioInv, NEW r \in Runs, NEW j \in Job, jobs' = [jobs EXCEPT ![r] = j],
           jobs[r].at # "none", JobAddsUp(j),
           UNCHANGED <<enabled, rows, month, pc, made, pub, slugs, replied, crowded, doubled>>
    PROVE  StudioInv'
<1>t. /\ StudioTypeOK /\ PlaceIsKept /\ TasksHeld /\ RowsHold /\ PublishHeld /\ SlugsHeld
      /\ Len(rows) \in Nat /\ jobs \in Seq(Job) /\ Len(jobs) = Len(rows)
      BY StudioFacts DEF StudioInv, StudioTypeOK
<1>1. /\ jobs' \in Seq(Job) /\ Len(jobs') = Len(rows) /\ jobs'[r] = j
      /\ \A u \in Runs : u # r => jobs'[u] = jobs[u]
      BY <1>t, SeqExcept DEF Runs
<1>2. Runs' = Runs  BY DEF Runs
<1>3. StudioTypeOK'  BY <1>t, <1>1, <1>2 DEF StudioTypeOK
<1>4. PlaceIsKept' /\ RowsHold' /\ PublishHeld' /\ SlugsHeld'
      BY <1>t, <1>2 DEF PlaceIsKept, RowsHold, PublishHeld, SlugsHeld
<1>5. rows[r].status = "generating" /\ \A q \in Requests : made[q] # 0 => made[q] # r
      BY <1>t DEF TasksHeld
<1>6. \A q \in Requests : made[q] # 0 => made[q] \in Runs
      BY <1>t, StudioFacts DEF Runs
<1>7. TasksHeld'  BY <1>t, <1>1, <1>2, <1>5, <1>6 DEF TasksHeld
<1>8. QED  BY <1>3, <1>4, <1>7 DEF StudioInv

LEMMA TaskStep ==
    ASSUME StudioInv, NEW r \in Runs,
           \/ Generate(r) \/ Refine(r) \/ EndLoop(r) \/ CallRaises(r) \/ CostRaises(r)
           \/ TaskDies(r)
    PROVE  StudioInv'
<1> DEFINE Same == UNCHANGED <<enabled, rows, month, pc, made, pub, slugs, replied,
                               crowded, doubled>>
<1>t. /\ jobs[r] \in Job /\ JobAddsUp(jobs[r]) /\ MaxRefines \in Nat
      BY StudioFacts, Bounds DEF StudioInv, TasksHeld
<1>f. /\ jobs[r].it \in Nat /\ jobs[r].tokens \in Nat /\ jobs[r].it + 1 \in Nat
      /\ jobs[r].fault \in {"none", "call", "cost"}
      BY <1>t, JobFields
<1>1. ASSUME Generate(r) PROVE StudioInv'
  <2>1. PICK good \in BOOLEAN :
           jobs' = [jobs EXCEPT ![r] = [Answered(jobs[r], good) EXCEPT !.at = "loop"]]
        BY <1>1 DEF Generate
  <2>2. PICK a : a = Answered(jobs[r], good)  OBVIOUS
  <2>3. PICK j : j = [a EXCEPT !.at = "loop"]  OBVIOUS
  <2>4. /\ a \in Job /\ a.it = jobs[r].it /\ a.fault = jobs[r].fault
        /\ a.pages = jobs[r].tokens + 1 /\ a.scored = jobs[r].tokens + 1
        /\ a.tokens = jobs[r].tokens + 1
        BY <1>t, <2>2, AnsweredFacts
  <2>5. /\ j \in Job /\ j.at = "loop" /\ j.it = a.it /\ j.fault = a.fault
        /\ j.pages = a.pages /\ j.scored = a.scored /\ j.tokens = a.tokens
        BY <2>3, <2>4, JobMoved
  <2>6. jobs[r].at = "start" /\ Same  BY <1>1 DEF Generate
  <2>7. JobAddsUp(j)  BY <1>t, <2>4, <2>5, <2>6 DEF JobAddsUp
  <2>8. jobs' = [jobs EXCEPT ![r] = j]  BY <2>1, <2>2, <2>3
  <2>9. QED  BY <2>5, <2>6, <2>7, <2>8, TaskMoves
<1>2. ASSUME Refine(r) PROVE StudioInv'
  <2>1. PICK good \in BOOLEAN :
           jobs' = [jobs EXCEPT ![r] = [Answered(jobs[r], good) EXCEPT
                                          !.it = jobs[r].it + 1]]
        BY <1>2 DEF Refine
  <2>2. PICK a : a = Answered(jobs[r], good)  OBVIOUS
  <2>3. /\ a \in Job /\ a.at = jobs[r].at /\ a.it = jobs[r].it /\ a.fault = jobs[r].fault
        /\ a.pages = jobs[r].tokens + 1 /\ a.scored = jobs[r].tokens + 1
        /\ a.tokens = jobs[r].tokens + 1
        BY <1>t, <2>2, AnsweredFacts
  <2>4. PICK n : n = jobs[r].it + 1  OBVIOUS
  <2>5. PICK j : j = [a EXCEPT !.it = n]  OBVIOUS
  <2>6. n \in Nat  BY <1>f, <2>4
  <2>7. /\ j \in Job /\ j.at = a.at /\ j.it = n /\ j.fault = a.fault
        /\ j.pages = a.pages /\ j.scored = a.scored /\ j.tokens = a.tokens
        BY <2>3, <2>5, <2>6, Zenon DEF Job
  <2>8. jobs[r].at = "loop" /\ jobs[r].it < MaxRefines /\ Same  BY <1>2 DEF Refine
  <2>9. JobAddsUp(j)
        BY <1>t, <1>f, <2>3, <2>4, <2>7, <2>8 DEF JobAddsUp
  <2>10. jobs' = [jobs EXCEPT ![r] = j]  BY <2>1, <2>2, <2>3, <2>4, <2>5
  <2>11. QED  BY <2>7, <2>8, <2>9, <2>10, TaskMoves
<1>3. ASSUME EndLoop(r) PROVE StudioInv'
  <2>1. PICK j : j = [jobs[r] EXCEPT !.at = "commit"]  OBVIOUS
  <2>2. /\ j \in Job /\ j.at = "commit" /\ j.it = jobs[r].it /\ j.fault = jobs[r].fault
        /\ j.pages = jobs[r].pages /\ j.scored = jobs[r].scored
        /\ j.tokens = jobs[r].tokens /\ j.good = jobs[r].good
        BY <1>t, <2>1, JobMoved
  <2>3. /\ jobs[r].at = "loop" /\ (jobs[r].good \/ jobs[r].it >= MaxRefines) /\ Same
        /\ jobs' = [jobs EXCEPT ![r] = j]
        BY <1>3, <2>1 DEF EndLoop
  <2>4. JobAddsUp(j)  BY <1>t, <1>f, <2>2, <2>3 DEF JobAddsUp
  <2>5. QED  BY <2>2, <2>3, <2>4, TaskMoves
<1>4. ASSUME CallRaises(r) PROVE StudioInv'
  <2>1. PICK billed \in {0, 1} :
           jobs' = [jobs EXCEPT ![r] = [jobs[r] EXCEPT !.at = "commit", !.fault = "call",
                                            !.tokens = jobs[r].tokens + billed]]
        BY <1>4 DEF CallRaises
  <2>2. PICK n : n = jobs[r].tokens + billed  OBVIOUS
  <2>3. PICK j : j = [jobs[r] EXCEPT !.at = "commit", !.fault = "call", !.tokens = n]
        OBVIOUS
  <2>4. n \in Nat  BY <1>f, <2>2
  <2>5. j \in Job /\ j.at = "commit" /\ j.fault = "call"
        BY <1>t, <2>3, <2>4, Zenon DEF Job
  <2>6. JobAddsUp(j)  BY <2>5 DEF JobAddsUp
  <2>7. jobs[r].at # "none" /\ Same  BY <1>4 DEF CallRaises
  <2>8. jobs' = [jobs EXCEPT ![r] = j]  BY <2>1, <2>2, <2>3
  <2>9. QED  BY <2>5, <2>6, <2>7, <2>8, TaskMoves
<1>7. ASSUME CostRaises(r) PROVE StudioInv'
  <2>1. PICK j : j = [jobs[r] EXCEPT !.at = "commit", !.fault = "cost"]  OBVIOUS
  <2>2. j \in Job /\ j.at = "commit" /\ j.fault = "cost"
        BY <1>t, <2>1, Zenon DEF Job
  <2>3. JobAddsUp(j)  BY <2>2 DEF JobAddsUp
  <2>4. jobs[r].at # "none" /\ Same /\ jobs' = [jobs EXCEPT ![r] = j]
        BY <1>7, <2>1 DEF CostRaises
  <2>5. QED  BY <2>2, <2>3, <2>4, TaskMoves
<1>5. ASSUME TaskDies(r) PROVE StudioInv'
  <2>1. jobs[r].at # "none" /\ Same /\ jobs' = [jobs EXCEPT ![r] = NewJob]
        BY <1>5 DEF TaskDies
  <2>2. QED  BY <2>1, NewRecords, TaskMoves
<1>6. QED  BY <1>1, <1>2, <1>3, <1>4, <1>5, <1>7

-------------------------------------------------------------------------------
(***************************************************************************)
(* The commit of a task                                                    *)
(***************************************************************************)
LEMMA RowFields ==
    ASSUME NEW row \in Row
    PROVE  /\ row.status \in {"generating", "scored", "failed"}
           /\ row.published \in BOOLEAN /\ row.slug \in Nat
BY Zenon DEF Row

LEMMA KeptRow ==
    ASSUME NEW row \in Row, NEW j \in Job, NEW new, new = Kept(row, j)
    PROVE  /\ new \in Row /\ new.status = IF j.fault = "none" THEN "scored" ELSE "failed"
           /\ new.published = row.published /\ new.slug = row.slug
           /\ j.fault = "none" =>
                 /\ new.pages = j.pages /\ new.scored = j.scored /\ new.good = j.good
                 /\ new.iterations = j.it /\ new.tokens = j.tokens /\ new.cost = j.tokens
<1>1. /\ j.pages \in Nat /\ j.scored \in Nat /\ j.it \in Nat /\ j.tokens \in Nat
      /\ j.good \in BOOLEAN /\ j.fault \in {"none", "call", "cost"}
      BY JobFields
<1>2. PICK billed : billed = [row EXCEPT !.status = "failed", !.tokens = j.tokens]  OBVIOUS
<1>3. /\ billed \in Row /\ billed.status = "failed" /\ billed.tokens = j.tokens
      /\ billed.published = row.published /\ billed.slug = row.slug
      BY <1>1, <1>2, Zenon DEF Row
<1>4. PICK shown : shown = [billed EXCEPT !.pages = j.pages, !.scored = j.scored,
                                          !.good = j.good, !.iterations = j.it]
      OBVIOUS
<1>5. /\ shown \in Row /\ shown.status = "failed" /\ shown.tokens = j.tokens
      /\ shown.published = row.published /\ shown.slug = row.slug
      /\ shown.pages = j.pages /\ shown.scored = j.scored /\ shown.good = j.good
      /\ shown.iterations = j.it
      BY <1>1, <1>3, <1>4, Zenon DEF Row
<1>6. PICK whole : whole = [shown EXCEPT !.status = "scored", !.cost = j.tokens]  OBVIOUS
<1>7. /\ whole \in Row /\ whole.status = "scored" /\ whole.tokens = j.tokens
      /\ whole.published = row.published /\ whole.slug = row.slug
      /\ whole.pages = j.pages /\ whole.scored = j.scored /\ whole.good = j.good
      /\ whole.iterations = j.it /\ whole.cost = j.tokens
      BY <1>1, <1>5, <1>6, Zenon DEF Row
<1>8. new = CASE j.fault = "call" -> billed
              [] j.fault = "cost" -> shown
              [] j.fault = "none" -> whole
      BY <1>2, <1>4, <1>6 DEF Kept
<1>9. QED  BY <1>1, <1>3, <1>5, <1>7, <1>8

LEMMA CommitRunStep ==
    ASSUME StudioInv, NEW r \in Runs, CommitRun(r)
    PROVE  StudioInv'
<1>t. /\ StudioTypeOK /\ PlaceIsKept /\ TasksHeld /\ RowsHold /\ PublishHeld /\ SlugsHeld
      /\ Len(rows) \in Nat /\ rows \in Seq(Row) /\ jobs \in Seq(Job)
      /\ Len(jobs) = Len(rows) /\ rows[r] \in Row /\ jobs[r] \in Job
      BY StudioFacts DEF StudioInv, StudioTypeOK
<1>j. PICK j : j = jobs[r]  OBVIOUS
<1>r. PICK row : row = rows[r]  OBVIOUS
<1>1. /\ j.at = "commit"
      /\ jobs' = [jobs EXCEPT ![r] = NewJob]
      /\ UNCHANGED <<enabled, month, pc, made, pub, slugs, replied, crowded, doubled>>
      BY <1>j DEF CommitRun
<1>2. PICK new : new = Kept(row, j) /\ rows' = [rows EXCEPT ![r] = new]
      BY <1>j, <1>r DEF CommitRun
<1>g. /\ rows[r].status = "generating" /\ ~rows[r].published
      /\ row \in Row /\ j \in Job /\ JobAddsUp(j)
      BY <1>t, <1>1, <1>j, <1>r DEF TasksHeld, RowsHold
<1>3. /\ new \in Row /\ new.status # "generating" /\ ~new.published /\ new.slug = rows[r].slug
      /\ new.status = "scored" => RunAddsUp(new)
  <2>1. /\ new \in Row /\ new.status = IF j.fault = "none" THEN "scored" ELSE "failed"
        /\ new.published = row.published /\ new.slug = row.slug
        /\ j.fault = "none" =>
              /\ new.pages = j.pages /\ new.scored = j.scored /\ new.good = j.good
              /\ new.iterations = j.it /\ new.tokens = j.tokens /\ new.cost = j.tokens
        BY <1>g, <1>2, KeptRow
  <2>2. j.fault = "none" => RunAddsUp(new)
        BY <1>1, <1>g, <2>1 DEF RunAddsUp, JobAddsUp
  <2>3. QED  BY <1>g, <1>r, <2>1, <2>2
<1>4. /\ rows' \in Seq(Row) /\ Len(rows') = Len(rows) /\ rows'[r] = new
      /\ \A u \in Runs : u # r => rows'[u] = rows[u]
      BY <1>t, <1>2, <1>3, SeqExcept DEF Runs
<1>5. /\ jobs' \in Seq(Job) /\ Len(jobs') = Len(rows) /\ jobs'[r] = NewJob
      /\ \A u \in Runs : u # r => jobs'[u] = jobs[u]
      BY <1>t, <1>1, NewRecords, SeqExcept DEF Runs
<1>6. Runs' = Runs  BY <1>4 DEF Runs
<1>7. StudioTypeOK'
  <2>1. /\ made' \in [Requests -> 0..Len(rows')]
        /\ pub' \in [Publishers -> [run : 0..Len(rows'), was : BOOLEAN, to : BOOLEAN,
                                     drawn : 0..slugs']]
        BY <1>t, <1>1, <1>4 DEF StudioTypeOK
  <2>2. QED  BY <1>t, <1>1, <1>4, <1>5, <1>6, <2>1 DEF StudioTypeOK
<1>8. PlaceIsKept'  BY <1>t, <1>1 DEF PlaceIsKept
<1>9. \A q \in Requests : made[q] # 0 => made[q] # r /\ made[q] \in Runs
      BY <1>t, <1>1, <1>j, StudioFacts DEF TasksHeld, Runs
<1>10. TasksHeld'
  <2>1. \A u \in Runs : JobAddsUp(jobs'[u])
        BY <1>t, <1>5, NewRecords DEF TasksHeld
  <2>2. \A u \in Runs : jobs'[u].at # "none" => rows'[u].status = "generating"
        BY <1>t, <1>4, <1>5, NewRecords DEF TasksHeld
  <2>3. \A q \in Requests :
           /\ pc[q] = "task" <=> made[q] # 0
           /\ made[q] # 0 =>
                 jobs'[made[q]].at = "none" /\ rows'[made[q]].status = "generating"
        BY <1>t, <1>4, <1>5, <1>9 DEF TasksHeld
  <2>4. \A p, q \in Requests : made[p] # 0 /\ made[p] = made[q] => p = q
        BY <1>t DEF TasksHeld
  <2>5. QED  BY <1>1, <1>6, <2>1, <2>2, <2>3, <2>4 DEF TasksHeld
<1>11. RowsHold'  BY <1>t, <1>1, <1>3, <1>4, <1>6 DEF RowsHold
<1>12. \A p \in Publishers : pub[p].run # 0 => pub[p].run \in Runs
       BY <1>t, StudioFacts
<1>13. PublishHeld'
  <2>1. \A p \in Publishers : pub[p].run # 0 /\ pub[p].to => pub[p].run # r
        BY <1>t, <1>g DEF PublishHeld
  <2>2. \A p \in Publishers :
           pub[p].run # 0 => rows'[pub[p].run].slug = rows[pub[p].run].slug
        BY <1>3, <1>4, <1>12
  <2>3. \A p \in Publishers :
           pub[p].run # 0 /\ pub[p].to => rows'[pub[p].run].status = "scored"
        BY <1>t, <1>4, <1>12, <2>1 DEF PublishHeld
  <2>4. QED  BY <1>t, <1>1, <2>2, <2>3 DEF PublishHeld
<1>14. SlugsHeld'
  <2>1. \A x \in replied : x[1] \in Runs  BY <1>t DEF StudioTypeOK
  <2>2. \A x \in replied : rows'[x[1]].slug = rows[x[1]].slug  BY <1>3, <1>4, <2>1
  <2>3. QED  BY <1>t, <1>1, <2>2 DEF SlugsHeld
<1>15. QED  BY <1>7, <1>8, <1>10, <1>11, <1>13, <1>14 DEF StudioInv

-------------------------------------------------------------------------------
(***************************************************************************)
(* The requests                                                            *)
(***************************************************************************)
LEMMA GotoFacts ==
    ASSUME StudioTypeOK, NEW q \in Requests, NEW place \in {"idle", "insert", "task"},
           Goto(q, place)
    PROVE  /\ pc' \in [Requests -> {"idle", "insert", "task"}]
           /\ pc'[q] = place /\ \A p \in Requests \ {q} : pc'[p] = pc[p]
BY Zenon DEF Goto, StudioTypeOK

LEMMA MadeFacts ==
    ASSUME StudioTypeOK, NEW q \in Requests, NEW n \in Nat, NEW m \in 0..n,
           Len(rows) <= n, made' = [made EXCEPT ![q] = m]
    PROVE  /\ made'[q] = m /\ \A p \in Requests \ {q} : made'[p] = made[p]
           /\ made' \in [Requests -> 0..n]
<1>1. made \in [Requests -> 0..Len(rows)] /\ Len(rows) \in Nat
      BY StudioFacts DEF StudioTypeOK
<1>2. 0..Len(rows) \subseteq 0..n  BY <1>1
<1>3. made \in [Requests -> 0..n]  BY <1>1, <1>2, Zenon
<1>4. QED  BY <1>3

LEMMA CheckStep ==
    ASSUME StudioInv, NEW q \in Requests, Check(q)
    PROVE  StudioInv'
<1>t. /\ StudioTypeOK /\ PlaceIsKept /\ TasksHeld /\ RowsHold /\ PublishHeld /\ SlugsHeld
      BY DEF StudioInv
<1>1. /\ pc[q] = "idle" /\ Goto(q, "insert") /\ (Quota > 0 => Cardinality(month) < Quota)
      /\ crowded' = (crowded \/ \E p \in Requests \ {q} : pc[p] = "insert")
      /\ UNCHANGED <<enabled, rows, month, jobs, made, pub, slugs, replied, doubled>>
      BY DEF Check
<1>2. /\ pc' \in [Requests -> {"idle", "insert", "task"}]
      /\ pc'[q] = "insert" /\ \A p \in Requests \ {q} : pc'[p] = pc[p]
      BY <1>t, <1>1, GotoFacts
<1>3. Runs' = Runs  BY <1>1 DEF Runs
<1>b. crowded' \in BOOLEAN  BY <1>1
<1>4. StudioTypeOK'  BY <1>t, <1>1, <1>2, <1>3, <1>b DEF StudioTypeOK
<1>5. PlaceIsKept'
  <2>1. Cardinality(month) \in Nat /\ Quota \in Nat
        BY <1>t, StudioFacts, FS_CardinalityType, Bounds
  <2>2. ~crowded' => ~crowded /\ \A p \in Requests \ {q} : pc[p] # "insert"
        BY <1>1
  <2>3. QED  BY <1>t, <1>1, <1>2, <2>1, <2>2 DEF PlaceIsKept
<1>6. TasksHeld'  BY <1>t, <1>1, <1>2, <1>3 DEF TasksHeld
<1>7. RowsHold' /\ PublishHeld' /\ SlugsHeld'
      BY <1>t, <1>1, <1>3 DEF RowsHold, PublishHeld, SlugsHeld
<1>8. QED  BY <1>4, <1>5, <1>6, <1>7 DEF StudioInv

LEMMA InsertStep ==
    ASSUME StudioInv, NEW q \in Requests, Insert(q)
    PROVE  StudioInv'
<1>t. /\ StudioTypeOK /\ PlaceIsKept /\ TasksHeld /\ RowsHold /\ PublishHeld /\ SlugsHeld
      /\ Len(rows) \in Nat /\ rows \in Seq(Row) /\ jobs \in Seq(Job)
      /\ Len(jobs) = Len(rows)
      BY StudioFacts DEF StudioInv, StudioTypeOK
<1> DEFINE n == Len(rows) + 1
<1>1. /\ pc[q] = "insert" /\ Len(rows) < MaxRuns /\ MaxRuns \in Nat
      /\ rows' = Append(rows, NewRow) /\ jobs' = Append(jobs, NewJob)
      /\ month' = month \cup {n} /\ made' = [made EXCEPT ![q] = n] /\ Goto(q, "task")
      /\ UNCHANGED <<enabled, pub, slugs, replied, crowded, doubled>>
      BY Bounds DEF Insert
<1>n. n \in Nat /\ n = Len(rows) + 1  BY <1>t
<1>2. /\ pc' \in [Requests -> {"idle", "insert", "task"}]
      /\ pc'[q] = "task" /\ \A p \in Requests \ {q} : pc'[p] = pc[p]
      BY <1>t, <1>1, GotoFacts
<1>3. /\ rows' \in Seq(Row) /\ Len(rows') = n /\ rows'[n] = NewRow
      /\ \A r \in Runs : rows'[r] = rows[r]
      BY <1>t, <1>1, NewRecords, SeqAppend DEF Runs
<1>4. /\ jobs' \in Seq(Job) /\ Len(jobs') = n /\ jobs'[n] = NewJob
      /\ \A r \in Runs : jobs'[r] = jobs[r]
      BY <1>t, <1>1, NewRecords, SeqAppend DEF Runs
<1> HIDE DEF n
<1>5. /\ made'[q] = n /\ \A p \in Requests \ {q} : made'[p] = made[p]
      /\ made' \in [Requests -> 0..n]
  <2>1. n \in 0..n /\ Len(rows) <= n  BY <1>t, <1>n
  <2>2. QED  BY <1>t, <1>1, <1>n, <2>1, MadeFacts
<1>6. Runs' = Runs \cup {n} /\ n \notin Runs  BY <1>n, <1>3 DEF Runs
<1>7. StudioTypeOK'
  <2>1. n <= MaxRuns  BY <1>t, <1>1, <1>n
  <2>2. pub' \in [Publishers -> [run : 0..n, was : BOOLEAN, to : BOOLEAN, drawn : 0..slugs]]
    <3>1. pub \in [Publishers -> [run : 0..Len(rows), was : BOOLEAN, to : BOOLEAN,
                                  drawn : 0..slugs]]
          BY <1>t DEF StudioTypeOK
    <3>2. 0..Len(rows) \subseteq 0..n  BY <1>n, <1>t
    <3>3. QED  BY <1>1, <3>1, <3>2, Zenon
  <2>3. replied' \subseteq Runs' \X (1..slugs)  BY <1>t, <1>1, <1>6 DEF StudioTypeOK
  <2>4. month' \subseteq Runs' /\ doubled' \subseteq Runs'
        BY <1>t, <1>1, <1>6 DEF StudioTypeOK
  <2>5. QED
        BY <1>t, <1>1, <1>2, <1>3, <1>4, <1>5, <2>1, <2>2, <2>3, <2>4 DEF StudioTypeOK
<1>8. PlaceIsKept'
  <2>1. IsFiniteSet(month) /\ n \notin month  BY <1>t, <1>6, StudioFacts DEF StudioTypeOK
  <2>2. Cardinality(month') = Cardinality(month) + 1 /\ Cardinality(month) \in Nat
        BY <1>1, <2>1, FS_AddElement, FS_CardinalityType
  <2>3. Quota > 0 /\ ~crowded => \A p \in Requests : pc'[p] # "insert"
        BY <1>t, <1>1, <1>2 DEF PlaceIsKept
  <2>4. QED  BY <1>t, <1>1, <2>2, <2>3, Bounds DEF PlaceIsKept
<1>9. TasksHeld'
  <2>1. \A p \in Requests : made[p] # 0 => made[p] \in Runs
        BY <1>t, StudioFacts DEF Runs
  <2>2. \A r \in Runs' :
           JobAddsUp(jobs'[r]) /\ (jobs'[r].at # "none" => rows'[r].status = "generating")
        BY <1>t, <1>3, <1>4, <1>6, NewRecords DEF TasksHeld
  <2>3. \A p \in Requests :
           /\ pc'[p] = "task" <=> made'[p] # 0
           /\ made'[p] # 0 =>
                 jobs'[made'[p]].at = "none" /\ rows'[made'[p]].status = "generating"
    <3>1. SUFFICES ASSUME NEW p \in Requests
                   PROVE  /\ pc'[p] = "task" <=> made'[p] # 0
                          /\ made'[p] # 0 =>
                                jobs'[made'[p]].at = "none"
                                /\ rows'[made'[p]].status = "generating"
          OBVIOUS
    <3>2. CASE p = q  BY <1>t, <1>n, <1>2, <1>3, <1>4, <1>5, <3>2, NewRecords
    <3>3. CASE p # q
      <4>1. pc'[p] = pc[p] /\ made'[p] = made[p]  BY <1>2, <1>5, <3>3
      <4>2. pc[p] = "task" <=> made[p] # 0  BY <1>t DEF TasksHeld
      <4>3. ASSUME made[p] # 0
            PROVE  jobs'[made[p]].at = "none" /\ rows'[made[p]].status = "generating"
        <5>1. jobs[made[p]].at = "none" /\ rows[made[p]].status = "generating"
              BY <1>t, <4>3 DEF TasksHeld
        <5>2. QED  BY <1>3, <1>4, <2>1, <4>3, <5>1
      <4>4. QED  BY <4>1, <4>2, <4>3, Zenon
    <3>4. QED  BY <3>2, <3>3
  <2>4. \A o, p \in Requests : made'[o] # 0 /\ made'[o] = made'[p] => o = p
        BY <1>t, <1>5, <1>6, <2>1 DEF TasksHeld
  <2>5. QED  BY <2>2, <2>3, <2>4 DEF TasksHeld
<1>s. slugs \in Nat  BY <1>t, StudioFacts
<1>10. RowsHold'
  <2>1. \A r \in Runs :
           /\ rows'[r].status = "scored" => RunAddsUp(rows'[r])
           /\ rows'[r].published => rows'[r].status = "scored" /\ rows'[r].slug # 0
           /\ rows'[r].slug <= slugs
        BY <1>t, <1>3 DEF RowsHold
  <2>2. /\ rows'[n].status # "scored" /\ ~rows'[n].published /\ rows'[n].slug <= slugs
        BY <1>3, <1>s, NewRecords
  <2>3. QED  BY <1>1, <1>6, <2>1, <2>2 DEF RowsHold
<1>11. PublishHeld'
  <2>1. \A p \in Publishers : pub[p].run # 0 => pub[p].run \in Runs  BY <1>t, StudioFacts
  <2>2. QED  BY <1>t, <1>1, <1>3, <2>1 DEF PublishHeld
<1>12. SlugsHeld'
  <2>1. \A x \in replied : x[1] \in Runs  BY <1>t DEF StudioTypeOK
  <2>2. QED  BY <1>t, <1>1, <1>3, <2>1 DEF SlugsHeld
<1>13. QED  BY <1>7, <1>8, <1>9, <1>10, <1>11, <1>12 DEF StudioInv

LEMMA StartTaskStep ==
    ASSUME StudioInv, NEW q \in Requests, StartTask(q)
    PROVE  StudioInv'
<1>t. /\ StudioTypeOK /\ PlaceIsKept /\ TasksHeld /\ RowsHold /\ PublishHeld /\ SlugsHeld
      /\ Len(rows) \in Nat /\ jobs \in Seq(Job) /\ Len(jobs) = Len(rows)
      BY StudioFacts DEF StudioInv, StudioTypeOK
<1>m. PICK m : m = made[q]  OBVIOUS
<1>1. /\ pc[q] = "task" /\ made' = [made EXCEPT ![q] = 0] /\ Goto(q, "idle")
      /\ jobs' = [jobs EXCEPT ![m] = [jobs[m] EXCEPT !.at = "start"]]
      /\ UNCHANGED <<enabled, rows, month, pub, slugs, replied, crowded, doubled>>
      BY <1>m DEF StartTask
<1>2. /\ m \in Runs /\ jobs[m] \in Job /\ jobs[m].at = "none" /\ JobAddsUp(jobs[m])
      /\ rows[m].status = "generating"
      BY <1>t, <1>m, <1>1, StudioFacts DEF TasksHeld, Runs
<1>3. PICK j : j = [jobs[m] EXCEPT !.at = "start"]  OBVIOUS
<1>4. /\ j \in Job /\ j.at = "start" /\ j.it = jobs[m].it /\ j.tokens = jobs[m].tokens
      /\ j.fault = jobs[m].fault
      BY <1>2, <1>3, JobMoved
<1>5. JobAddsUp(j)  BY <1>2, <1>4 DEF JobAddsUp
<1>6. /\ jobs' \in Seq(Job) /\ Len(jobs') = Len(rows) /\ jobs'[m] = j
      /\ \A r \in Runs : r # m => jobs'[r] = jobs[r]
      BY <1>t, <1>1, <1>2, <1>3, <1>4, SeqExcept DEF Runs
<1>7. /\ pc' \in [Requests -> {"idle", "insert", "task"}]
      /\ pc'[q] = "idle" /\ \A p \in Requests \ {q} : pc'[p] = pc[p]
      BY <1>t, <1>1, GotoFacts
<1>8. /\ made'[q] = 0 /\ \A p \in Requests \ {q} : made'[p] = made[p]
      /\ made' \in [Requests -> 0..Len(rows)]
  <2>1. 0 \in 0..Len(rows) /\ Len(rows) <= Len(rows)  BY <1>t
  <2>2. QED  BY <1>t, <1>1, <2>1, MadeFacts
<1>9. Runs' = Runs  BY <1>1 DEF Runs
<1>10. StudioTypeOK'  BY <1>t, <1>1, <1>6, <1>7, <1>8, <1>9 DEF StudioTypeOK
<1>11. PlaceIsKept'  BY <1>t, <1>1, <1>7 DEF PlaceIsKept
<1>12. RowsHold' /\ PublishHeld' /\ SlugsHeld'
       BY <1>t, <1>1, <1>9 DEF RowsHold, PublishHeld, SlugsHeld
<1>13. TasksHeld'
  <2>1. \A p \in Requests \ {q} : made[p] # 0 => made[p] # m /\ made[p] \in Runs
        BY <1>t, <1>m, StudioFacts DEF TasksHeld, Runs
  <2>2. \A r \in Runs :
           JobAddsUp(jobs'[r]) /\ (jobs'[r].at # "none" => rows[r].status = "generating")
        BY <1>t, <1>2, <1>5, <1>6 DEF TasksHeld
  <2>3. \A p \in Requests \ {q} :
           made[p] # 0 => jobs'[made[p]].at = "none" /\ rows[made[p]].status = "generating"
        BY <1>t, <1>6, <2>1 DEF TasksHeld
  <2>4. \A p \in Requests : pc'[p] = "task" <=> made'[p] # 0
        BY <1>t, <1>7, <1>8 DEF TasksHeld
  <2>5. \A p \in Requests :
           made'[p] # 0 =>
              jobs'[made'[p]].at = "none" /\ rows[made'[p]].status = "generating"
        BY <1>8, <2>3
  <2>6. \A o, p \in Requests : made'[o] # 0 /\ made'[o] = made'[p] => o = p
        BY <1>t, <1>8 DEF TasksHeld
  <2>7. QED  BY <1>1, <1>9, <2>2, <2>4, <2>5, <2>6 DEF TasksHeld
<1>14. QED  BY <1>10, <1>11, <1>12, <1>13 DEF StudioInv

LEMMA RequestDiesStep ==
    ASSUME StudioInv, NEW q \in Requests, RequestDies(q)
    PROVE  StudioInv'
<1>t. /\ StudioTypeOK /\ PlaceIsKept /\ TasksHeld /\ RowsHold /\ PublishHeld /\ SlugsHeld
      /\ Len(rows) \in Nat
      BY StudioFacts DEF StudioInv
<1>1. /\ made' = [made EXCEPT ![q] = 0] /\ Goto(q, "idle")
      /\ UNCHANGED <<enabled, rows, month, jobs, pub, slugs, replied, crowded, doubled>>
      BY DEF RequestDies
<1>2. /\ pc' \in [Requests -> {"idle", "insert", "task"}]
      /\ pc'[q] = "idle" /\ \A p \in Requests \ {q} : pc'[p] = pc[p]
      BY <1>t, <1>1, GotoFacts
<1>3. /\ made'[q] = 0 /\ \A p \in Requests \ {q} : made'[p] = made[p]
      /\ made' \in [Requests -> 0..Len(rows)]
  <2>1. 0 \in 0..Len(rows) /\ Len(rows) <= Len(rows)  BY <1>t
  <2>2. QED  BY <1>t, <1>1, <2>1, MadeFacts
<1>4. Runs' = Runs  BY <1>1 DEF Runs
<1>5. StudioTypeOK'  BY <1>t, <1>1, <1>2, <1>3, <1>4 DEF StudioTypeOK
<1>6. PlaceIsKept'  BY <1>t, <1>1, <1>2 DEF PlaceIsKept
<1>7. TasksHeld'  BY <1>t, <1>1, <1>2, <1>3, <1>4 DEF TasksHeld
<1>8. RowsHold' /\ PublishHeld' /\ SlugsHeld'
      BY <1>t, <1>1, <1>4 DEF RowsHold, PublishHeld, SlugsHeld
<1>9. QED  BY <1>5, <1>6, <1>7, <1>8 DEF StudioInv

LEMMA NewMonthStep ==
    ASSUME StudioInv, NewMonth
    PROVE  StudioInv'
<1>t. /\ StudioTypeOK /\ PlaceIsKept /\ TasksHeld /\ RowsHold /\ PublishHeld /\ SlugsHeld
      BY DEF StudioInv
<1>1. /\ month' = {} /\ crowded' = (\E p \in Requests : pc[p] = "insert")
      /\ UNCHANGED <<enabled, rows, jobs, pc, made, pub, slugs, replied, doubled>>
      BY DEF NewMonth
<1>2. Runs' = Runs  BY <1>1 DEF Runs
<1>3. StudioTypeOK'  BY <1>t, <1>1, <1>2 DEF StudioTypeOK
<1>4. PlaceIsKept'  BY <1>1, FS_EmptySet, Bounds DEF PlaceIsKept
<1>5. TasksHeld' /\ RowsHold' /\ PublishHeld' /\ SlugsHeld'
      BY <1>t, <1>1, <1>2 DEF TasksHeld, RowsHold, PublishHeld, SlugsHeld
<1>6. QED  BY <1>3, <1>4, <1>5 DEF StudioInv

LEMMA SetTenantStep ==
    ASSUME StudioInv, SetTenant
    PROVE  StudioInv'
<1>t. /\ StudioTypeOK /\ PlaceIsKept /\ TasksHeld /\ RowsHold /\ PublishHeld /\ SlugsHeld
      BY DEF StudioInv
<1>1. /\ enabled' = ~enabled
      /\ UNCHANGED <<rows, month, jobs, pc, made, pub, slugs, replied, crowded, doubled>>
      BY DEF SetTenant
<1>2. Runs' = Runs  BY <1>1 DEF Runs
<1>e. enabled' \in BOOLEAN  BY <1>1
<1>3. StudioTypeOK'  BY <1>t, <1>1, <1>2, <1>e DEF StudioTypeOK
<1>4. PlaceIsKept' /\ TasksHeld' /\ RowsHold' /\ PublishHeld' /\ SlugsHeld'
      BY <1>t, <1>1, <1>2 DEF PlaceIsKept, TasksHeld, RowsHold, PublishHeld, SlugsHeld
<1>5. QED  BY <1>3, <1>4 DEF StudioInv

-------------------------------------------------------------------------------
(***************************************************************************)
(* Publication                                                             *)
(***************************************************************************)
Pub(r, was, to, d) == [run |-> r, was |-> was, to |-> to, drawn |-> d]

LEMMA PubFields ==
    ASSUME NEW r, NEW was, NEW to \in BOOLEAN, NEW d
    PROVE  /\ Pub(r, was, to, d).run = r /\ (Pub(r, was, to, d).to <=> to)
           /\ Pub(r, was, to, d).drawn = d
           /\ NoPub.run = 0 /\ NoPub.drawn = 0
BY Zenon DEF Pub, NoPub

\* A request takes its place, or leaves it.
LEMMA PubMoves ==
    ASSUME StudioTypeOK, NEW p \in Publishers, NEW new,
           pub' = [pub EXCEPT ![p] = new], Len(rows') = Len(rows),
           slugs' \in Nat, slugs <= slugs',
           new \in [run : 0..Len(rows), was : BOOLEAN, to : BOOLEAN, drawn : 0..slugs']
    PROVE  /\ pub'[p] = new /\ \A o \in Publishers \ {p} : pub'[o] = pub[o]
           /\ pub' \in [Publishers -> [run : 0..Len(rows'), was : BOOLEAN,
                                        to : BOOLEAN, drawn : 0..slugs']]
<1> DEFINE Old == [run : 0..Len(rows), was : BOOLEAN, to : BOOLEAN, drawn : 0..slugs]
           New == [run : 0..Len(rows), was : BOOLEAN, to : BOOLEAN, drawn : 0..slugs']
<1>1. pub \in [Publishers -> Old]  BY DEF StudioTypeOK
<1>2. 0..slugs \subseteq 0..slugs'  BY StudioFacts
<1>3. Old \subseteq New  BY <1>2, Zenon
<1>4. new \in New  OBVIOUS
<1> HIDE DEF Old, New
<1>5. pub' \in [Publishers -> New]  BY <1>1, <1>3, <1>4
<1>6. pub'[p] = new /\ \A o \in Publishers \ {p} : pub'[o] = pub[o]
      BY <1>1
<1>7. QED  BY <1>5, <1>6 DEF New

\* Everything but the publications is as it was.
LEMMA OthersHold ==
    ASSUME StudioInv,
           UNCHANGED <<enabled, rows, month, jobs, pc, made, replied, crowded>>
    PROVE  Runs' = Runs /\ PlaceIsKept' /\ TasksHeld'
BY DEF StudioInv, Runs, PlaceIsKept, TasksHeld

LEMMA ReadToPublishStep ==
    ASSUME StudioInv, NEW p \in Publishers, NEW r \in Runs, ReadToPublish(p, r)
    PROVE  StudioInv'
<1>t. /\ StudioTypeOK /\ RowsHold /\ PublishHeld /\ SlugsHeld
      /\ Len(rows) \in Nat /\ slugs \in Nat /\ rows[r] \in Row
      BY StudioFacts DEF StudioInv
<1> DEFINE first == rows[r].slug = 0
           rival == {o \in Publishers \ {p} : pub[o].run = r /\ pub[o].drawn # 0}
<1>d. PICK d : d = IF first THEN slugs + 1 ELSE 0  OBVIOUS
<1>w. PICK was : was = rows[r].published  OBVIOUS
<1>1. /\ rows[r].status = "scored" /\ (first => slugs < MaxSlugs)
      /\ slugs' = (IF first THEN slugs + 1 ELSE slugs)
      /\ pub' = [pub EXCEPT ![p] = Pub(r, was, TRUE, d)]
      /\ doubled' = (IF first /\ rival # {} THEN doubled \cup {r} ELSE doubled)
      /\ UNCHANGED <<enabled, rows, month, jobs, pc, made, replied, crowded>>
      BY <1>d, <1>w DEF ReadToPublish, Pub
<1>2. /\ slugs' \in Nat /\ slugs <= slugs' /\ d \in 0..slugs'
      /\ slugs' \in 0..MaxSlugs /\ r \in 0..Len(rows) /\ r # 0
      BY <1>t, <1>1, <1>d, Bounds DEF StudioTypeOK, Runs
<1>3. Pub(r, was, TRUE, d) \in
         [run : 0..Len(rows), was : BOOLEAN, to : BOOLEAN, drawn : 0..slugs']
  <2>1. was \in BOOLEAN  BY <1>t, <1>w, RowFields
  <2>2. QED  BY <1>2, <2>1 DEF Pub
<1>4. /\ pub'[p] = Pub(r, was, TRUE, d) /\ \A o \in Publishers \ {p} : pub'[o] = pub[o]
      /\ pub' \in [Publishers -> [run : 0..Len(rows'), was : BOOLEAN, to : BOOLEAN,
                                   drawn : 0..slugs']]
      BY <1>t, <1>1, <1>2, <1>3, PubMoves
<1>5. pub'[p].run = r /\ pub'[p].to /\ pub'[p].drawn = d
  <2>1. pub'[p] = [run |-> r, was |-> was, to |-> TRUE, drawn |-> d]  BY <1>4 DEF Pub
  <2>2. pub'[p].run = r /\ pub'[p].drawn = d  BY <2>1
  <2>3. pub'[p].to
    <3>1. PICK x : x = pub'[p]  OBVIOUS
    <3>2. x = [run |-> r, was |-> was, to |-> TRUE, drawn |-> d]  BY <2>1, <3>1
    <3>3. x.to = TRUE  BY <3>2, Zenon
    <3>4. QED  BY <3>1, <3>3, Zenon
  <2>4. QED  BY <2>2, <2>3
<1>6. Runs' = Runs /\ PlaceIsKept' /\ TasksHeld'  BY <1>1, OthersHold
<1>7. doubled \subseteq doubled' /\ doubled' \subseteq Runs
      BY <1>t, <1>1 DEF StudioTypeOK
<1>8. StudioTypeOK'
  <2>1. replied' \subseteq Runs' \X (1..slugs')
        BY <1>t, <1>1, <1>2, <1>6 DEF StudioTypeOK
  <2>2. QED  BY <1>t, <1>1, <1>2, <1>4, <1>6, <1>7, <2>1 DEF StudioTypeOK
<1>9. RowsHold'
  <2>1. \A u \in Runs : rows[u].slug \in Nat  BY <1>t, StudioFacts, RowFields
  <2>2. QED  BY <1>t, <1>1, <1>2, <1>6, <2>1 DEF RowsHold
<1>10. SlugsHeld'  BY <1>t, <1>1, <1>7 DEF SlugsHeld
<1>11. PublishHeld'
  <2>1. \A o \in Publishers :
           /\ pub'[o].run # 0 /\ pub'[o].to =>
                 /\ rows[pub'[o].run].status = "scored"
                 /\ pub'[o].drawn # 0 \/ rows[pub'[o].run].slug # 0
           /\ pub'[o].drawn # 0 =>
                 /\ pub'[o].run # 0
                 /\ pub'[o].run \in doubled' \/ rows[pub'[o].run].slug = 0
    <3>1. SUFFICES ASSUME NEW o \in Publishers
                   PROVE  /\ pub'[o].run # 0 /\ pub'[o].to =>
                                /\ rows[pub'[o].run].status = "scored"
                                /\ pub'[o].drawn # 0 \/ rows[pub'[o].run].slug # 0
                          /\ pub'[o].drawn # 0 =>
                                /\ pub'[o].run # 0
                                /\ pub'[o].run \in doubled' \/ rows[pub'[o].run].slug = 0
          OBVIOUS
    <3>2. CASE o = p
      <4>1. d # 0 <=> rows[r].slug = 0  BY <1>t, <1>d
      <4>2. QED  BY <1>1, <1>2, <1>5, <3>2, <4>1
    <3>3. CASE o # p
      <4>1. pub'[o] = pub[o]  BY <1>4, <3>3
      <4>2. QED  BY <1>t, <1>7, <4>1 DEF PublishHeld
    <3>4. QED  BY <3>2, <3>3
  <2>2. \A o \in Publishers \ {p} :
           pub'[o].drawn # 0 /\ d # 0 /\ pub'[o].run = r => r \in doubled'
    <3>1. SUFFICES ASSUME NEW o \in Publishers \ {p}, pub[o].drawn # 0, d # 0,
                          pub[o].run = r
                   PROVE  r \in doubled'
          BY <1>4
    <3>2. o \in rival /\ first  BY <3>1, <1>d
    <3>3. QED  BY <1>1, <3>2
  <2>3. \A o, q \in Publishers :
           o # q /\ pub'[o].drawn # 0 /\ pub'[q].drawn # 0 /\ pub'[o].run = pub'[q].run =>
               pub'[q].run \in doubled'
    <3>1. SUFFICES ASSUME NEW o \in Publishers, NEW q \in Publishers, o # q,
                          pub'[o].drawn # 0, pub'[q].drawn # 0, pub'[o].run = pub'[q].run
                   PROVE  pub'[q].run \in doubled'
          OBVIOUS
    <3>2. CASE o = p  BY <1>5, <2>2, <3>1, <3>2
    <3>3. CASE q = p  BY <1>5, <2>2, <3>1, <3>3
    <3>4. CASE o # p /\ q # p
      <4>1. pub'[o] = pub[o] /\ pub'[q] = pub[q]  BY <1>4, <3>4
      <4>2. QED  BY <1>t, <1>7, <3>1, <4>1 DEF PublishHeld
    <3>5. QED  BY <3>2, <3>3, <3>4
  <2>4. QED  BY <1>1, <2>1, <2>3 DEF PublishHeld
<1>12. QED  BY <1>6, <1>8, <1>9, <1>10, <1>11 DEF StudioInv

\* A request that draws no slug and publishes nothing.
LEMMA PubQuiet ==
    ASSUME StudioInv, NEW p \in Publishers, NEW new,
           pub' = [pub EXCEPT ![p] = new], new.drawn = 0, new.run = 0 \/ ~new.to,
           new \in [run : 0..Len(rows), was : BOOLEAN, to : BOOLEAN, drawn : 0..slugs],
           UNCHANGED <<enabled, rows, month, jobs, pc, made, slugs, replied, crowded,
                       doubled>>
    PROVE  StudioInv'
<1>t. StudioTypeOK /\ RowsHold /\ PublishHeld /\ SlugsHeld /\ slugs \in Nat
      BY StudioFacts DEF StudioInv
<1>1. /\ pub'[p] = new /\ \A o \in Publishers \ {p} : pub'[o] = pub[o]
      /\ pub' \in [Publishers -> [run : 0..Len(rows'), was : BOOLEAN, to : BOOLEAN,
                                   drawn : 0..slugs']]
  <2>1. /\ slugs' \in Nat /\ slugs <= slugs' /\ Len(rows') = Len(rows)
        /\ new \in [run : 0..Len(rows), was : BOOLEAN, to : BOOLEAN, drawn : 0..slugs']
        BY <1>t
  <2>2. QED  BY <1>t, <2>1, PubMoves
<1>2. Runs' = Runs /\ PlaceIsKept' /\ TasksHeld'  BY OthersHold
<1>3. StudioTypeOK'  BY <1>t, <1>1, <1>2 DEF StudioTypeOK
<1>4. RowsHold' /\ SlugsHeld'  BY <1>t, <1>2 DEF RowsHold, SlugsHeld
<1>5. \A o \in Publishers :
         /\ pub'[o].run # 0 /\ pub'[o].to => pub'[o] = pub[o]
         /\ pub'[o].drawn # 0 => pub'[o] = pub[o]
      BY <1>1
<1>6. PublishHeld'
  <2>1. \A o \in Publishers :
           /\ pub'[o].run # 0 /\ pub'[o].to =>
                 /\ rows[pub'[o].run].status = "scored"
                 /\ pub'[o].drawn # 0 \/ rows[pub'[o].run].slug # 0
           /\ pub'[o].drawn # 0 =>
                 /\ pub'[o].run # 0
                 /\ pub'[o].run \in doubled \/ rows[pub'[o].run].slug = 0
        BY <1>t, <1>5 DEF PublishHeld
  <2>2. \A o, q \in Publishers :
           o # q /\ pub'[o].drawn # 0 /\ pub'[q].drawn # 0 /\ pub'[o].run = pub'[q].run =>
               pub'[q].run \in doubled
        BY <1>t, <1>5 DEF PublishHeld
  <2>3. QED  BY <2>1, <2>2 DEF PublishHeld
<1>7. QED  BY <1>2, <1>3, <1>4, <1>6 DEF StudioInv

LEMMA ReadToUnpublishStep ==
    ASSUME StudioInv, NEW p \in Publishers, NEW r \in Runs, ReadToUnpublish(p, r)
    PROVE  StudioInv'
<1>t. Len(rows) \in Nat /\ slugs \in Nat /\ rows[r] \in Row
      BY StudioFacts DEF StudioInv
<1>w. PICK was : was = rows[r].published  OBVIOUS
<1>1. /\ pub' = [pub EXCEPT ![p] = Pub(r, was, FALSE, 0)]
      /\ UNCHANGED <<enabled, rows, month, jobs, pc, made, slugs, replied, crowded,
                     doubled>>
      BY <1>w DEF ReadToUnpublish, Pub
<1>2. was \in BOOLEAN /\ r \in 0..Len(rows) /\ 0 \in 0..slugs
      BY <1>t, <1>w, RowFields DEF Runs
<1>3. Pub(r, was, FALSE, 0) \in
         [run : 0..Len(rows), was : BOOLEAN, to : BOOLEAN, drawn : 0..slugs]
      BY <1>2 DEF Pub
<1>4. Pub(r, was, FALSE, 0).drawn = 0 /\ ~Pub(r, was, FALSE, 0).to
      BY Zenon DEF Pub
<1>5. QED  BY <1>1, <1>3, <1>4, PubQuiet

LEMMA PublishDiesStep ==
    ASSUME StudioInv, NEW p \in Publishers, PublishDies(p)
    PROVE  StudioInv'
<1>t. Len(rows) \in Nat /\ slugs \in Nat  BY StudioFacts DEF StudioInv
<1>1. /\ pub' = [pub EXCEPT ![p] = NoPub]
      /\ UNCHANGED <<enabled, rows, month, jobs, pc, made, slugs, replied, crowded,
                     doubled>>
      BY DEF PublishDies
<1>2. NoPub \in [run : 0..Len(rows), was : BOOLEAN, to : BOOLEAN, drawn : 0..slugs]
      BY <1>t DEF NoPub
<1>3. NoPub.drawn = 0 /\ NoPub.run = 0  BY PubFields
<1>4. QED  BY <1>1, <1>2, <1>3, PubQuiet

Written(row, d, flag) == [row EXCEPT !.slug = d, !.published = flag]

LEMMA CommitPublishStep ==
    ASSUME StudioInv, NEW p \in Publishers, CommitPublish(p)
    PROVE  StudioInv'
<1>t. /\ StudioTypeOK /\ PlaceIsKept /\ TasksHeld /\ RowsHold /\ PublishHeld /\ SlugsHeld
      /\ Len(rows) \in Nat /\ slugs \in Nat /\ rows \in Seq(Row)
      BY StudioFacts DEF StudioInv, StudioTypeOK
<1>r. PICK r : r = pub[p].run  OBVIOUS
<1>c. PICK old : old = rows[r]  OBVIOUS
<1>u. PICK u : u = pub[p]  OBVIOUS
<1>d. PICK d : d = IF u.drawn # 0 THEN u.drawn ELSE old.slug  OBVIOUS
<1>f. PICK flag : flag = IF u.to # u.was THEN u.to ELSE old.published  OBVIOUS
<1>n. PICK new : new = Written(old, d, flag)  OBVIOUS
<1>1. /\ r # 0 /\ rows' = [rows EXCEPT ![r] = new]
      /\ replied' = (IF new.published THEN replied \cup {<<r, new.slug>>} ELSE replied)
      /\ pub' = [pub EXCEPT ![p] = NoPub]
      /\ UNCHANGED <<enabled, month, jobs, pc, made, slugs, crowded, doubled>>
      BY <1>r, <1>c, <1>u, <1>d, <1>f, <1>n, Zenon DEF CommitPublish, Written
<1>2. /\ r \in Runs /\ old \in Row /\ u.run = r
      /\ u.drawn \in 0..slugs /\ u.to \in BOOLEAN /\ u.was \in BOOLEAN
  <2>1. r \in Runs  BY <1>t, <1>r, <1>1, StudioFacts
  <2>2. old \in Row  BY <1>t, <1>c, <2>1, StudioFacts
  <2>3. u \in [run : 0..Len(rows), was : BOOLEAN, to : BOOLEAN, drawn : 0..slugs]
        BY <1>t, <1>u, StudioFacts
  <2>4. QED  BY <1>r, <1>u, <2>1, <2>2, <2>3, Zenon
<1>3. /\ old.published \in BOOLEAN /\ old.slug \in Nat /\ old.slug <= slugs
      BY <1>t, <1>2, <1>c, RowFields DEF RowsHold
<1>4. d \in Nat /\ d <= slugs  BY <1>t, <1>2, <1>3, <1>d
<1>5. flag \in BOOLEAN  BY <1>2, <1>3, <1>f, Zenon
<1>6. /\ new \in Row /\ new.slug = d /\ new.published = flag /\ new.status = old.status
      /\ new.pages = old.pages /\ new.scored = old.scored /\ new.good = old.good
      /\ new.iterations = old.iterations /\ new.tokens = old.tokens /\ new.cost = old.cost
  <2>1. old \in Row /\ d \in Nat /\ flag \in BOOLEAN /\ new = Written(old, d, flag)
        BY <1>2, <1>4, <1>5, <1>n, Zenon
  <2>2. QED  BY <2>1, Zenon DEF Row, Written
<1>7. /\ rows' \in Seq(Row) /\ Len(rows') = Len(rows) /\ rows'[r] = new
      /\ \A v \in Runs : v # r => rows'[v] = rows[v]
      BY <1>t, <1>1, <1>2, <1>6, SeqExcept DEF Runs
<1>8. Runs' = Runs  BY <1>7 DEF Runs
\* A published row has a slug.
<1>9. flag => new.status = "scored" /\ d # 0
  <2>1. old.published => old.status = "scored" /\ old.slug # 0
        BY <1>t, <1>2, <1>c DEF RowsHold
  <2>2. u.to => old.status = "scored" /\ (u.drawn # 0 \/ old.slug # 0)
        BY <1>t, <1>1, <1>2, <1>c, <1>r, <1>u DEF PublishHeld
  <2>3. old.slug # 0 => d # 0  BY <1>d
  <2>4. u.drawn # 0 => d # 0  BY <1>d
  <2>5. flag => u.to \/ old.published  BY <1>f, Zenon
  <2>6. QED  BY <1>6, <2>1, <2>2, <2>3, <2>4, <2>5
\* Only a first publication writes another slug, or one of two rivals.
<1>10. d # old.slug => u.drawn # 0 /\ (r \in doubled \/ old.slug = 0)
       BY <1>t, <1>2, <1>c, <1>d, <1>r, <1>u DEF PublishHeld
<1>11. NoPub \in [run : 0..Len(rows), was : BOOLEAN, to : BOOLEAN, drawn : 0..slugs]
       BY <1>t DEF NoPub
<1>12. /\ pub'[p] = NoPub /\ \A o \in Publishers \ {p} : pub'[o] = pub[o]
       /\ pub' \in [Publishers -> [run : 0..Len(rows'), was : BOOLEAN, to : BOOLEAN,
                                    drawn : 0..slugs']]
  <2>1. /\ slugs' \in Nat /\ slugs <= slugs'
        /\ NoPub \in [run : 0..Len(rows), was : BOOLEAN, to : BOOLEAN, drawn : 0..slugs']
        BY <1>t, <1>1, <1>11
  <2>2. QED  BY <1>t, <1>1, <1>7, <2>1, PubMoves
<1>13. StudioTypeOK'
  <2>1. made' \in [Requests -> 0..Len(rows')]  BY <1>t, <1>1, <1>7 DEF StudioTypeOK
  <2>2. replied' \subseteq Runs' \X (1..slugs')
    <3>1. flag => d \in 1..slugs  BY <1>t, <1>4, <1>9
    <3>2. QED  BY <1>t, <1>1, <1>2, <1>6, <1>8, <3>1 DEF StudioTypeOK
  <2>3. QED  BY <1>t, <1>1, <1>7, <1>8, <1>12, <2>1, <2>2 DEF StudioTypeOK
<1>14. PlaceIsKept'  BY <1>t, <1>1 DEF PlaceIsKept
<1>15. TasksHeld'
  <2>1. \A v \in Runs : rows'[v].status = rows[v].status  BY <1>c, <1>6, <1>7
  <2>2. \A q \in Requests : made[q] # 0 => made[q] \in Runs
        BY <1>t, StudioFacts DEF Runs
  <2>3. \A q \in Requests : made[q] # 0 => rows'[made[q]].status = "generating"
        BY <1>t, <2>1, <2>2 DEF TasksHeld
  <2>4. QED  BY <1>t, <1>1, <1>8, <2>1, <2>3 DEF TasksHeld
<1>16. RowsHold'
  <2>1. RunAddsUp(old) => RunAddsUp(new)  BY <1>6 DEF RunAddsUp
  <2>2. /\ new.status = "scored" => RunAddsUp(new)
        /\ new.published => new.status = "scored" /\ new.slug # 0
        /\ new.slug <= slugs
        BY <1>t, <1>2, <1>4, <1>6, <1>9, <1>c, <2>1 DEF RowsHold
  <2>3. QED  BY <1>t, <1>1, <1>7, <1>8, <2>2 DEF RowsHold
<1>17. SlugsHeld'
  <2>1. ASSUME NEW x \in replied  PROVE x[1] \in doubled \/ rows'[x[1]].slug = x[2]
    <3>1. x[1] \in Runs /\ x[2] # 0 /\ (x[1] \in doubled \/ rows[x[1]].slug = x[2])
          BY <1>t DEF StudioTypeOK, SlugsHeld
    <3>2. CASE x[1] = r
          BY <1>c, <1>6, <1>7, <1>10, <3>1, <3>2
    <3>3. CASE x[1] # r  BY <1>7, <3>1, <3>3
    <3>4. QED  BY <3>2, <3>3
  <2>2. ASSUME NEW x \in {<<r, new.slug>>}  PROVE rows'[x[1]].slug = x[2]
        BY <1>7
  <2>3. QED  BY <1>1, <2>1, <2>2 DEF SlugsHeld
<1>18. PublishHeld'
  <2>1. \A o \in Publishers : pub'[o].run # 0 => o # p /\ pub'[o] = pub[o]
        BY <1>12, PubFields
  <2>2. \A o \in Publishers : pub'[o].drawn # 0 => o # p /\ pub'[o] = pub[o]
        BY <1>12, PubFields
  <2>3. \A o \in Publishers :
           pub'[o].run # 0 /\ pub'[o].to =>
               /\ rows'[pub'[o].run].status = "scored"
               /\ pub'[o].drawn # 0 \/ rows'[pub'[o].run].slug # 0
    <3>1. SUFFICES ASSUME NEW o \in Publishers, pub'[o].run # 0, pub'[o].to
                   PROVE  /\ rows'[pub'[o].run].status = "scored"
                          /\ pub'[o].drawn # 0 \/ rows'[pub'[o].run].slug # 0
          OBVIOUS
    <3>2. /\ pub'[o] = pub[o] /\ pub[o].run \in Runs
          /\ rows[pub[o].run].status = "scored"
          /\ pub[o].drawn # 0 \/ rows[pub[o].run].slug # 0
          BY <1>t, <2>1, <3>1, StudioFacts DEF PublishHeld
    <3>3. old.slug # 0 => d # 0  BY <1>d
    <3>4. QED  BY <1>c, <1>6, <1>7, <3>2, <3>3
  <2>4. \A o \in Publishers :
           pub'[o].drawn # 0 =>
               /\ pub'[o].run # 0
               /\ pub'[o].run \in doubled \/ rows'[pub'[o].run].slug = 0
    <3>1. SUFFICES ASSUME NEW o \in Publishers, pub'[o].drawn # 0
                   PROVE  /\ pub'[o].run # 0
                          /\ pub'[o].run \in doubled \/ rows'[pub'[o].run].slug = 0
          OBVIOUS
    <3>2. /\ o # p /\ pub'[o] = pub[o] /\ pub[o].drawn # 0 /\ pub[o].run # 0
          /\ pub[o].run \in doubled \/ rows[pub[o].run].slug = 0
          BY <1>t, <2>2, <3>1 DEF PublishHeld
    <3>3. pub[o].run \in Runs  BY <1>t, <3>2, StudioFacts
    <3>4. pub[o].run = r /\ u.drawn # 0 => r \in doubled
          BY <1>t, <1>r, <1>u, <3>2 DEF PublishHeld
    <3>5. pub[o].run = r => r \in doubled \/ d = 0
          BY <1>10, <1>c, <3>2, <3>4
    <3>6. QED  BY <1>6, <1>7, <3>2, <3>3, <3>5
  <2>5. \A o, q \in Publishers :
           o # q /\ pub'[o].drawn # 0 /\ pub'[q].drawn # 0 /\ pub'[o].run = pub'[q].run =>
               pub'[q].run \in doubled
        BY <1>t, <2>2 DEF PublishHeld
  <2>6. QED  BY <1>1, <2>3, <2>4, <2>5 DEF PublishHeld
<1>19. QED  BY <1>13, <1>14, <1>15, <1>16, <1>17, <1>18 DEF StudioInv

-------------------------------------------------------------------------------
(***************************************************************************)
(* The theorems                                                            *)
(***************************************************************************)
LEMMA StudioInitially ==
    ASSUME StudioInit
    PROVE  StudioInv
<1>1. /\ enabled = FALSE /\ rows = <<>> /\ month = {} /\ jobs = <<>> /\ slugs = 0
      /\ pc = [q \in Requests |-> "idle"] /\ made = [q \in Requests |-> 0]
      /\ pub = [p \in Publishers |-> NoPub]
      /\ replied = {} /\ crowded = FALSE /\ doubled = {}
      BY DEF StudioInit
<1>2. Len(rows) = 0 /\ Len(jobs) = 0 /\ Runs = {}  BY <1>1 DEF Runs
<1>3. NoPub \in [run : 0..0, was : BOOLEAN, to : BOOLEAN, drawn : 0..0]
      BY DEF NoPub
<1>4. pub \in [Publishers -> [run : 0..Len(rows), was : BOOLEAN, to : BOOLEAN,
                              drawn : 0..slugs]]
      BY <1>1, <1>2, <1>3
<1>5. rows \in Seq(Row) /\ jobs \in Seq(Job) /\ made \in [Requests -> 0..Len(rows)]
      BY <1>1, <1>2
<1>6. StudioTypeOK
  <2>1. Len(rows) <= MaxRuns /\ slugs \in 0..MaxSlugs  BY <1>1, <1>2, Bounds
  <2>2. pc \in [Requests -> {"idle", "insert", "task"}]  BY <1>1
  <2>3. /\ enabled \in BOOLEAN /\ crowded \in BOOLEAN /\ Len(jobs) = Len(rows)
        /\ month \subseteq Runs /\ doubled \subseteq Runs
        /\ replied \subseteq Runs \X (1..slugs)
        BY <1>1, <1>2
  <2>4. QED  BY <1>4, <1>5, <2>1, <2>2, <2>3 DEF StudioTypeOK
<1>7. PlaceIsKept  BY <1>1, FS_EmptySet, Bounds DEF PlaceIsKept
<1>8. TasksHeld  BY <1>1, <1>2 DEF TasksHeld
<1>9. RowsHold /\ PublishHeld /\ SlugsHeld
      BY <1>1, <1>2, PubFields DEF RowsHold, PublishHeld, SlugsHeld
<1>10. QED  BY <1>6, <1>7, <1>8, <1>9 DEF StudioInv

LEMMA StudioStep ==
    ASSUME StudioInv, [StudioNext]_studioVars
    PROVE  StudioInv'
<1>1. CASE UNCHANGED studioVars
      BY <1>1 DEF StudioInv, StudioTypeOK, PlaceIsKept, TasksHeld, RowsHold, PublishHeld,
                  SlugsHeld, Runs, studioVars
<1>2. ASSUME NEW q \in Requests, Check(q) \/ Insert(q) \/ StartTask(q) \/ RequestDies(q)
      PROVE  StudioInv'
      BY <1>2, CheckStep, InsertStep, StartTaskStep, RequestDiesStep
<1>3. ASSUME NEW r \in Runs,
             \/ Generate(r) \/ Refine(r) \/ EndLoop(r) \/ CallRaises(r)
             \/ CostRaises(r) \/ CommitRun(r) \/ TaskDies(r)
      PROVE  StudioInv'
      BY <1>3, TaskStep, CommitRunStep
<1>4. ASSUME NEW p \in Publishers, NEW r \in Runs,
             ReadToPublish(p, r) \/ ReadToUnpublish(p, r)
      PROVE  StudioInv'
      BY <1>4, ReadToPublishStep, ReadToUnpublishStep
<1>5. ASSUME NEW p \in Publishers, CommitPublish(p) \/ PublishDies(p)
      PROVE  StudioInv'
      BY <1>5, CommitPublishStep, PublishDiesStep
<1>6. SetTenant \/ NewMonth => StudioInv'  BY SetTenantStep, NewMonthStep
<1>7. QED  BY <1>1, <1>2, <1>3, <1>4, <1>5, <1>6 DEF StudioNext

\* Every reachable state of the Studio is one the invariant describes.
THEOREM StudioInvariant == StudioSpec => []StudioInv
<1>1. StudioInit => StudioInv  BY StudioInitially
<1>2. StudioInv /\ [StudioNext]_studioVars => StudioInv'  BY StudioStep
<1>3. QED  BY <1>1, <1>2, PTL DEF StudioSpec

\* Runs, tasks, requests and slugs are of their types.
THEOREM StudioTypeCorrect == StudioSpec => []StudioTypeOK
<1>1. StudioInv => StudioTypeOK  BY DEF StudioInv
<1>2. QED  BY <1>1, StudioInvariant, PTL

\* create_run: an organisation is never above its quota for the month, unless
\* two requests were between the check and the commit at the same time.
THEOREM QuotaIsKept == StudioSpec => []QuotaHolds
<1>1. StudioInv => QuotaHolds  BY DEF StudioInv, PlaceIsKept, QuotaHolds
<1>2. QED  BY <1>1, StudioInvariant, PTL

\* run and publish: a scored run adds up, only scored runs are on the showcase,
\* and a slug that was given out stays its run's, unless two requests published
\* the run first.
THEOREM ShowcaseIsSound == StudioSpec => []ShowcaseHolds
<1>1. StudioInv => ShowcaseHolds
      BY DEF StudioInv, RowsHold, SlugsHeld, ShowcaseHolds, Showcased
<1>2. QED  BY <1>1, StudioInvariant, PTL
===============================================================================
