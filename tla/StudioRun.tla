----------------------------- MODULE StudioRun ------------------------------
(***************************************************************************)
(* GovUX Studio for one organisation: set_tenant, create_run and publish   *)
(* of routers/studio.py, the background task run of services/studio.py,    *)
(* and what the public showcase of routers/public.py serves.               *)
(*                                                                         *)
(* A version of the generated pages is the number of the model call that   *)
(* returned it; of its score only whether it reaches the target matters.   *)
(* run holds its row in memory until the one commit in its finally block.  *)
(***************************************************************************)
EXTENDS Naturals, Sequences, FiniteSets

CONSTANTS
    Requests,       \* concurrent requests of create_run
    Admins,         \* those of a super admin
    Publishers,     \* concurrent requests of publish
    Quota,          \* studio_monthly_quota, 0 for none
    MaxRefines,     \* studio_max_refines
    MaxRuns,        \* bound: runs ever created
    MaxSlugs        \* bound: slugs ever drawn

ASSUME StudioAssumption ==
    /\ Admins \subseteq Requests
    /\ {Quota, MaxRefines, MaxRuns, MaxSlugs} \subseteq Nat

VARIABLES
    enabled,        \* studio_enabled of the organisation
    rows,           \* studio_runs
    month,          \* runs created since _month_start
    jobs,           \* each run's task, its row as it has it in memory
    pc,             \* place of each create_run
    made,           \* the run it has committed, 0 before
    pub,            \* each publish: its run, the flag it read and the flag
                    \*   it sets, the slug it drew
    slugs,          \* slugs drawn
    replied,        \* slugs given in a reply, with their run
    crowded,        \* history: two requests were past the quota check
    doubled         \* history: runs that two requests published first

studioVars == <<enabled, rows, month, jobs, pc, made, pub, slugs, replied, crowded,
                doubled>>

Runs == 1..Len(rows)

Row == [status : {"generating", "scored", "failed"}, pages : Nat, scored : Nat,
        good : BOOLEAN, iterations : Nat, tokens : Nat, cost : Nat,
        published : BOOLEAN, slug : Nat]

NewRow == [status |-> "generating", pages |-> 0, scored |-> 0, good |-> FALSE,
           iterations |-> 0, tokens |-> 0, cost |-> 0, published |-> FALSE, slug |-> 0]

\* The task: waiting to start, in its loop, about to commit, or over.
Job == [at : {"none", "start", "loop", "commit"}, pages : Nat, scored : Nat,
        good : BOOLEAN, it : Nat, tokens : Nat, fault : {"none", "call", "cost"}]

NewJob == [at |-> "none", pages |-> 0, scored |-> 0, good |-> FALSE, it |-> 0,
           tokens |-> 0, fault |-> "none"]

NoPub == [run |-> 0, was |-> FALSE, to |-> FALSE, drawn |-> 0]

StudioTypeOK ==
    /\ enabled \in BOOLEAN
    /\ rows \in Seq(Row) /\ Len(rows) <= MaxRuns
    /\ month \subseteq Runs
    /\ jobs \in Seq(Job) /\ Len(jobs) = Len(rows)
    /\ pc \in [Requests -> {"idle", "insert", "task"}]
    /\ made \in [Requests -> 0..Len(rows)]
    /\ pub \in [Publishers -> [run : 0..Len(rows), was : BOOLEAN, to : BOOLEAN,
                               drawn : 0..slugs]]
    /\ slugs \in 0..MaxSlugs
    /\ replied \subseteq Runs \X (1..slugs)
    /\ crowded \in BOOLEAN
    /\ doubled \subseteq Runs

StudioInit ==
    /\ enabled = FALSE
    /\ rows = <<>>
    /\ month = {}
    /\ jobs = <<>>
    /\ pc = [q \in Requests |-> "idle"]
    /\ made = [q \in Requests |-> 0]
    /\ pub = [p \in Publishers |-> NoPub]
    /\ slugs = 0
    /\ replied = {}
    /\ crowded = FALSE
    /\ doubled = {}

-------------------------------------------------------------------------------
\* set_tenant, by the super admin.
SetTenant ==
    /\ enabled' = ~enabled
    /\ UNCHANGED <<rows, month, jobs, pc, made, pub, slugs, replied, crowded, doubled>>

Goto(q, place) == pc' = [pc EXCEPT ![q] = place]

\* Variant: only runs that have been scored count.
CheckScored(q) ==
    /\ pc[q] = "idle"
    /\ enabled \/ q \in Admins
    /\ Quota > 0 =>
          Cardinality({r \in month : rows[r].status = "scored"}) < Quota
    /\ Goto(q, "insert")
    /\ crowded' = (crowded \/ \E p \in Requests \ {q} : pc[p] = "insert")
    /\ UNCHANGED <<enabled, rows, month, jobs, made, pub, slugs, replied, doubled>>

\* create_run: the organisation is approved, or a super admin asks, and it is
\* below its quota.
Check(q) ==
    /\ pc[q] = "idle"
    /\ enabled \/ q \in Admins
    /\ Quota > 0 => Cardinality(month) < Quota
    /\ Goto(q, "insert")
    /\ crowded' = (crowded \/ \E p \in Requests \ {q} : pc[p] = "insert")
    /\ UNCHANGED <<enabled, rows, month, jobs, made, pub, slugs, replied, doubled>>

\* create_run: the row is committed.
Insert(q) ==
    /\ pc[q] = "insert"
    /\ Len(rows) < MaxRuns
    /\ rows' = Append(rows, NewRow)
    /\ jobs' = Append(jobs, NewJob)
    /\ month' = month \cup {Len(rows) + 1}
    /\ made' = [made EXCEPT ![q] = Len(rows) + 1]
    /\ Goto(q, "task")
    /\ UNCHANGED <<enabled, pub, slugs, replied, crowded, doubled>>

\* The reply is sent, then the task begins.
StartTask(q) ==
    /\ pc[q] = "task"
    /\ jobs' = [jobs EXCEPT ![made[q]].at = "start"]
    /\ made' = [made EXCEPT ![q] = 0]
    /\ Goto(q, "idle")
    /\ UNCHANGED <<enabled, rows, month, pub, slugs, replied, crowded, doubled>>

\* The API process is killed, or the database raises.
RequestDies(q) ==
    /\ pc[q] # "idle"
    /\ made' = [made EXCEPT ![q] = 0]
    /\ Goto(q, "idle")
    /\ UNCHANGED <<enabled, rows, month, jobs, pub, slugs, replied, crowded, doubled>>

\* The next month begins.
NewMonth ==
    /\ month # {}
    /\ month' = {}
    /\ crowded' = (\E p \in Requests : pc[p] = "insert")
    /\ UNCHANGED <<enabled, rows, jobs, pc, made, pub, slugs, replied, doubled>>

-------------------------------------------------------------------------------
\* The model answers with pages, which are billed and scored.
Answered(j, good) ==
    [j EXCEPT !.pages = j.tokens + 1, !.tokens = @ + 1, !.scored = j.tokens + 1,
              !.good = good]

\* run: generate.
Generate(r) ==
    /\ jobs[r].at = "start"
    /\ \E good \in BOOLEAN :
          jobs' = [jobs EXCEPT ![r] = [Answered(@, good) EXCEPT !.at = "loop"]]
    /\ UNCHANGED <<enabled, rows, month, pc, made, pub, slugs, replied, crowded, doubled>>

\* run: refine, below the target and with refinements left.
Refine(r) ==
    /\ jobs[r].at = "loop"
    /\ ~jobs[r].good
    /\ jobs[r].it < MaxRefines
    /\ \E good \in BOOLEAN :
          jobs' = [jobs EXCEPT ![r] = [Answered(@, good) EXCEPT !.it = jobs[r].it + 1]]
    /\ UNCHANGED <<enabled, rows, month, pc, made, pub, slugs, replied, crowded, doubled>>

\* run: the loop is over.
EndLoop(r) ==
    /\ jobs[r].at = "loop"
    /\ jobs[r].good \/ jobs[r].it >= MaxRefines
    /\ jobs' = [jobs EXCEPT ![r].at = "commit"]
    /\ UNCHANGED <<enabled, rows, month, pc, made, pub, slugs, replied, crowded, doubled>>

\* run: a call is given up.  The provider raises, or its answer is no JSON object of
\* pages, and its tokens are not counted; or they are, and the scoring raises.
CallRaises(r) ==
    /\ \/ jobs[r].at = "start"
       \/ jobs[r].at = "loop" /\ ~jobs[r].good /\ jobs[r].it < MaxRefines
    /\ \E billed \in {0, 1} :
          jobs' = [jobs EXCEPT ![r] = [@ EXCEPT !.at = "commit", !.fault = "call",
                                                !.tokens = jobs[r].tokens + billed]]
    /\ UNCHANGED <<enabled, rows, month, pc, made, pub, slugs, replied, crowded, doubled>>

\* run: the loop is over and the row is filled in, then cost_inr raises.
CostRaises(r) ==
    /\ jobs[r].at = "loop"
    /\ jobs[r].good \/ jobs[r].it >= MaxRefines
    /\ jobs' = [jobs EXCEPT ![r] = [@ EXCEPT !.at = "commit", !.fault = "cost"]]
    /\ UNCHANGED <<enabled, rows, month, pc, made, pub, slugs, replied, crowded, doubled>>

\* What a task leaves in its row.  A run that failed has its tokens, not their cost,
\* and its pages and score only when the cost was what failed.
Kept(row, j) ==
    LET billed == [row EXCEPT !.status = "failed", !.tokens = j.tokens]
        shown  == [billed EXCEPT !.pages = j.pages, !.scored = j.scored,
                                 !.good = j.good, !.iterations = j.it]
    IN
    CASE j.fault = "call" -> billed
      [] j.fault = "cost" -> shown
      [] j.fault = "none" -> [shown EXCEPT !.status = "scored", !.cost = j.tokens]

\* run: the commit in finally.
CommitRun(r) ==
    /\ jobs[r].at = "commit"
    /\ rows' = [rows EXCEPT ![r] = Kept(@, jobs[r])]
    /\ jobs' = [jobs EXCEPT ![r] = NewJob]
    /\ UNCHANGED <<enabled, month, pc, made, pub, slugs, replied, crowded, doubled>>

\* The process is killed, or that commit raises: nothing is kept.
TaskDies(r) ==
    /\ jobs[r].at # "none"
    /\ jobs' = [jobs EXCEPT ![r] = NewJob]
    /\ UNCHANGED <<enabled, rows, month, pc, made, pub, slugs, replied, crowded, doubled>>

-------------------------------------------------------------------------------
\* Variant: a slug is drawn for every publication.
ReadToRepublish(p, r) ==
    /\ pub[p].run = 0
    /\ rows[r].status = "scored"
    /\ rows[r].pages # 0
    /\ slugs < MaxSlugs
    /\ slugs' = slugs + 1
    /\ pub' = [pub EXCEPT ![p] = [run |-> r, was |-> rows[r].published, to |-> TRUE,
                                  drawn |-> slugs + 1]]
    /\ UNCHANGED <<enabled, rows, month, jobs, pc, made, replied, crowded, doubled>>

\* publish: only a finished prototype; a slug is drawn when it has none.
ReadToPublish(p, r) ==
    LET first == rows[r].slug = 0
        rival == {o \in Publishers \ {p} : pub[o].run = r /\ pub[o].drawn # 0}
    IN
    /\ pub[p].run = 0
    /\ rows[r].status = "scored"
    /\ rows[r].pages # 0
    /\ first => slugs < MaxSlugs
    /\ slugs' = IF first THEN slugs + 1 ELSE slugs
    /\ pub' = [pub EXCEPT ![p] = [run |-> r, was |-> rows[r].published, to |-> TRUE,
                                  drawn |-> IF first THEN slugs + 1 ELSE 0]]
    /\ doubled' = IF first /\ rival # {} THEN doubled \cup {r} ELSE doubled
    /\ UNCHANGED <<enabled, rows, month, jobs, pc, made, replied, crowded>>

\* publish with publish = FALSE: any run of the organisation.
ReadToUnpublish(p, r) ==
    /\ pub[p].run = 0
    /\ pub' = [pub EXCEPT ![p] = [run |-> r, was |-> rows[r].published, to |-> FALSE,
                                  drawn |-> 0]]
    /\ UNCHANGED <<enabled, rows, month, jobs, pc, made, slugs, replied, crowded, doubled>>

\* publish: the commit.  The ORM writes the columns whose value differs from
\* what it read.  The reply reads the row again.
CommitPublish(p) ==
    LET r   == pub[p].run
        row == [rows[r] EXCEPT
                  !.slug = IF pub[p].drawn # 0 THEN pub[p].drawn ELSE @,
                  !.published = IF pub[p].to # pub[p].was THEN pub[p].to ELSE @]
    IN
    /\ r # 0
    /\ rows' = [rows EXCEPT ![r] = row]
    /\ replied' = IF row.published THEN replied \cup {<<r, row.slug>>} ELSE replied
    /\ pub' = [pub EXCEPT ![p] = NoPub]
    /\ UNCHANGED <<enabled, month, jobs, pc, made, slugs, crowded, doubled>>

\* The API process is killed, or the database raises.
PublishDies(p) ==
    /\ pub[p].run # 0
    /\ pub' = [pub EXCEPT ![p] = NoPub]
    /\ UNCHANGED <<enabled, rows, month, jobs, pc, made, slugs, replied, crowded, doubled>>

-------------------------------------------------------------------------------
StudioNext ==
    \/ \E q \in Requests : Check(q) \/ Insert(q) \/ StartTask(q) \/ RequestDies(q)
    \/ \E r \in Runs :
          \/ Generate(r) \/ Refine(r) \/ EndLoop(r) \/ CallRaises(r)
          \/ CostRaises(r) \/ CommitRun(r) \/ TaskDies(r)
    \/ \E p \in Publishers, r \in Runs : ReadToPublish(p, r) \/ ReadToUnpublish(p, r)
    \/ \E p \in Publishers : CommitPublish(p) \/ PublishDies(p)
    \/ SetTenant
    \/ NewMonth

StudioSpec == StudioInit /\ [][StudioNext]_studioVars

-------------------------------------------------------------------------------
\* studio.py:95, "runs per organisation this month": never more than the quota,
\* unless two requests were past the check at the same time.
QuotaHolds == Quota > 0 /\ ~crowded => Cardinality(month) <= Quota

\* What a run shows adds up: the score is that of the pages it has, every call
\* is in its bill, and it stopped at the target or after the last refinement.
RunAddsUp(row) ==
    /\ row.pages = row.iterations + 1
    /\ row.scored = row.pages
    /\ row.tokens = row.pages /\ row.cost = row.tokens
    /\ row.good \/ row.iterations = MaxRefines

\* What _published finds for anybody who has the slug.
Showcased == {r \in Runs : rows[r].published}

\* A scored run adds up, and only such a run is on the showcase, under a slug;
\* a slug that was given in a reply stays the run's, unless two requests
\* published it first.
ShowcaseHolds ==
    /\ \A r \in Runs : rows[r].status = "scored" => RunAddsUp(rows[r])
    /\ \A r \in Showcased : rows[r].status = "scored" /\ rows[r].slug # 0
    /\ \A x \in replied : x[1] \in doubled \/ rows[x[1]].slug = x[2]
===============================================================================
