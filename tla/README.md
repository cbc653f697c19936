# A TLA+ model of the GovUX audit platform

GovUX audits government web sites. An owner (or the scheduler, or an administrator's
bulk scan) asks for an audit of a domain; the request becomes a row in PostgreSQL and a
job in a Redis stream; a worker runs a browser engine over the site for minutes, scores
what it found and commits the result; an assessor reviews it. Around that core there are
a read-through cache, settings that change at run time, sign-in with one-time codes, a
free scan for anybody, and a studio that lets a language model redesign pages.

What is hard is between those parts, not in any of them: two stores that are never
committed together, a queue that delivers at least once, counters and flags in Redis that
are read in one command and written in another, an ORM session that writes only the
columns it believes have changed. These modules model that, TLC checks it on small
instances, and TLAPS proves every safety property of every run that passes, for any number
of workers, requests and crashes.

All paths below are under `src/`; `app/` stands for `platform/backend/app/`.

## 1. The system

### Parts, state and operations

| part | source | state | operations |
|---|---|---|---|
| audit queue | `app/services/queue.py` | stream `govux:audits`, group `workers` (cursor, pending list, delivery counts, idle times), dead-letter stream | `enqueue_audit`, `read_jobs`, `reclaim_stale`, `ack`, `set_status`, `audit_depth` |
| audit worker | `app/worker.py` | the batch in hand, one job, an ORM session | `run`, `_handle`, `process` |
| audits API | `app/routers/audits.py` | rows of `audits` and what hangs from them, the per-domain advisory lock | `submit_audit`, `review_audit`, `bulk_scan`, reads |
| monitoring | `app/services/scheduler.py`, `routers/monitoring.py` | rows of `schedules`, the session of a poll | `enqueue_due`, `run`, `create_schedule`, `delete_schedule` |
| domain register | `app/routers/domains.py`, `services/verification.py` | ownership status and method of each domain | `verify_domain` |
| scoring, integrity | `app/services/scoring.py`, `integrity.py` | none (pure) | `compute_score`, `compliance_verdict`, `explain`, `assess` |
| response cache | `app/services/cache.py` | Redis keys and single-flight locks | `get_or_set`, `invalidate`, `invalidate_prefix` |
| runtime settings | `app/services/settings_store.py`, `routers/admin_config.py` | `app_settings` rows, one Redis hash with a ttl | `_cached`, `set_value` |
| sign-in, sessions | `app/routers/auth.py`, `services/authguard.py`, `frontend/lib/api.ts` | one-time codes, failure counters, sessions in families, devices; the cookie of each browser | `request_otp`, `verify_otp`, `refresh_token`, `revoke_device`, `erase_my_data` |
| free public scan | `app/routers/public.py`, `public_worker.py`, `services/ratelimit.py`, `captcha.py` | `public_scans` rows, stream `govux:public`, the counter of an address, captcha challenges | `create_scan`, `scan_status`, `process` |
| Studio | `app/routers/studio.py`, `services/studio.py` | `studio_runs` rows, monthly quota, the row each background task has in memory | `create_run`, `run`, `publish` |
| page-quota requests | `app/routers/scan_requests.py` | `scan_requests` rows | create, decide, `approved_pages` |
| audit engine | `backend/audit_engine/*.js` | none across runs | crawl, checks, aggregation |
| the rest | other routers and services, frontend, deployment | rows read and written one at a time, or none | see PROJECT.json |

### How they interact

* Requests, the scheduler and the workers are different processes. They share PostgreSQL
  (READ COMMITTED, one session each) and Redis. There is no transaction over both.
* `submit_audit` takes `pg_advisory_xact_lock` for the domain, looks for a running audit,
  inserts, commits (which releases the lock) and only then appends to the stream.
* `enqueue_due` and `bulk_scan` flush and append one audit after the other and commit all
  of them at the end. Neither takes the lock; the bulk scan does not look for a running
  audit either.
* A worker reads one job at a time with XREADGROUP and on every sixth iteration first
  claims up to ten entries that have been idle for 120 s, *whoever owns them*. The engine
  alone may run 600 s, so a job can be taken from a worker that is alive.
* The scheduler reads the ownership status that `verify_domain` commits and asks for
  running audits without a lock; one session spans all the schedules that are due, and an
  officer may delete one of them meanwhile.
* `submit_audit` compares the depth asked for with a runtime setting and with the requests
  that administrators approved; `create_request` compares it with the default.
* `process` commits at "crawling", "analyzing", "scoring" and at the end. It returns (and
  `_handle` acknowledges) or raises (and the job stays pending).
* A cached read makes up to five Redis calls around one database read (GET, SET NX of the
  lock, polls, SETEX, DEL of the lock), each of which may be refused and is then ignored.
  Writers delete the key, or all keys with a prefix, after their commit.
* `set_value` commits and then deletes the settings hash; a reader that loaded the table
  before may still store it.
* A refresh of a session reads its row, then revokes it and inserts the next one. Every
  tab of a browser, and every request of a page, sends a refresh of its own when it meets
  a 401, with the cookie of the moment.
* `create_scan` and `request_otp`/`verify_otp` check a counter in one command and move it
  in another. The public worker acknowledges every scan and never reclaims one.
* A Studio run lives in a background task of the API process: its row is committed once,
  at the end, in a `finally` block. Publication is a read, a decision and a commit.

### What each part must get right

* Queue: no job disappears unprocessed; a job that always fails stops cycling; every job
  leaves the queue in the end.
* Submission: one running audit per domain; what is accepted is answered.
* Worker: the status follows the lifecycle; results are written once per run; a verdict
  of an expert is not lost.
* Scoring: a better category never lowers the score or the band; a flagged site is never
  certified; the breakdown in a report adds up to the score it explains. Engine: the
  sample is broad, and a score comes from pages that answered, with known fillers.
* Monitoring: no domain is verified or audited on a schedule before a check of it passed;
  one scheduled audit of a domain at a time, a cadence apart.
* Page quota: a deep audit rests on an approval in force, and what a request shows is what
  the audit log says last.
* Cache and settings: how old an answer can be is bounded, whatever fails.
* Sign-in: one session per code, a lock-out that follows the failures. Sessions: one live
  token per family, nothing live after a revocation, no false alarm of reuse and nobody
  sent to the login page without a reason.
* Public scan: every scan ends, in turn; the limits hold. Studio: the quota holds, what
  is shown adds up, a public address stays what it was.

## 2. The modules

```
JobDelivery            what the queue promises (abstract)
   ^  refinement
AuditQueue             Redis stream, consumer group, the workers' loop
   ^  EXTENDS                ^ MCAuditQueue     ^ AuditQueueProofs
AuditPipeline          audits rows, API, scheduler, bulk scan, process
                             ^ MCAuditPipeline  ^ AuditPipelineProofs

Scoring                score, band, guard-rail, verdict, integrity (operators)
   ^  EXTENDS                ^ INSTANCE
Explanation                  |               the breakdown of a score (operators)
   ^  EXTENDS                |
AuditVerdict                EngineRun            rows of one audit; a run of the engine
   ^------- MCResults -------^       ^ ResultProofs (of both, and of Explanation)

BoundedReads           what the cache promises (abstract)
   ^  refinement
CacheAside                   ^ MCCacheAside     ^ CacheAsideProofs

SignIn
Sessions                     ^ MCAuth           ^ AuthProofs (of both)

SettingsStore                ^ MCSettingsStore
Monitoring
PageQuota                    ^ MCOfficers       ^ AdminProofs (also of SettingsStore)

PublicScan                   ^ MCPublicScan     ^ PublicScanProofs
StudioRun                    ^ MCStudioRun      ^ StudioRunProofs
```

**JobDelivery** is the abstract queue: a set of accepted jobs, evidence about each
("done": one call of the handler returned; "buried": its copy is in the dead-letter
stream), and the settled ones. A job settles only on evidence, evidence is never
withdrawn, and every accepted job settles.

**AuditQueue** is `services/queue.py` and the loop of `worker.py` (`run`, `_handle`).

| state | code |
|---|---|
| `stream`, `cursor`, `pel`, `deliveries` | the stream, the group's last-delivered id, its pending list and `times_delivered`, all in Redis |
| `idle` | the pending entries idle for `min_idle_ms` (time is abstracted to that bit) |
| `dlq` | `govux:audits:dlq` |
| `wpc`, `ticks`, `claimed`, `batch`, `job` | where the loop of a worker is, and its local variables |
| `attempts`, `returned`, `crashes` | history: calls of `process`, entries it returned for; a bound |

`ReadJob`/`ReadNothing` are `read_jobs`; `Reclaim`, `SiftLive`, `SiftPoison`, `Bury` are
the calls of `reclaim_stale` one by one, because every one of them is a round trip to
Redis between which other workers act; `BeginJob`, `JobReturns`, `JobRaises`, `Ack`,
`AckFails` are `_handle`. An XACK removes the entry whoever owns it by then, as in Redis.
`Crash` and `Restart` kill a worker anywhere and start it again.

**AuditPipeline** EXTENDS it with the rows of `audits` (`domainOf`, `origin`, `status`,
`scored`, `method`, `results`), the requests in flight (`cpc`, `cdom`, `ctask`,
`flushed`) and the calls of `process` (`stage`, `loaded`), and composes the actions of
both: `Load` is `BeginJob` and the first read of `process`, `Publish` contains
`JobReturns`, `Fail` contains `JobRaises`, and so on.

| action | code |
|---|---|
| `SubmitCheck`, `SubmitCommit`, `SubmitEnqueue`, `SubmitDies` | `submit_audit`, cut where another process can act or the process can die |
| `FeedOne`, `FeedCommit`, `FeedDies` | the loops of `enqueue_due` and `bulk_scan`, their one commit, their rollback |
| `Load`, `Crawl`, `Analyze`, `Reload`, `RefuseScore`, `StartScoring`, `Complete`, `Publish` | `process` from commit to commit |
| `Fail`, `FailUnrecorded` | the except block, when the database answers and when it does not |
| `Killed` | the worker is killed in the middle of a call |
| `Review` | `review_audit` |

`loaded` holds the columns of the row the session has loaded, `Expired` when it holds
none (a commit expires every object; the next attribute read loads the row again:
`Reload`). SQLAlchemy leaves a column out of an UPDATE when it is set to the value that
is loaded; `Written` says what the row holds afterwards. Because of it two workers on
one audit can leave a mix of two runs in one row.

What is abstracted in AuditPipeline: findings, pages and documents are one counter of sets persisted
(`results`), the score and the band are one flag (`scored`), the compliance columns are
`method`. A call of the engine or of the cross-browser matrix is inside `Analyze` and
`Complete`: it changes nothing that is shared until the commit that follows. The except
block's `db.get` and its commit are one step. The advisory ML commit after completion adds
nothing the properties tell apart.

**Scoring** holds `compute_score`, `band_for`, `_cap_band`, `compliance_verdict` and the
flag of `assess`. Scores are integers in tenths of a point (the engine gives whole points,
design and field data tenths, and the code rounds to tenths), so the weighted sum is in
thousandths. `round(x, 1)` works on a binary float: for a vector half way between two
tenths the side depends on the float, so the constant `RoundedUp` is the set of those that
go up, and the theorems hold for every such set.

**Explanation** is `explain`: `Contribution` and `Lost` of a category in hundredths, each
rounded by itself from the exact thousandths, with the constant `TiesUp` for the ties that
the binary float takes up. The order of the rows is theirs by loss, so what the sorting
means is a relation between losses.

**AuditVerdict** zooms in on what AuditPipeline abstracts: the columns of one `audits` row
and its `audit_scores` (`row`), the persisted critical accessibility findings
(`criticals`), the calls of `process` (`stage`, `loaded`, `got`) and the requests of
`review_audit` (`rpc`, `seen`). That the queue may deliver the audit again at any time,
also next to a call that still runs, is what AuditPipeline shows; here it is `Begin`.

| action | code |
|---|---|
| `Begin`, `Analyze`, `Reload`, `StartScoring` | `process` up to its commit of "scoring" |
| `RefuseScore` | the evidence gate |
| `Complete` | category scores, findings, integrity, verdict, score, band: one commit |
| `Fail`, `FailScoring` | the except block; while scoring its commit takes along the category scores, some findings and perhaps the verdict |
| `Dies` | killed, or the except block raises too (no database; or two calls inserted the same category scores, `Conflict`) |
| `ReviewOpen`, `ReadScores`, `CountCriticals`, `Decide` | the statements of `review_audit`, each of which sees what is committed then |

`Written` is again the ORM's rule. A score is set as a float and loaded as a decimal, which
compare equal only when the number is exact in binary (`WrittenScore`). The history
variable `overlapped` becomes true when a call of `process` runs next to another one or to
a review. The properties that need it are conditional on it, and for a reason: with an
overlap the code does leave rows that mix two runs.

**EngineRun** is `main` of `audit_engine/runner.js` and what its two callers make of the
result. A page is a record of what the checks find on it. `Home` loads the home page (it
may not answer, or refuse with a status, which still counts as captured); `Resize` is
`responsiveness`, which navigates again; `Discover` and `Pick` are the discovered pool and
`diversify` section by section; `Visit` is `auditPage` for one page, which answers, raises
or fails; `Aggregate` is the averages with their fillers (`|| 60`), the evidence and the
JSON; `EngineDies` is an exception before that. `Read` is the caller. The worker passes the
evidence gate, may replace the design score by that of the screenshot (`VisionScores`), may
blend the performance with field data (`FieldScores`, `Blended`, with a tie of the rounding
going either way), and then computes band and verdict (`BandsGiven`, `VerdictsGiven`, through
`Scoring`); documents and the flag of integrity are free. The public worker has no gate and
scores what the engine gives. Scores of pages are counted in 17ths of a point, so that the share of the 17
GIGW checks is exact.

**BoundedReads** is the promise of `platform/docs/DATA_ACCESS.md`: a read may be stale, by
at most a bound.

**CacheAside** is `services/cache.py`, with what calls it. It follows one key of the six
kinds (`shown`), since keys do not interact; a value is the number of the version it shows.

| action | code |
|---|---|
| `Hit`, `Miss`, `FallBack` | GET, and what follows when it raises or the waiter gives up |
| `TakeLock`, `LockTaken`, `LockRaises` | SET NX EX of the single-flight lock, the polls of the others |
| `Produce`, `ProducerRaises`, `Store`, `StoreRaises`, `Unlock`, `UnlockRaises` | the database read, SETEX, the unconditional DEL of the lock |
| `CommitWrite`, `DeleteEntry`, `DeleteLock`, `DeleteFails` | a commit of the worker, a review, a registration or a verification, and each key its `invalidate` or `invalidate_prefix` then deletes (the prefix also matches the lock) |
| `Tick`, `ReaderDies` | Redis time; the request is killed |

**SettingsStore** is `_cached` and `set_value`: `Hit`, `Miss`, `Load`, `HSet`, `Expire` and
their failures; `Patch` and `SetValue`, `Invalidate`, `InvalidateRaises`, `PatchDies` for
`update_config`, which commits key by key. A hash that got no EXPIRE stays for ever
(`Forever`), and HSET over an existing hash keeps its ttl.

**SignIn** is `request_otp` and `verify_otp` with `authguard`. `Guard`, `Captcha`, `NoCode`,
`ReadCode`, `SpendAttempt` are the checks and the committed wrong entry; `IncrFail`,
`ExpireFail`, `GetTier`, `SetTier`, `SetLock`, `DelFail` are `record_failure` command by
command; `Reset`, `OpenSession`, `DuplicateUser` are the success path; `GuardRaises`,
`ResetRaises`, `BreaksOff` are Redis failing there or elsewhere.

**Sessions** is the life of a session after that: `BeginSignIn`/`SignIn` (the user is read
before the session is inserted), `SendRefresh`, `LookUp` (live, reused or unknown), `Rotate`,
`RotateFails`, `RevokeFamily`, what comes back (`Granted`, `Denied`, `AnsweredByError` of the
handler or of a proxy, at any point of the request; `ReplyLost` without an answer) as `api.ts`
takes it, `RevokeDevice` and `EraseMyData`. Every answer that is not ok leads to the login page
(`SentToLogin`), whatever became of the session. `jar` is the cookie of each browser; which
reply arrives last decides what it holds.

**PublicScan** is `create_scan` and `public_worker.py`. `Begin` takes `created_at`, which is
when the transaction began; `CountFree`, `CountFull`, `SolveCaptcha`, `BurnCaptcha`, `Hit`,
`Window`, `Insert`, `Enqueue` follow the handler with Redis failing in between
(`CountRaises`, `BurnRaises`, `HitRaises`, `RequestBreaks`). `Take`, `Start`, `Finish`,
`Ack`, `WorkerBreaks` are the worker.

**StudioRun** is `set_tenant`, `create_run` (`Check`, `Insert`, `StartTask`), the background
task (`Generate`, `Refine`, `EndLoop`, `CallRaises`, `CostRaises`, `CommitRun`, `TaskDies`)
and `publish` (`ReadToPublish`, `ReadToUnpublish`, `CommitPublish`). `jobs` is each task's row
as it has it in memory; only `CommitRun` makes it visible (`Kept` says which of it: a call
that raises, before or after its tokens were counted, keeps the tokens; `cost_inr` raising
keeps the pages and the score too), and the ORM's rule decides which columns
`CommitPublish` writes.

**Monitoring** is the ownership check and the clock of the schedules.

| action | code |
|---|---|
| `OpenCheck`, `CloseCheck`, `CheckBreaks` | `verify_domain`: load the row, ask the network, write status and method in one commit. `Answers` is what the method may answer: DNS and file yes or no, `sso_mapping` always yes, without a lookup |
| `CreateSchedule`, `DeleteSchedule` | the routes of that name |
| `StartPoll`, `Turn`, `CommitPoll`, `PollBreaks` | `enqueue_due`: select what is due, decide schedule by schedule, commit once or roll everything back (an UPDATE of a schedule that was deleted meanwhile finds no row and raises) |
| `NextDay`, `AuditEnds`, `OtherAudit` | time, and audits that end or come from elsewhere |

`Turn` decides with what the session knows: `known` is the row of the domain whose turn it
was last (the identity map holds objects weakly, so another domain's turn lets it go),
`runs` the audits it has flushed itself. In this module an audit runs or does not; what
happens between is AuditPipeline's, whose feeder is this poll seen from the queue.

**PageQuota** is `scan_requests.py` and the quota check of `submit_audit`, for one officer
and one domain: `SetFreePages`, `CreateRequest`, `OpenRequest` and `DecideRequest` (an
administrator's session loads a row of any status and commits the decision and its log
entry together), `DecisionBreaks` and `Admit`. `trail` is the audit log.

Several variables are history: what the code does not store but a property speaks of
(`tangled`, `crowded`, `hasty`, `slipped`, ...). Each becomes true in exactly the overlap
or failure its comment names, and a property that holds "unless" one of them says so in
those words. That is deliberate: without the exception the property is false of the code,
and with it the property says how far the protection reaches.

Definitions whose comment starts with "Variant:" are not part of the specification. Each
is a plausible mistake in the code at that place; put in the place of the definition after
it, it makes TLC find one property violated, which shows that the property can fail.

## 3. The runs

| run | instance | properties | shows |
|---|---|---|---|
| `queue` | 2 workers, 2 jobs, MAX_DELIVERIES 2, reclaim batch 2, 1 kill | `QueueTypeOK`, `NoLostJob`, `PoisonCutoff`, `DeliversEveryJob` | the acknowledgement contract under theft, failure and kills; the cutoff; refinement of `JobDelivery` with liveness |
| `submission` | 2 requests, scheduler, bulk scan, 1 worker, 2 audits of 1 domain | `TypeOK`, `OneFreshSubmission`, `SubmittedAuditIsAnswered`, `UsesTheQueue` | what the advisory lock does protect, and that submitted jobs are answered |
| `redelivery` | 2 workers on 1 audit, MAX_DELIVERIES 2, 1 kill, fair | `ResultsPerAttempt`, `UnlessRedelivered`, `EnqueuedAuditEnds` | two calls of `process` on one row, with every failure; every enqueued submission ends or is buried |
| `results` | 2 workers, 1 review, 3 deliveries, 7 outcomes of a crawl; 3 sections of 0, 1 or 3 pages, 4 kinds of page, at most 4 pages audited, both callers | `VerdictTypeOK`, `CertificateHolds`, `ReportHolds`, `ExplanationHolds`, `NeverWorseOnBetterEvidence`, `DiverseSample`, `RestsOnEvidence` | what a result may show, and how a report explains it, after completed, refused and half-failed deliveries in any order; how broad the sample is, and what a score is made of |
| `cache` | 2 readers, 1 writer, 3 kinds of key, ttl 0 or 2, lock 1, fill 1, fair | `CacheTypeOK`, `HitsSeeSettledWrites`, `SingleFlight`, `ReadsAreRecent`, `ReadsEnd` | the cache under lost calls, late fills and expired locks; refinement of `BoundedReads` |
| `settings` | 2 readers, 2 writers, 2 values, ttl 2, fair | `SettingsAreRecent`, `ChangesTakeEffect` | the settings hash against raced and lost deletions |
| `auth` | 2 calls, threshold 2, 2 attempts, 2 codes; 2 browsers with 2 tabs, 3 tokens | `SingleUse`, `LockoutFollowsFailures`, `LiveTokens`, `ErasedStaysErased`, `SentToLoginForAReason` | codes and lock-out command by command; rotation, reuse detection, revocation and erasure with answers that are errors, lost or out of order |
| `public_scan` | 2 requests of 1 address, 1 free scan, 2 scans, fair | `ServedInTurn`, `LimitsHold`, `ScansEnd` | limiter, captcha, order and end of the free scan |
| `studio` | 2 requests, 2 publications, quota 1, 2 refinements, 2 runs | `QuotaHolds`, `ShowcaseHolds` | quota, background tasks that fail and die, publication |
| `officers` | 1 domain, 2 schedules, cadences 1 and 2, days 0 to 2, 2 schedulers, 2 verifications; 2 requests for 3 or 4 pages, 2 administrators, 3 decisions | `OwnershipHolds`, `OneScheduledAudit`, `CadenceKept`, `TrailMatchesRow`, `DeepAuditsWereApproved` | monitoring with polls that break and overlap, deletions and late verifications; decisions that collide and are taken back |
| `duplicate_audits` | as `submission` | `OneRunningAudit` (violated) | a statement of the documentation that the code does not keep (section 6) |
| `lockout` | 1 call, threshold 2, no browser | `FurtherFailureLocks` (violated) | another one: a failure after the first lock has run out locks nothing |

`results`, `auth` and `officers` each hold two components that share no variable. Their next-state
relation lets one of the two move and keeps the other where it began, so the instance has
the behaviours of both and none of the product.

Of the type invariants the runs check those of the queue, the pipeline, the verdict and
the cache. The others are left to TLAPS, which proves each of them for every instance
(section 4).

What the properties say:

* `NoLostJob`: whatever left the pending list was returned for or buried. `PoisonCutoff`:
  a job in the queue has been attempted at most MAX_DELIVERIES times. It is the
  deliveries that the code counts, and a claimed job may age in a batch without being
  attempted, so the bound is not met with equality.
* `DeliversEveryJob`: `AuditQueue` under fairness implements `JobDelivery`, liveness
  included.
* `OneFreshSubmission`: of two *submitted* audits of one domain that are running, one had
  ended before and was revived by the queue. The plain statement is false
  (`duplicate_audits`): feeders do not lock, and a failed audit whose job is still pending
  comes back to life.
* `SubmittedAuditIsAnswered`: a submitted audit whose job left the queue was brought to a
  terminal status or its job is buried. For feeders this is false, because of their
  commit order.
* `UnlessRedelivered`: as long as the queue has delivered the job once, each change of
  status is one of `docs/LLD.md` section 4 (and "failed" from every other status), and
  nothing overwrites an expert's verdict.
* `ResultsPerAttempt`: a call of `process` persists its results at most once.
* `EnqueuedAuditEnds`: an enqueued submission ends, or its job is buried.
* `UsesTheQueue`: the pipeline's behaviours are behaviours of the queue.
* `CertificateHolds`: no interleaving makes an audit "compliant" without a review that said
  so (`docs/HLD.md:27`), and the certificate and the evidence beside it agree:
  accessibility at the pass bar, no critical finding, an expert's mark. It relates four
  columns written by two programs at different times.
* `ReportHolds`: score, band and guard-rail of a completed audit are those of the category
  scores shown with them, also when an earlier call committed only its category scores and
  failed. A refused audit has no score, no band and no verdict, those of an earlier delivery
  included; the rest of an earlier result stays in its row, and the property leaves it there
  (section 6).
* `NeverWorseOnBetterEvidence`: a run on evidence that is nowhere worse never lowers the
  persisted score or band (`platform/docs/SCORING_VALIDATION.md`, monotonicity).
* `DiverseSample`: the sample has as many pages as the site and the depth allow, and no
  section gives two pages more than one that had pages left.
* `RestsOnEvidence`: an audit that the worker scores saw the home page, and each averaged
  category lies between the worst and the best page that was measured, with two fillers: the
  60 of a page on which axe raised, which counts like a measurement of accessibility, and
  the 60 for an average of 0. So a score is not always a measurement, and the property says
  how far it is one. A critical failure that axe reported on any page makes the site
  non-compliant, and a site that fails in accessibility on every page is non-compliant and
  in neither of the bands A and B, whatever screenshot, field data and documents add.
* `ExplanationHolds`: the contributions and the losses that `explain` lists for a completed
  audit add up to its score and to what it misses, within the sum of the roundings; in
  every row they add up to the weight, within theirs; and a category listed as the larger
  loss lifts the site at least as much when it is mended.
* `OwnershipHolds`: a domain shows its last check, unless two overlapped; and whatever
  overlapped, it is verified, or audited on a schedule, only after a check of it passed. A
  domain shown as verified by DNS or file without such an overlap had its token found there;
  a check by `sso_mapping` passes without any proof, and the property does not pretend to one
  (section 6). `OneScheduledAudit`: with one scheduler at a time
  a domain has one scheduled audit running, however many schedules it has. `CadenceKept`:
  two runs of a schedule are a cadence apart.
* `TrailMatchesRow`: a request shows status and author of the last decision that the audit
  log has of it ("must therefore be traceable", `audit_log.py`), unless two decisions
  overlapped. `DeepAuditsWereApproved`: a submission beyond the limit of its time rests on a
  logged approval of its depth that no later decision had taken back.
* `HitsSeeSettledWrites`: a cached value misses a write whose invalidation succeeded only
  when its fill had read before and outlived it. `SingleFlight`: one request fills at a
  time, unless the lock failed a fill in one of the ways its comment names.
  `ReadsAreRecent`: whatever is lost or late, an answer was current less than a ttl and a
  fill ago. `ReadsEnd`: a filler that died keeps nobody waiting.
* `SettingsAreRecent`: the hash is no older than its ttl and twice a call, unless an EXPIRE
  was lost. Twice, because one reader's EXPIRE may renew what another stored.
  `ChangesTakeEffect`: in the end the hash is empty or up to date, with the same exception.
* `SingleUse`: one session and at most `otp_max_attempts` wrong entries per code, unless two
  calls held it. `LockoutFollowsFailures`, unless a failure broke off between two commands: a
  count that reached the threshold is on its way to the lock, a count has a ttl or is about
  to get one, and, unless two failures were recorded at the same time, no tier is given for
  less than a threshold of failures each. That a further lock takes a whole threshold again
  is what the code does, not what its documentation says: `FurtherFailureLocks`, in `lockout`.
* `LiveTokens`, `ErasedStaysErased`, `SentToLoginForAReason`: a family refreshed by one
  request at a time has one live token, a revoked one none unless a refresh was about to
  rotate; only a sign-in that had read the user before survives the erasure. For a browser
  that refreshes one at a time and whose new cookies arrive, the alarm of reuse goes off only
  after a revocation, whatever else fails; and it is sent to the login page only after a
  revocation, the erasure, or because a refresh was answered by an error (which signs it out
  although its session may be live, section 6).
* `ServedInTurn`: "0 = running/next" (`public.py:35`) is true of the scan the worker holds.
  `LimitsHold`: the free scans of an address and the one use of a captcha, except when two
  requests were between check and use. `ScansEnd`: every committed scan ends, unless its
  request or its worker broke off.
* `QuotaHolds`: "runs per organisation this month" (`studio.py:95`), with the same kind of
  exception. `ShowcaseHolds`: a scored run adds up (score, bill and number of refinements
  are those of the pages shown), only scored runs are public, and a slug that was given in
  a reply stays its run's.

### Bounds, and why they are enough

`MaxJobs` (entries ever added) and `MaxCrashes` (kills) are the only counters of the
pipeline that are cut off; both only forbid a step of the environment. Two jobs let one
worker hold a claimed job it has not started while the other claims it again.
MAX_DELIVERIES is 2 and not 3, ClaimCount at most 2 and not 10, ReclaimEvery 1 and not 5:
the cutoff is passed through live delivery, re-delivery and burial, a claim may take
everything or be cut by its count, and a worker alternates between reading and reclaiming.
The submission run has no kills, since `FailUnrecorded` and `SubmitDies` already leave
every intermediate state behind, and uses the symmetry of the clients and a VIEW without
the columns its properties do not read (scores, verdicts, results, attempts: they enable
nothing and decide no status). Its two clients, scheduler and bulk scan compete for one
domain, since the lock and every check are per domain.

In `results`, `MaxCalls` and `MaxReviews` forbid further deliveries and reviews. Three
deliveries allow a completed run, a half-failed one over it and a third result; the seven
outcomes sit at the thresholds (accessibility 89.9, on a site whose band the guard-rail
caps from A; accessibility 49.9 with a low score; a full score; a tie of the rounding on
the border of A and B; a critical finding; a flagged site; an unreachable one). The
history before the audit is no score or 50.0, from which 25 points more are an improbable
jump. One outcome mixes scores that meet the ties of the breakdown's roundings, of which
some go up (`MCTiesUp`); the low one is nowhere above it and has the guard-rail, so the
capped band and the uncapped one of better evidence meet in `NeverWorseOnBetterEvidence`.
Of three deliveries that overlap, those are followed that hold a sound result or one with a
critical finding (`MCOverlaps`): only `CompliantOnlyByReview` speaks of them.

For the engine in `results`, MAX_CRAWL is 4 and not 25: three pages beyond the home page meet
sections that are empty, exhausted and not exhausted. The four pages (sound, critical, one
where axe raises, the refusal of a firewall) reach every filler and every arm of the
aggregate. Of what the resized home page may give, those outcomes are followed where every
width loads or the page has no content (`MCResized`); no property speaks of the difference.
A screenshot scores 0 or is missing, and field data is 5, 1000 or missing: the ends, and a
blend that meets a tie.

Time in `cache` and `settings` is counted in ticks that cut off at the horizon; a ttl of 2 and
a fill of 1 let a fill straddle an invalidation, a lock or an entry expire under a running
fill, and both not happen. `MaxFill` is an assumption about the code's environment: a request
does not take for ever between its read and its store. `MaxWrites`, `MaxCodes`, `MaxTokens`,
`MaxDecisions`, `MaxScans`, `MaxRuns`, `MaxSlugs` and `MaxHits` cut off what only grows; each
leaves room for one more than the limit the module protects (a second scan past one free one, a
second run past a quota of one, a code after a consumed one, a rotation of a rotated token, a
decision on one request after another was approved and taken back). Two of every actor is what
each overlap in the code needs. In `officers` the days 0 to 2 hold two runs of the daily
schedule and one full cadence of the longer one; polls or verifications that overlap are
followed on day 0 with one daily schedule (`MCOverlaps`): two schedulers over the same due
schedule, a verdict that lands between two turns. Several methods pass for one domain only
before it has a schedule, and other audits come and go while no verification runs
(`MCMethods`): a schedule looks at the status and not at the method, and a verification not at
audits. A requested depth of 3 or 4 and a limit of 2, 3 or 4 make an approval too small, enough
and unnecessary. In `auth` three tokens are a sign-in, a rotation and a presentation of either,
and what a failure between two Redis commands leaves behind is not followed further
(`MCWhole`): `LockoutFollowsFailures` claims nothing of it. The proofs of section 4 hold for
all values of the constants, and need none of these cuts.

### Fairness

`WorkerStep` (in the pipeline `WorkerLoop`) is weakly fair for each worker: a read blocks
at most `block_ms`, every subprocess has a timeout, every other call is a bounded round
trip, and Compose restarts a dead container. `GoIdle` is weakly fair: time passes. Nothing
is assumed of requests, feeders, reviewers or kills. A worker's choice between success and
failure is never fair: the runs hold when every call fails.

`FairCacheSpec` makes a read in flight go on (`GetOrSet`): polls are counted, and Redis and
database calls return or raise. `FairSettingsSpec` adds that time passes. `FairPublicSpec`
makes the single worker and a request that has begun go on. Whether a call raises is
never a fair choice, and no write, invalidation or new request is assumed to happen.

## 4. The proofs

The eight modules whose names end in `Proofs` are checked by TLAPS to the last leaf, for
every value of the constants. Each rests on the ASSUMEs of its components alone: types of
the constants, and that workers, rules and schedules are finitely many. Every safety
property of every passing run is stated by a theorem there, and so is the type invariant
of every component.

Each component has one inductive invariant, named in its module (or beside its proof when
it needs operators of the proof) and checked with TLC on small instances before it was
proved. What makes it inductive is nearly always the same kind of fact: what an
actor still knows, when it acts, of a state it read earlier.

### Queue and pipeline (`AuditQueueProofs`, `AuditPipelineProofs`)

They rest on `QueueAssumption` and `PipelineAssumption` (types of the constants; finitely
many workers; tasks are numbered like entries; the two feeders are different).

* `QueueInvariant` : `QueueSpec => []QueueInv`. `NoLostJob` alone is not inductive: an
  acknowledgement is safe because of what the worker knew before. `JobInHand` says so (a
  worker about to acknowledge holds an entry for which `process` returned; a worker about
  to bury holds one whose copy is in the dead-letter stream) and `OnlyDelivered` keeps
  everything that is held below the cursor.
* `QueueTypeCorrect`, `QueueLosesNoJob` follow. `QueueImplementsDelivery` is step
  simulation: a return or a burial is `Witness`, an acknowledgement is `Settle` or, when
  another worker was first, a stutter.
* `CutoffInvariant` : `[]CutoffInv`, and `PoisonIsCutOff` from it. Several workers may have an
  entry claimed or in their batch at once. Each such copy and each call of `process` was
  paid for by a delivery of its own (`PaidFor`), and as long as the entry is pending the
  calls and the copies past the check are at most MAX_DELIVERIES (`WithinCutoff`). They
  are counts over sets of workers, which is why the workers must be finite.
* `PipelineInvariant` : `Spec => []PipelineInv`. Its parts: ids are given out in order
  (`RowsNumbered`); whatever is terminal has ended (`TerminalHasEnded`); a request in
  flight works on a row of its own (`RequestsHoldRows`); the lock's holder is alone on its
  domain and there is no fresh submission of it (`LockExcludes`); submitted jobs have rows
  (`SubmittedJobsHaveRows`); a call of `process` holds a row from its load on, has nothing
  loaded where a commit just expired the session, and holds an ended audit when it loaded
  a terminal status or is about to return (`CallHoldsRow`); `ReturnedHasEnded`. The proof
  splits the actions in those that create rows and those that move the status of at most
  one audit that has a row (`MovesOneAudit`).
* `PipelineTypeCorrect`, `LockExcludesSubmissions`, `SubmissionsAreAnswered` follow.
  `PipelineUsesTheQueue` shows that each pipeline step is a queue step or leaves the queue
  alone, so the theorems about the queue hold of the pipeline.
* `AttemptInvariant` : `[]AttemptInv`, and from it `ResultsArePerAttempt` and the action
  property `OnlyRedeliveryTurnsBack`. A task has one entry (`OneJobEach`: a submission
  about to enqueue is the only one of its task, and what a feeder has flushed is not
  committed); the calls in flight, and the results persisted plus those still to come,
  are within the attempts (`CallsWithinAttempts`); a task nobody has touched is as it was
  inserted; until a job is delivered again, the row's status is the one its only call has
  written, and the session of that call knows it (`OnlyCallWrites`).

### Engine, scoring, verdict and explanation (`ResultProofs`)

They rest on `EngineAssumption` (finitely many rules; sections and depth are positive; a
page is a record of what the checks find), `RoundedUpAssumption` and `TiesUpAssumption`
(sets of roundings) and `VerdictAssumption` (outcomes have the type of an outcome; the
bounds are numbers).

* `EngineInvariant` : `EngineSpec => []EngineInv`. `SampleInv`: the sample grows in rounds,
  so a section that has pages left has given as many as any other, but for the page of a
  section that had its turn in this round before it; and it stays within depth and site.
  `ResultInv`: the result is made of the pages audited, at most as many as the sample, and
  the worker's band and verdict are among those it can give that result. `SampleIsDiverse` and
  `ScoresRestOnEvidence` follow.
  The averages are sums over a set of pages, and what a fold computes needs an induction
  that the prover cannot take from the library, whose induction theorems have an operator
  for a parameter. It is made here without one: of the sets that would violate a claim
  there is a smallest (`SmallestSet`), and the sum over it is that over a smaller one and
  one more term. That gives an average between the worst and the best page
  (`AverageBounds`), or one of its fillers (`ScoresAveraged`).
* `BreakdownAddsUp`, `LossesRankRepairs`: a row's rounding is off by at most half a
  hundredth and the score's by half a tenth, whichever way the ties fall, so eight rows
  and the score are within 0.09 of one another; and of two rounded losses the larger is
  not the smaller before rounding. `ExplanationsHold` carries both to the rows of
  completed audits, by `VerdictInvariant`.
* `OverallIsAScore`, `OverallMonotone`, `BandMonotone`: the weights sum to 100, so a score
  stays in range; two different vectors, one nowhere below the other, differ in their sum
  by at least the smallest weight, and a tie can only move a score by the half it is away
  from both sides; raising categories can only lift the guard-rail.
* `VerdictInvariant` : `VerdictSpec => []VerdictInv`. The properties are not inductive:
  a commit is right because the session holds the row as it is. `EvidenceIsWhole` (category
  scores are all there or all missing, and stay), `CallHoldsOutcome`, and, while nothing
  overlaps, `OneAtATime`, `CallHoldsRow` (a call about to write has loaded the row as it
  is) and `ReviewHoldsEvidence` (a review has read the evidence as it is) say so.
  `ScoresWrittenIs`, `VerdictWrittenIs`, `ResultWrittenIs`, `StatusWrittenIs` say what the
  ORM's UPDATE leaves; `CallSound` and `ReviewSound` have one step per action.
* `VerdictTypeCorrect`, `AutomatedNeverCompliant`, `CertificatesHaveEvidence`,
  `ReportsReconcile`, `RefusedIsUnscored` follow; `CertificatesHold` and `ReportsHold` state
  them the way the run checks them. `BetterIsNeverRatedLower` combines the invariant before
  and after a step with the two monotonicity theorems.

### Cache (`CacheAsideProofs`)

* `CacheInvariant`: an answer is recent because of when its request
  read (`FillsAreRecent`) and because an entry has the less time left the older it is
  (`EntryIsRecent`); a hit sees the settled writes because every fill in flight does, or was
  passed by (`FillsSeeSettled`); one request fills because the lock outlasts whoever fills
  (`LockCovers`). `OneFillAtATime` and `HitsAreSettled` follow. `ReadsKeepThePromise` is the
  refinement of `BoundedReads`: a commit is `Commit`, a tick `TimePasses`, every reply is
  `Return` of a version late by less than the horizon, and all other steps stutter.

### Settings, monitoring and page quota (`AdminProofs`)

* `SettingsInvariant`: a hash is recent because of who stored it, so
  the invariant bounds what every call in flight carries (`Loads`), what the EXPIRE of a
  call may still renew (`Renewals`), and says that a hash without a ttl has a call about to
  give it one, or one was lost (`SomeoneExpires`); `HashIsRecent` is then inductive.
  `SettingsStayRecent` follows.
* `MonitoringInvariant` : `[]MonitoringInv`. A verification that is alone on its domain holds
  the row as it is (`ChecksHoldRows`); what a session knows as verified, and whatever it
  runs, has passed a check (`SessionsHoldRows`): with these two `OwnershipHolds` is inductive,
  however many polls and checks overlap. While one scheduler polls at a time (`OnePoller`) its
  session is the only one, holds schedules that were due when it began, at most one run per
  domain and none where one had not ended (`OnlySession`), and the clock of a schedule is at
  least a cadence ahead of its last run (`ClocksAhead`). `OwnershipIsChecked`,
  `ScheduledAuditsAreAlone` and, as an action property, `RunsKeepTheirCadence` follow.
* `QuotaInvariant` : `[]QuotaInv`. An administrator who has a request alone has it as it is
  (`DesksHoldRows`); an approved row has its approval on the trail, and that is the last
  entry about it unless decisions overlapped (`RowsAreOnTrail`); every entry is of a row
  with that number of pages (`TrailIsOfRows`), and a submission was admitted when the trail
  was no longer than now (`AdmittedEarlier`). `DecisionsAreTraceable` and
  `DeepAuditsRestOnApproval` follow. The trail only grows, so what is said of its first
  entries stays true.

### Sign-in and sessions (`AuthProofs`)

* `SignInInvariant`: types, `CodeInv` and `LockoutInv`. A code that two calls never held counts
  its wrong entries in its row, has opened a session exactly if it is consumed, and its
  holder has read the row as it is (`HeldAlone`): `CodesAreSingleUse`. Whoever counted up to
  the threshold is on its way to the lock (`ThresholdIsSeen`); a count without a ttl has a
  call about to give it one (`TtlIsComing`); and while one failure is recorded at a time,
  the failures counted pay for every tier, also for the one about to be set
  (`TiersArePaid`): `LockoutFollows`.
* `SessionsInvariant`: every token belongs to the device that carries it (`TokensAreOwn`), a
  session comes from a sign-in that read the user (`SignInIsFirst`), what erasure and
  revocation leave behind (`ErasureHolds`, `RevocationHolds`), that an untangled browser has
  one refresh in flight and holds the live token (`InTurn`, `OneAtATime`), and that nothing
  it sent can be refused (`Unharmed`, `NobodyHarmed`). `TokensStayLive`, `ErasureIsFinal`
  and `NobodyLoggedOut` follow.

### Public scan (`PublicScanProofs`)

* `PublicInvariant`: what has been let through is in the counter (`FreeIsCounted`) and what
  a challenge let through has burnt it (`CaptchaIsBurnt`); a scan is in one hand only: a
  request's, the stream's or the worker's (`ScansApart`, `ScansHeld`); an untangled request
  holds the newest scan (`NewestUntangled`), so the stream is in the order of `created_at`
  (`StreamInOrder`). `LimitsAreKept` and `ScansServedInTurn` follow.

### Studio (`StudioRunProofs`)

* `StudioInvariant`: a request past the check is alone and found a place (`PlaceIsKept`);
  what a task has in memory adds up at every call, and only a run that is generating has a
  task or a request that will start one (`TasksHeld`); a publication in flight has a scored
  run, and a slug it drew belongs to a run without one unless it has a rival
  (`PublishHeld`); `RowsHold` and `SlugsHeld` are about the rows. `QuotaIsKept` and
  `ShowcaseIsSound` follow.

### What is only model-checked

Liveness under fairness is out of TLAPS's reach: `DeliversEveryJob` in its liveness part (its
safety part is `QueueImplementsDelivery`), `EnqueuedAuditEnds`, `ReadsEnd`,
`ChangesTakeEffect` and `ScansEnd` stay with TLC. So do the counterexamples of
`duplicate_audits` and `lockout`.

## 5. What is not modelled

* In components that are modelled: the backpressure check of the audits API (XLEN against a
  threshold), the Redis status hash, the penalty of the integrity block, the domains that
  the demo's `seed.py` inserts as verified, the temporary PDF copies of the
  public scan, and of the engine the checks whose result is data (readability, the 17 GIGW
  rules, Lighthouse) and its side outputs (overlays, broken links, documents, screenshots).
* Parts listed in PROJECT.json as `not_modelled`, with the reason for each: they change one
  row at a time on the request of one actor, keep no state, or are formatting and I/O.
* Redis and PostgreSQL are taken at their documented semantics and do not lose what they
  acknowledged. Keys of the cache, addresses of the limiter, accounts, users and
  organisations do not interact, so each module follows one.

## 6. Where the code and its documentation disagree

Two of these are runs of their own; the others came up while modelling and are why the
properties of section 3 are stated with the exceptions they have.

* `docs/OPERATIONS.md:57` "A per-domain advisory lock prevents duplicate concurrent
  audits": feeders do not take it (`duplicate_audits`).
* `platform/docs/DATA_ACCESS.md:18` the audits row "must be committed before enqueue":
  `enqueue_due` and `bulk_scan` commit after. A fast worker finds no row and acknowledges;
  the audit is then queued for ever.
* `docs/LLD.md:140,145` `completed` is terminal: a redelivery sets it back to crawling, a
  failed status publish to failed.
* `docs/LLD.md:193` a redelivery re-derives the same result: it adds a second set of
  findings, pages and documents.
* `app/services/scoring.py:131` and `platform/backend/tests/test_integrity.py:41`: a flagged site
  "can never be certified 'compliant'"; `review_audit` (`audits.py:276`) does not pass the
  flag on.
* `docs/LLD.md:167-169`, "a high average can't mask a critical accessibility/trust failure":
  a measured trust of 0 becomes 60 (`runner.js:474`), above the guard-rail.
* `public_worker.py:27` stores a score for a site that did not answer; the gate that
  `runner.js:493-495` speaks of is only in the authenticated worker. A refusal page of a
  firewall (403) is captured and scored by both (`runner.js:425`).
* `docs/USER_MANUAL.md:125`: the worker passes no depth, so an audit crawls up to 25 pages
  whatever was asked for.
* `runner.js:493-495`, "the category fillers above are meaningless and MUST NOT become a GovUX
  band": they do when axe raises on every page of a site that answers. Each such page gives
  60 for accessibility (`runner.js:58-60`), it counts as analysed, and the gate of
  `worker.py:158` lets it pass.
* A refused audit (`worker.py:158-175`) loses score, band and verdict of an earlier delivery
  and keeps its category scores, findings, guard-rail, integrity and confidence.
* `app/routers/domains.py:96-97` "Real ownership proof — no auto-pass": the method
  `sso_mapping` passes at once (`verification.py:60-61`, "handled upstream"), for any officer
  of the organisation. And the row of two overlapping checks can show a method that
  did not pass: of two that loaded the same row, each writes the columns it changed.
* `app/services/authguard.py:4-5` "Fail again after that → lock ... (20 min)" and
  `docs/USER_MANUAL.md:98`: the count goes with the lock (`authguard.py:51`), so the next
  lock takes a whole threshold of failures again (`lockout`).
* `docs/LLD.md:37,121` calls the lock-out fail-closed: without Redis, `status` says that
  nobody is locked, and `record_failure` records nothing (`authguard.py:35-36,53-55`).
* `runner.js:440`: usability is measured on whatever page the last navigation of
  `responsiveness` left, and a width that fails to load counts as one that overflows.
* `docs/USER_MANUAL.md:100`: "refreshes automatically": of two tabs that refresh together, the
  second looks like the reuse of a stolen token, and the whole family is revoked. And a
  refresh that the server answers with an error, be it a database that was away for a
  moment, sends the browser to the login page although its session is live (`api.ts:20-30`).
* `platform/docs/DATA_ACCESS.md:27` says that a single report is not cached; `audits.py:142`
  caches it, and `process` does not delete its key.
* `app/services/scoring.py:90`, "The contributions sum to `compute_score(...).overall`", to
  less than 0.05 by `tests/test_scoring_validation.py:54`: rows and score are rounded one by
  one, and for accessibility, trust 90.0, design 90.1 and 89.9 elsewhere they differ by 0.06.
  0.09 is the most (`BreakdownAddsUp`).
* `audits.py:70-72` tells an officer whose depth is above the limit to ask for it; the limit is
  the runtime setting there and the default in `create_request` (`scan_requests.py:40`). With the
  setting below the default, a depth between the two is refused by both.
* `enqueue_due` moves the clock of a schedule that may not run by a full cadence ("skip this
  tick"): the rarer of two schedules of a domain can be skipped each time it is due.
* A failed Studio run keeps its tokens, but not their cost; one that failed in `cost_inr`
  (`services/studio.py:128`) shows pages and a score beside "failed".
* `scan_status` says `pdf_ready` for a completed scan although the PDF of an anonymous one
  is gone after an hour.

## 7. What is left

The modules of the plan are written, and the safety of each is proved. In order of what it
would add:

1. Liveness of the monitoring: a schedule whose domain stays verified and idle runs again
   and again under a scheduler that keeps polling.
2. Backpressure against a stream that an acknowledgement never shortens.
3. The poll of Monitoring as a refinement of AuditPipeline's feeder, so that what is proved of
   scheduled audits and what is proved of the queue meet in one theorem.
4. The integrity penalty, as an operator of Scoring.
