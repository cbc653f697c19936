------------------------------ MODULE Monitoring ------------------------------
(***************************************************************************)
(* Continuous monitoring: the register of domains with its ownership       *)
(* checks (routers/domains.py, services/verification.py), the schedules    *)
(* that officers create and delete (routers/monitoring.py) and the clock   *)
(* that enqueue_due of services/scheduler.py keeps for them.               *)
(*                                                                         *)
(* A poll of the scheduler is one session over many schedules: it selects  *)
(* what is due, decides schedule by schedule, flushes and enqueues audits  *)
(* as it goes and commits once.  Meanwhile owners verify domains, officers *)
(* delete schedules, audits end and others are submitted.  The queue is    *)
(* AuditQueue's; here an audit is one that runs or does not.               *)
(***************************************************************************)
EXTENDS Integers, FiniteSets

CONSTANTS
    Sites,          \* the domains of the register
    Monitors,       \* the ids of schedules; an id is never given out again
    Pollers,        \* scheduler processes: one, and the next one in a rollout
    Checks,         \* requests running verify_domain
    Cadences,       \* the lengths of CADENCE, in ticks
    LastDay         \* bound: ticks of the clock

ASSUME MonitoringAssumption ==
    /\ IsFiniteSet(Monitors)
    /\ Cadences \subseteq Nat \ {0}
    /\ LastDay \in Nat

VARIABLES
    day,            \* the clock
    register,       \* each domain's row: verify_status, verify_method
    schedule,       \* each schedule's row, and whether it is still there
    poll,           \* each poller: the session of its poll
    check,          \* each verify_domain: the row it has loaded
    fresh,          \* scheduled audits of a domain that have not ended yet
    others,         \* domains with any other audit running
    lastCheck,      \* history: what the last check of a domain found
    passed,         \* history: the methods a check of each domain has passed by
    audited,        \* history: domains with a scheduled audit committed
    crossed,        \* history: domains with two checks at a time
    doubled         \* history: two polls ran at a time

monitoringVars == <<day, register, schedule, poll, check, fresh, others,
                    lastCheck, passed, audited, crossed, doubled>>

VerifyMethods  == {"dns_txt", "file_upload", "sso_mapping"}
VerifyStatus   == {"pending", "verified", "failed"}
DomainRow      == [status : VerifyStatus, how : VerifyMethods \cup {"none"}]
NewDomain      == [status |-> "pending", how |-> "none"]

Never          == -1
ScheduleRow    == [site : Sites, cadence : Cadences, next : Nat,
                   last : Nat \cup {Never}, live : BOOLEAN]
NoRow          == [live |-> FALSE]

Session        == [at : Nat, due : SUBSET Monitors, skipped : SUBSET Monitors,
                   runs : SUBSET Monitors,
                   known : [Sites -> VerifyStatus \cup {"unread"}]]
Asleep         == [at |-> Never]
Verification   == [site : Sites, row : DomainRow, how : VerifyMethods]
Idle           == [how |-> "none"]

MonitoringTypeOK ==
    /\ day \in 0..LastDay
    /\ register \in [Sites -> DomainRow]
    /\ schedule \in [Monitors -> ScheduleRow \cup {NoRow}]
    /\ poll \in [Pollers -> Session \cup {Asleep}]
    /\ check \in [Checks -> Verification \cup {Idle}]
    /\ fresh \in [Sites -> Nat]
    /\ others \subseteq Sites
    /\ lastCheck \in [Sites -> DomainRow]
    /\ passed \in [Sites -> SUBSET VerifyMethods]
    /\ audited \subseteq Sites /\ crossed \subseteq Sites
    /\ doubled \in BOOLEAN

MonitoringInit ==
    /\ day = 0
    /\ register = [d \in Sites |-> NewDomain]
    /\ schedule = [s \in Monitors |-> NoRow]
    /\ poll = [p \in Pollers |-> Asleep]
    /\ check = [v \in Checks |-> Idle]
    /\ fresh = [d \in Sites |-> 0]
    /\ others = {}
    /\ lastCheck = [d \in Sites |-> NewDomain]
    /\ passed = [d \in Sites |-> {}]
    /\ audited = {} /\ crossed = {}
    /\ doubled = FALSE

-------------------------------------------------------------------------------
(* verify_domain: the row is loaded, the network is asked, one commit.       *)

OpenCheck(v, d, m) ==
    /\ check[v] = Idle
    /\ check' = [check EXCEPT ![v] = [site |-> d, row |-> register[d], how |-> m]]
    /\ crossed' = IF \E w \in Checks : check[w] # Idle /\ check[w].site = d
                  THEN crossed \cup {d} ELSE crossed
    /\ UNCHANGED <<day, register, schedule, poll, fresh, others, lastCheck,
                   passed, audited, doubled>>

\* What verification.verify answers: a lookup that raises is a token not found;
\* the mapping of the single sign-on passes without any lookup.
Answers(m) == IF m = "sso_mapping" THEN {TRUE} ELSE BOOLEAN

\* A column is written when it differs from what the session loaded.
WrittenTo(loadedValue, value, current) ==
    IF value = loadedValue THEN current ELSE value

\* Variant: the method is stored for a success only.
StoreHowIfFound(d, l, m, verified) ==
    register' = [register EXCEPT
        ![d].status = WrittenTo(l.status, IF verified THEN "verified" ELSE "failed", @),
        ![d].how    = IF verified THEN WrittenTo(l.how, m, @) ELSE @]

StoreVerdict(d, l, m, verified) ==
    register' = [register EXCEPT
        ![d].status = WrittenTo(l.status, IF verified THEN "verified" ELSE "failed", @),
        ![d].how    = WrittenTo(l.how, m, @)]

CloseCheck(v) ==
    /\ check[v] # Idle
    /\ LET d == check[v].site  m == check[v].how IN
       \E verified \in Answers(m) :
          /\ StoreVerdict(d, check[v].row, m, verified)
          /\ lastCheck' = [lastCheck EXCEPT
                ![d] = [status |-> IF verified THEN "verified" ELSE "failed", how |-> m]]
          /\ passed' = IF verified THEN [passed EXCEPT ![d] = @ \cup {m}] ELSE passed
    /\ check' = [check EXCEPT ![v] = Idle]
    /\ UNCHANGED <<day, schedule, poll, fresh, others, audited, crossed, doubled>>

\* The request is cut off, or the commit raises.
CheckBreaks(v) ==
    /\ check[v] # Idle
    /\ check' = [check EXCEPT ![v] = Idle]
    /\ UNCHANGED <<day, register, schedule, poll, fresh, others, lastCheck,
                   passed, audited, crossed, doubled>>

-------------------------------------------------------------------------------
(* create_schedule, delete_schedule.                                         *)

CreateSchedule(s, d, c) ==
    /\ schedule[s] = NoRow
    /\ schedule' = [schedule EXCEPT ![s] =
          [site |-> d, cadence |-> c, next |-> day, last |-> Never, live |-> TRUE]]
    /\ UNCHANGED <<day, register, poll, check, fresh, others, lastCheck, passed,
                   audited, crossed, doubled>>

DeleteSchedule(s) ==
    /\ schedule[s].live
    /\ schedule' = [schedule EXCEPT ![s].live = FALSE]
    /\ UNCHANGED <<day, register, poll, check, fresh, others, lastCheck, passed,
                   audited, crossed, doubled>>

-------------------------------------------------------------------------------
(* enqueue_due.                                                              *)

\* Variant: a schedule is due when it has not run for a tick.
DueEveryTick == {s \in Monitors : schedule[s].live /\ schedule[s].last < day}

Due == {s \in Monitors : schedule[s].live /\ schedule[s].next <= day}

StartPoll(p) ==
    /\ poll[p] = Asleep
    /\ poll' = [poll EXCEPT ![p] =
          [at |-> day, due |-> Due, skipped |-> {}, runs |-> {},
           known |-> [d \in Sites |-> "unread"]]]
    /\ doubled' = (doubled \/ \E q \in Pollers : poll[q] # Asleep)
    /\ UNCHANGED <<day, register, schedule, check, fresh, others, lastCheck,
                   passed, audited, crossed>>

\* db.get gives the object it has, which the session keeps as long as the loop
\* refers to it: until another domain has its turn.
StatusOf(p, d) ==
    IF poll[p].known[d] = "unread" THEN register[d].status ELSE poll[p].known[d]

\* Variant: the session does not see the audits it has flushed.
HasActiveRunCommitted(p, d) == fresh[d] > 0 \/ d \in others

\* _has_active_run: what is committed, and what this session has flushed.
HasActiveRun(p, d) ==
    \/ fresh[d] > 0 \/ d \in others
    \/ \E s \in poll[p].runs : schedule[s].site = d

MayRun(p, d) == StatusOf(p, d) = "verified" /\ ~HasActiveRun(p, d)

\* One turn of the loop: the clock of a schedule that may not run is moved all
\* the same; a run flushes its audit and sends the job.
Turn(p, s) ==
    /\ poll[p] # Asleep
    /\ s \in poll[p].due
    /\ LET d == schedule[s].site IN
       poll' = [poll EXCEPT ![p] =
          [at      |-> @.at,
           due     |-> @.due \ {s},
           known   |-> [e \in Sites |-> IF e = d THEN StatusOf(p, d) ELSE "unread"],
           runs    |-> IF MayRun(p, d) THEN @.runs \cup {s} ELSE @.runs,
           skipped |-> IF MayRun(p, d) THEN @.skipped ELSE @.skipped \cup {s}]]
    /\ UNCHANGED <<day, register, schedule, check, fresh, others, lastCheck,
                   passed, audited, crossed, doubled>>

\* next_run.
NextRun(cadence, from) == from + cadence

\* What the session writes of the schedules it has handled.
Advanced(s, p) ==
    LET row == schedule[s] IN
    IF s \in poll[p].runs
    THEN [row EXCEPT !.last = poll[p].at, !.next = NextRun(row.cadence, poll[p].at)]
    ELSE IF s \in poll[p].skipped
    THEN [row EXCEPT !.next = NextRun(row.cadence, poll[p].at)]
    ELSE row

Handled(p) == poll[p].runs \cup poll[p].skipped
RunsOf(p, d) == {s \in poll[p].runs : schedule[s].site = d}

CommitPoll(p) ==
    /\ poll[p] # Asleep
    /\ poll[p].due = {}
    /\ \A s \in Handled(p) : schedule[s].live
    /\ schedule' = [s \in Monitors |-> Advanced(s, p)]
    /\ fresh' = [d \in Sites |->
          IF RunsOf(p, d) = {} THEN fresh[d] ELSE fresh[d] + Cardinality(RunsOf(p, d))]
    /\ audited' = audited \cup {d \in Sites : RunsOf(p, d) # {}}
    /\ poll' = [poll EXCEPT ![p] = Asleep]
    /\ UNCHANGED <<day, register, check, others, lastCheck, passed, crossed, doubled>>

\* The poll raises and rolls everything back: Redis or PostgreSQL fails, the
\* process is killed, or the UPDATE of a schedule deleted in between finds no row.
PollBreaks(p) ==
    /\ poll[p] # Asleep
    /\ poll' = [poll EXCEPT ![p] = Asleep]
    /\ UNCHANGED <<day, register, schedule, check, fresh, others, lastCheck,
                   passed, audited, crossed, doubled>>

-------------------------------------------------------------------------------
(* What goes on around: time, and audits that end or come from elsewhere     *)
(* (submissions, and ended ones that a redelivery has revived).              *)

NextDay ==
    /\ day < LastDay
    /\ day' = day + 1
    /\ UNCHANGED <<register, schedule, poll, check, fresh, others, lastCheck,
                   passed, audited, crossed, doubled>>

AuditEnds(d) ==
    /\ fresh[d] > 0
    /\ fresh' = [fresh EXCEPT ![d] = @ - 1]
    /\ UNCHANGED <<day, register, schedule, poll, check, others, lastCheck, passed,
                   audited, crossed, doubled>>

OtherAudit(d) ==
    /\ others' = IF d \in others THEN others \ {d} ELSE others \cup {d}
    /\ UNCHANGED <<day, register, schedule, poll, check, fresh, lastCheck, passed,
                   audited, crossed, doubled>>

-------------------------------------------------------------------------------
MonitoringNext ==
    \/ \E v \in Checks :
          \/ \E d \in Sites, m \in VerifyMethods : OpenCheck(v, d, m)
          \/ CloseCheck(v)  \/ CheckBreaks(v)
    \/ \E s \in Monitors :
          \/ \E d \in Sites, c \in Cadences : CreateSchedule(s, d, c)
          \/ DeleteSchedule(s)
    \/ \E p \in Pollers :
          \/ StartPoll(p)  \/ CommitPoll(p)  \/ PollBreaks(p)
          \/ \E s \in Monitors : Turn(p, s)
    \/ NextDay
    \/ \E d \in Sites : AuditEnds(d) \/ OtherAudit(d)

MonitoringSpec == MonitoringInit /\ [][MonitoringNext]_monitoringVars

-------------------------------------------------------------------------------
(***************************************************************************)
(* Properties                                                              *)
(***************************************************************************)

\* The domains some check has passed: its token was found in DNS or in the file,
\* or an officer asked for the mapping of the single sign-on, which proves nothing.
Passed == {d \in Sites : passed[d] # {}}

\* verify_domain: unless two checks of a domain overlapped, its row shows what the
\* last one answered and by which method, so that one verified by DNS or by the
\* file had its token found there.  Whatever overlapped, no domain is verified, and
\* no schedule had one audited, before a check of it had passed.  A check by
\* sso_mapping passes without a token, whatever domains.py:96 says of it.
OwnershipHolds ==
    /\ \A d \in Sites \ crossed :
          /\ register[d] = lastCheck[d]
          /\ register[d].status = "verified" => register[d].how \in passed[d]
    /\ \A d \in Sites : register[d].status = "verified" => d \in Passed
    /\ audited \subseteq Passed

\* The guard of enqueue_due: however many schedules a domain has, two scheduled
\* audits of it never run unless one had ended before, as long as one scheduler
\* polls at a time.
OneScheduledAudit == ~doubled => \A d \in Sites : fresh[d] <= 1

\* Two audits that one schedule gave rise to are a cadence apart, whatever polls
\* failed in between and whenever they began.
CadenceKept ==
    [][~doubled' =>
        \A s \in Monitors :
            LET row == schedule[s]  new == schedule'[s] IN
            /\ row # NoRow /\ new.last # row.last /\ row.last # Never
            => new.last - row.last >= row.cadence]_monitoringVars

\* What makes them inductive.  A check that is alone has the row as it is; what
\* a session knows as verified, and what it runs, has passed a check.
ChecksHoldRows ==
    \A v \in Checks :
        check[v] # Idle /\ check[v].site \notin crossed =>
            /\ check[v].row = register[check[v].site]
            /\ \A w \in Checks : check[w] # Idle /\ check[w].site = check[v].site => w = v

InSession(p) == poll[p].due \cup Handled(p)

SessionsHoldRows ==
    \A p \in Pollers : poll[p] # Asleep =>
        /\ poll[p].at <= day
        /\ \A s \in InSession(p) : schedule[s] # NoRow
        /\ \A s \in poll[p].runs : schedule[s].site \in Passed
        /\ \A d \in Sites : poll[p].known[d] = "verified" => d \in Passed

\* The only session has what was due when it began, at most one run for a
\* domain, and none where a scheduled audit had not ended.
OnlySession ==
    \A p \in Pollers : poll[p] # Asleep =>
        /\ \A q \in Pollers : poll[q] # Asleep => q = p
        /\ \A s \in InSession(p) : schedule[s].next <= poll[p].at
        /\ \A s, t \in poll[p].runs : schedule[s].site = schedule[t].site => s = t
        /\ \A s \in poll[p].runs : fresh[schedule[s].site] = 0

ClocksAhead ==
    \A s \in Monitors :
        schedule[s] # NoRow /\ schedule[s].last # Never =>
            schedule[s].next >= schedule[s].last + schedule[s].cadence

OnePoller == ~doubled => OnlySession /\ ClocksAhead /\ \A d \in Sites : fresh[d] <= 1

MonitoringInv ==
    /\ MonitoringTypeOK /\ OwnershipHolds /\ ChecksHoldRows /\ SessionsHoldRows
    /\ OnePoller
===============================================================================
