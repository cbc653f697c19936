------------------------------ MODULE PageQuota ------------------------------
(***************************************************************************)
(* The page quota of routers/scan_requests.py and of submit_audit: an      *)
(* officer may audit so many pages freely, and more once an administrator  *)
(* has approved a request.  Requests of other officers or for other        *)
(* domains do not count, so the module follows one officer and one domain. *)
(*                                                                         *)
(* Administrators decide a request as often as they like, each in a        *)
(* session that loads the row and commits later; a submission reads the    *)
(* limit and the approvals, waits for the domain's lock and commits.       *)
(***************************************************************************)
EXTENDS Integers, Sequences

CONSTANTS
    Asks,           \* ids of scan requests
    Admins,         \* administrators, one decision at a time each
    Submissions,    \* requests running submit_audit
    Depths,         \* numbers of pages that are asked for
    FreeDefault,    \* settings.free_registered_pages
    MaxDecisions    \* bound: entries of the audit log

ASSUME QuotaAssumption ==
    /\ Depths \subseteq Nat \ {0}
    /\ FreeDefault \in Nat
    /\ MaxDecisions \in Nat
    /\ "nobody" \notin Admins

VARIABLES
    freePages,      \* the setting free_registered_pages
    ask,            \* the rows of scan_requests
    trail,          \* audit_log: the decisions
    desk,           \* each administrator: the row the session has loaded
    submission,     \* each submission: its depth and what it has read
    collided        \* history: requests with two decisions at a time

quotaVars == <<freePages, ask, trail, desk, submission, collided>>

Decisions  == {"approved", "rejected"}
AskRow     == [pages : Depths, status : Decisions \cup {"pending"},
               by : Admins \cup {"nobody"}]
NoAsk      == [pages |-> 0]
Decided    == [ask : Asks, status : Decisions, by : Admins, pages : Depths]
Loaded     == [ask : Asks, row : AskRow]
Away       == [ask |-> "none"]

\* What a submission has read: its limit, and how long the trail was then.
Admitted   == [depth : Depths, limit : Nat, upTo : Nat]
NotYet     == [depth |-> 0]

QuotaTypeOK ==
    /\ freePages \in Nat
    /\ ask \in [Asks -> AskRow \cup {NoAsk}]
    /\ trail \in Seq(Decided)
    /\ desk \in [Admins -> Loaded \cup {Away}]
    /\ submission \in [Submissions -> Admitted \cup {NotYet}]
    /\ collided \subseteq Asks

QuotaInit ==
    /\ freePages = FreeDefault
    /\ ask = [r \in Asks |-> NoAsk]
    /\ trail = <<>>
    /\ desk = [a \in Admins |-> Away]
    /\ submission = [u \in Submissions |-> NotYet]
    /\ collided = {}

-------------------------------------------------------------------------------
\* update_config: the setting that a submission reads.  (How stale its copy in
\* Redis may be is SettingsStore's matter.)
SetFreePages(n) ==
    /\ freePages' = n
    /\ UNCHANGED <<ask, trail, desk, submission, collided>>

\* create_request: compares with the default, not with the setting.
CreateRequest(r, n) ==
    /\ ask[r] = NoAsk
    /\ n > FreeDefault
    /\ ask' = [ask EXCEPT ![r] = [pages |-> n, status |-> "pending", by |-> "nobody"]]
    /\ UNCHANGED <<freePages, trail, desk, submission, collided>>

\* decide_request loads the row: of any status.
OpenRequest(a, r) ==
    /\ desk[a] = Away
    /\ ask[r] # NoAsk
    /\ desk' = [desk EXCEPT ![a] = [ask |-> r, row |-> ask[r]]]
    /\ collided' = IF \E b \in Admins : desk[b] # Away /\ desk[b].ask = r
                   THEN collided \cup {r} ELSE collided
    /\ UNCHANGED <<freePages, ask, trail, submission>>

\* The ORM writes a column when it differs from what was loaded.
Rewritten(loadedValue, value, current) ==
    IF value = loadedValue THEN current ELSE value

\* Variant: the first decision keeps its author.
AuthoredOnce(l, row, verdict, a) ==
    [row EXCEPT !.status = Rewritten(l.status, verdict, @),
                !.by     = IF l.by = "nobody" THEN a ELSE @]

Authored(l, row, verdict, a) ==
    [row EXCEPT !.status = Rewritten(l.status, verdict, @),
                !.by     = Rewritten(l.by, a, @)]

\* decide_request: the row and its entry in the audit log in one commit.
DecideRequest(a, verdict) ==
    /\ desk[a] # Away
    /\ Len(trail) < MaxDecisions
    /\ LET r == desk[a].ask IN
       /\ ask' = [ask EXCEPT ![r] = Authored(desk[a].row, @, verdict, a)]
       /\ trail' = Append(trail, [ask |-> r, status |-> verdict, by |-> a,
                                  pages |-> ask[r].pages])
    /\ desk' = [desk EXCEPT ![a] = Away]
    /\ UNCHANGED <<freePages, submission, collided>>

DecisionBreaks(a) ==
    /\ desk[a] # Away
    /\ desk' = [desk EXCEPT ![a] = Away]
    /\ UNCHANGED <<freePages, ask, trail, submission, collided>>

-------------------------------------------------------------------------------
\* Variant: whatever was asked for counts.
ApprovedPagesOfAnyStatus(n) == \E r \in Asks : ask[r].pages >= n

\* approved_pages: the largest approved count reaches n.
ApprovedPages(n) ==
    \E r \in Asks : ask[r] # NoAsk /\ ask[r].status = "approved" /\ ask[r].pages >= n

\* submit_audit up to the wait for the lock; a submission that is refused changes
\* nothing.  Administrators are exempt and are not followed.
Admit(u, n) ==
    /\ submission[u] = NotYet
    /\ n <= freePages \/ ApprovedPages(n)
    /\ submission' = [submission EXCEPT ![u] =
          [depth |-> n, limit |-> freePages, upTo |-> Len(trail)]]
    /\ UNCHANGED <<freePages, ask, trail, desk, collided>>

-------------------------------------------------------------------------------
QuotaNext ==
    \/ \E n \in Depths : SetFreePages(n)
    \/ \E r \in Asks, n \in Depths : CreateRequest(r, n)
    \/ \E a \in Admins :
          \/ \E r \in Asks : OpenRequest(a, r)
          \/ \E verdict \in Decisions : DecideRequest(a, verdict)
          \/ DecisionBreaks(a)
    \/ \E u \in Submissions, n \in Depths : Admit(u, n)

QuotaSpec == QuotaInit /\ [][QuotaNext]_quotaVars

-------------------------------------------------------------------------------
(***************************************************************************)
(* Properties                                                              *)
(***************************************************************************)

\* The last decision of a request among the first n entries of a trail.
DecisionsOf(t, r, n) == {i \in 1..n : t[i].ask = r}
IsLast(t, i, r, n)   ==
    i \in DecisionsOf(t, r, n) /\ \A j \in DecisionsOf(t, r, n) : j <= i

\* audit_log.py: approvals "must therefore be traceable".  What a request shows
\* (its status and who decided) is the last entry of the audit log about it,
\* unless two administrators had it open at a time.
TrailMatchesRow ==
    \A r \in Asks \ collided :
        /\ ask[r] = NoAsk \/ ask[r].status = "pending" <=>
              DecisionsOf(trail, r, Len(trail)) = {}
        /\ \A i \in 1..Len(trail) : IsLast(trail, i, r, Len(trail)) =>
              ask[r] = [pages |-> trail[i].pages, status |-> trail[i].status,
                        by |-> trail[i].by]

\* submit_audit: an audit deeper than the limit of its time rests on a decision
\* in the log that reaches its depth: one that no later decision had taken back
\* when it was admitted, unless the request had two decisions at a time.
DeepAuditsWereApproved ==
    \A u \in Submissions :
        LET a == submission[u] IN
        a # NotYet /\ a.depth > a.limit =>
            \E i \in 1..a.upTo :
                /\ trail[i].status = "approved" /\ trail[i].pages >= a.depth
                /\ trail[i].ask \in collided \/ IsLast(trail, i, trail[i].ask, a.upTo)

\* What makes both inductive: an open request is there, and an administrator who
\* has it alone has it as it is; the trail holds what the requests show.
DesksHoldRows ==
    \A a \in Admins : desk[a] # Away =>
        /\ ask[desk[a].ask] # NoAsk
        /\ desk[a].ask \notin collided =>
              /\ desk[a].row = ask[desk[a].ask]
              /\ \A b \in Admins : desk[b] # Away /\ desk[b].ask = desk[a].ask => b = a

RowsAreOnTrail ==
    \A r \in Asks : ask[r] # NoAsk /\ ask[r].status = "approved" =>
        \E i \in 1..Len(trail) :
            /\ trail[i].ask = r /\ trail[i].status = "approved"
            /\ trail[i].pages = ask[r].pages
            /\ r \in collided \/ IsLast(trail, i, r, Len(trail))

TrailIsOfRows ==
    \A i \in 1..Len(trail) :
        ask[trail[i].ask] # NoAsk /\ trail[i].pages = ask[trail[i].ask].pages

AdmittedEarlier ==
    \A u \in Submissions : submission[u] # NotYet => submission[u].upTo \in 0..Len(trail)

QuotaInv ==
    /\ QuotaTypeOK /\ DesksHoldRows /\ TrailMatchesRow /\ RowsAreOnTrail
    /\ TrailIsOfRows /\ AdmittedEarlier /\ DeepAuditsWereApproved
===============================================================================
