------------------------------ MODULE MCOfficers ------------------------------
(***************************************************************************)
(* A small instance of Monitoring and PageQuota for TLC.  The two share no *)
(* variable, so a behaviour follows one of them and leaves the other where *)
(* it began.                                                               *)
(***************************************************************************)
EXTENDS Monitoring, PageQuota, TLC

OfficersInit == MonitoringInit /\ QuotaInit

OfficersNext ==
    \/ QuotaInit /\ MonitoringNext /\ UNCHANGED quotaVars
    \/ MonitoringInit /\ QuotaNext /\ UNCHANGED monitoringVars

OfficersSpec == OfficersInit /\ [][OfficersNext]_<<monitoringVars, quotaVars>>

\* One scheduler polls and one verification runs, the first of each, until two
\* overlap.  Either overlap is followed on the first day of one daily schedule, whose
\* domain has no other audits.
MCOverlaps ==
    /\ doubled \/ \A p \in Pollers \ {CHOOSE q \in Pollers : TRUE} : poll[p] = Asleep
    /\ crossed # {} \/ \A v \in Checks \ {CHOOSE w \in Checks : TRUE} : check[v] = Idle
    /\ ~doubled \/ crossed = {}
    /\ doubled \/ crossed # {} =>
          /\ day = 0 /\ others = {}
          /\ \A s, t \in Monitors :
                schedule[s] # NoRow /\ schedule[t] # NoRow =>
                    s = t /\ schedule[s].cadence = 1

\* A domain is passed by several methods before it has a schedule, which looks at the
\* status alone; and other audits come and go while no verification runs.
MCMethods ==
    /\ \A d \in Sites : Cardinality(passed[d]) > 1 => \A s \in Monitors : schedule[s] = NoRow
    /\ (\E v \in Checks : check[v] # Idle) => others = {}

\* Schedules are interchangeable, and requests for pages, for which the instance
\* takes the same names; and administrators.
MCSymmetry == Permutations(Monitors) \cup Permutations(Admins)
===============================================================================
