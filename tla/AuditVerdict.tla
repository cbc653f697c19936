----------------------------- MODULE AuditVerdict -----------------------------
(***************************************************************************)
(* One audit's result: what the calls of process commit (score, band,      *)
(* verdict, evidence) and what the requests of review_audit make of it.    *)
(*                                                                         *)
(* The queue may deliver the audit again at any time, also while an        *)
(* earlier call still runs (see AuditPipeline, which models why); a review *)
(* reads the row, the scores and the findings in three statements and      *)
(* commits its verdict in a fourth.                                        *)
(***************************************************************************)
EXTENDS Explanation

CONSTANTS
    Workers,        \* workers that may hold a delivery of the audit
    Reviewers,      \* requests running review_audit at the same time
    Outcomes,       \* what a crawl of the site may return
    Previous,       \* overall scores of the domain's last completed audit
    MaxCalls,       \* bound: deliveries of the audit
    MaxReviews      \* bound: reviews

Missing   == [c \in Categories |-> NoScore]
Outcome   == [scores : Vectors, criticals : Nat, gaming : BOOLEAN,
              reachable : BOOLEAN]
Scores    == Tenths \cup {NoScore}

ASSUME VerdictAssumption ==
    /\ Outcomes \subseteq Outcome /\ Outcomes # {}
    /\ Previous \subseteq Scores
    /\ MaxCalls \in Nat /\ MaxReviews \in Nat

VARIABLES
    row,            \* the audits row with its audit_scores
    criticals,      \* critical accessibility findings persisted
    stage,          \* where each call of process is
    loaded,         \* the row as the worker's session has loaded it
    got,            \* what the engine returned to the call
    rpc,            \* where each review is
    seen,           \* what it has read
    calls, reviews, \* so far
    certified,      \* history: a review ended in "compliant"
    overlapped      \* history: a call ran next to another one or a review

workVars   == <<stage, loaded, got>>
reviewVars == <<rpc, seen>>
vars == <<row, criticals, workVars, reviewVars, calls, reviews, certified,
          overlapped>>

Status  == {"queued", "crawling", "analyzing", "scoring", "completed",
            "insufficient_evidence", "failed"}
Methods == {"automated", "expert_reviewed"}
Row == [status : Status, overall : Scores, band : Bands \cup {"none"},
        guardrail : BOOLEAN, compliance : Verdicts \cup {"none", "not_assessed"},
        method : Methods, flagged : BOOLEAN, scores : [Categories -> Scores]]

NewRow == [status |-> "queued", overall |-> NoScore, band |-> "none",
           guardrail |-> FALSE, compliance |-> "none", method |-> "automated",
           flagged |-> FALSE, scores |-> Missing]

Nothing == [scores |-> Missing, criticals |-> 0, gaming |-> FALSE,
            reachable |-> FALSE]
Unread  == [row |-> NewRow, scores |-> Missing, criticals |-> 0]

\* "analyzed" and "begun": committed, and the row not loaded again yet.
Stages == {"out", "engine", "analyzed", "gate", "begun", "score", "publish"}

VerdictTypeOK ==
    /\ row \in Row
    /\ criticals \in Nat
    /\ stage \in [Workers -> Stages]
    /\ loaded \in [Workers -> Row]
    /\ got \in [Workers -> Outcomes \cup {Nothing}]
    /\ rpc \in [Reviewers -> {"idle", "scores", "findings", "decide"}]
    /\ seen \in [Reviewers -> [row : Row, scores : [Categories -> Scores],
                               criticals : Nat]]
    /\ calls \in 0..MaxCalls /\ reviews \in 0..MaxReviews
    /\ certified \in BOOLEAN /\ overlapped \in BOOLEAN

Init ==
    /\ row = NewRow
    /\ criticals = 0
    /\ stage = [w \in Workers |-> "out"]
    /\ loaded = [w \in Workers |-> NewRow]
    /\ got = [w \in Workers |-> Nothing]
    /\ rpc = [r \in Reviewers |-> "idle"]
    /\ seen = [r \in Reviewers |-> Unread]
    /\ calls = 0 /\ reviews = 0
    /\ certified = FALSE /\ overlapped = FALSE

Calling   == \E w \in Workers : stage[w] # "out"
Reviewing == \E r \in Reviewers : rpc[r] # "idle"

-------------------------------------------------------------------------------
(***************************************************************************)
(* process                                                                 *)
(***************************************************************************)

\* The ORM leaves a column out of the UPDATE when it is set to the value the
\* session has loaded: the row then keeps what it has now.
Written(old, new, now) == IF new = old THEN now ELSE new

\* A score is set as a float and loaded as a decimal: they compare equal only
\* when the number is exact in binary, a whole or a half point.
WrittenScore(old, new, now) ==
    IF new = old /\ new % 5 = 0 THEN now ELSE new

\* The columns of a scored audit but its status, as a commit leaves them: l is
\* the row the session loaded, s the category scores.
ScoresWritten(l, s) ==
    [row EXCEPT !.scores =
        [c \in Categories |-> WrittenScore(l.scores[c], s[c], row.scores[c])]]

\* Variant: the band is the one of the score alone.
ResultWrittenUncapped(l, s, r) ==
    [r EXCEPT
        !.overall   = WrittenScore(l.overall, Overall(s), row.overall),
        !.band      = Written(l.band, BandFor(Overall(s)), row.band),
        !.guardrail = Written(l.guardrail, GuardrailActive(s), row.guardrail)]

ResultWritten(l, s, r) ==
    [r EXCEPT
        !.overall   = WrittenScore(l.overall, Overall(s), row.overall),
        !.band      = Written(l.band, BandOf(s), row.band),
        !.guardrail = Written(l.guardrail, GuardrailActive(s), row.guardrail)]

\* The integrity block is written unless all of it is what was loaded.
VerdictWritten(l, r, verdict, flag, block) ==
    [r EXCEPT
        !.flagged    = IF block THEN flag ELSE Written(l.flagged, flag, row.flagged),
        !.compliance = Written(l.compliance, verdict, row.compliance),
        !.method     = Written(l.method, "automated", row.method)]

StatusWritten(l, s, r) == [r EXCEPT !.status = Written(l.status, s, row.status)]

Goes(w, from, to) ==
    /\ stage[w] = from
    /\ stage' = [stage EXCEPT ![w] = to]

Forget(w) == loaded' = [loaded EXCEPT ![w] = NewRow]

Leave(w) ==
    /\ stage' = [stage EXCEPT ![w] = "out"]
    /\ Forget(w)
    /\ got' = [got EXCEPT ![w] = Nothing]

\* process loads the row and commits "crawling", whatever the status was.
Begin(w) ==
    /\ calls < MaxCalls
    /\ Goes(w, "out", "engine")
    /\ calls' = calls + 1
    /\ overlapped' = (overlapped \/ Calling \/ Reviewing)
    /\ row' = [row EXCEPT !.status = "crawling"]
    /\ UNCHANGED <<criticals, loaded, got, reviewVars, reviews, certified>>

\* The engine returns; "analyzing" is committed.
Analyze(w) ==
    /\ Goes(w, "engine", "analyzed")
    /\ \E o \in Outcomes : got' = [got EXCEPT ![w] = o]
    /\ row' = [row EXCEPT !.status = "analyzing"]
    /\ UNCHANGED <<criticals, loaded, reviewVars, calls, reviews, certified,
                   overlapped>>

\* The first use of the audit after a commit loads its row again; the merges
\* of the category scores load theirs.
Reload(w) ==
    /\ Goes(w, "analyzed", "gate") \/ Goes(w, "begun", "score")
    /\ loaded' = [loaded EXCEPT ![w] = row]
    /\ UNCHANGED <<row, criticals, got, reviewVars, calls, reviews, certified,
                   overlapped>>

\* Variant: a refused audit keeps its band.
RefusedKeepingBand(l) ==
    [StatusWritten(l, "insufficient_evidence", row) EXCEPT
        !.overall    = Written(l.overall, NoScore, row.overall),
        !.compliance = Written(l.compliance, "not_assessed", row.compliance),
        !.method     = Written(l.method, "automated", row.method)]

Refused(l) ==
    [StatusWritten(l, "insufficient_evidence", row) EXCEPT
        !.overall    = Written(l.overall, NoScore, row.overall),
        !.band       = Written(l.band, "none", row.band),
        !.compliance = Written(l.compliance, "not_assessed", row.compliance),
        !.method     = Written(l.method, "automated", row.method)]

\* The evidence gate.
RefuseScore(w) ==
    /\ Goes(w, "gate", "publish")
    /\ ~got[w].reachable
    /\ row' = Refused(loaded[w])
    /\ Forget(w)
    /\ UNCHANGED <<criticals, got, reviewVars, calls, reviews, certified,
                   overlapped>>

StartScoring(w) ==
    /\ Goes(w, "gate", "begun")
    /\ got[w].reachable
    /\ row' = StatusWritten(loaded[w], "scoring", row)
    /\ Forget(w)
    /\ UNCHANGED <<criticals, got, reviewVars, calls, reviews, certified,
                   overlapped>>

\* Another call has inserted the category scores since: the INSERTs of this
\* one violate the primary key.
Conflict(w) == loaded[w].scores = Missing /\ row.scores # Missing

\* What assess may say: the setting and the last audit are read now.
FlagOf(o) == {Flagged(o.gaming, Overall(o.scores), p, enabled) :
                 p \in Previous, enabled \in BOOLEAN}

\* The verdict of a call is never a reviewed one.
VerdictOf(o, flag) == Verdict(o.scores["accessibility"], o.criticals, FALSE, flag)

Completed(l, o, flag, block) ==
    LET r == VerdictWritten(l, ScoresWritten(l, o.scores), VerdictOf(o, flag), flag, block)
    IN  StatusWritten(l, "completed", ResultWritten(l, o.scores, r))

\* Scores, findings, integrity, verdict, score, band, status: one commit.
Complete(w) ==
    /\ Goes(w, "score", "publish")
    /\ ~Conflict(w)
    /\ \E flag \in FlagOf(got[w]), block \in BOOLEAN :
         row' = Completed(loaded[w], got[w], flag, block)
    /\ criticals' = criticals + got[w].criticals
    /\ Forget(w)
    /\ UNCHANGED <<got, reviewVars, calls, reviews, certified, overlapped>>

\* Publishing the status, and the end of the call.
Publish(w) ==
    /\ stage[w] = "publish"
    /\ Leave(w)
    /\ UNCHANGED <<row, criticals, reviewVars, calls, reviews, certified,
                   overlapped>>

\* The except block with nothing pending in the session but, in the gate, the
\* row it has loaded.
Fail(w) ==
    /\ stage[w] \in {"engine", "analyzed", "gate", "begun", "publish"}
    /\ row' = StatusWritten(IF stage[w] = "gate" THEN loaded[w] ELSE row,
                            "failed", row)
    /\ Leave(w)
    /\ UNCHANGED <<criticals, reviewVars, calls, reviews, certified, overlapped>>

\* The except block while scoring: its commit is not preceded by a rollback and
\* takes along the scores, the findings added so far, and the verdict if it
\* was set.
FailScoring(w) ==
    /\ stage[w] = "score"
    /\ ~Conflict(w)
    /\ LET l == loaded[w]
           o == got[w]
           r == StatusWritten(l, "failed", ScoresWritten(l, o.scores))
       IN \/ /\ row' = r
             /\ \E n \in 0..o.criticals : criticals' = criticals + n
          \/ /\ \E flag \in FlagOf(o), block \in BOOLEAN :
                  row' = VerdictWritten(l, r, VerdictOf(o, flag), flag, block)
             /\ criticals' = criticals + o.criticals
    /\ Leave(w)
    /\ UNCHANGED <<reviewVars, calls, reviews, certified, overlapped>>

\* Killed, or the except block raises too (no database, or a conflict).
Dies(w) ==
    /\ stage[w] # "out"
    /\ Leave(w)
    /\ UNCHANGED <<row, criticals, reviewVars, calls, reviews, certified,
                   overlapped>>

-------------------------------------------------------------------------------
(***************************************************************************)
(* review_audit                                                            *)
(***************************************************************************)
Asks(r, from, to) ==
    /\ rpc[r] = from
    /\ rpc' = [rpc EXCEPT ![r] = to]

\* _owned_audit: the row is loaded, a completed one only.
ReviewOpen(r) ==
    /\ reviews < MaxReviews
    /\ row.status = "completed"
    /\ Asks(r, "idle", "scores")
    /\ seen' = [seen EXCEPT ![r].row = row]
    /\ reviews' = reviews + 1
    /\ overlapped' = (overlapped \/ Calling)
    /\ UNCHANGED <<row, criticals, workVars, calls, certified>>

ReadScores(r) ==
    /\ Asks(r, "scores", "findings")
    /\ seen' = [seen EXCEPT ![r].scores = row.scores]
    /\ UNCHANGED <<row, criticals, workVars, calls, reviews, certified, overlapped>>

CountCriticals(r) ==
    /\ Asks(r, "findings", "decide")
    /\ seen' = [seen EXCEPT ![r].criticals = criticals]
    /\ UNCHANGED <<row, criticals, workVars, calls, reviews, certified, overlapped>>

\* Approved: the verdict of what was read, the integrity flag left out.
ReviewVerdict(r, approved) ==
    IF approved
    THEN Verdict(seen[r].scores["accessibility"], seen[r].criticals, TRUE, FALSE)
    ELSE "non_compliant"

Decide(r, approved) ==
    /\ Asks(r, "decide", "idle")
    /\ LET verdict == ReviewVerdict(r, approved)
           l       == seen[r].row
       IN  /\ row' = [row EXCEPT
                !.compliance = Written(l.compliance, verdict, row.compliance),
                !.method     = Written(l.method, "expert_reviewed", row.method)]
           /\ certified' = (certified \/ verdict = "compliant")
    /\ seen' = [seen EXCEPT ![r] = Unread]
    /\ UNCHANGED <<criticals, workVars, calls, reviews, overlapped>>

-------------------------------------------------------------------------------
CallStep(w) ==
    \/ Begin(w)  \/ Analyze(w)  \/ Reload(w)  \/ RefuseScore(w)
    \/ StartScoring(w)  \/ Complete(w)  \/ Publish(w)
    \/ Fail(w)  \/ FailScoring(w)  \/ Dies(w)

ReviewStep(r) ==
    \/ ReviewOpen(r)  \/ ReadScores(r)  \/ CountCriticals(r)
    \/ \E approved \in BOOLEAN : Decide(r, approved)

Next == (\E w \in Workers : CallStep(w)) \/ (\E r \in Reviewers : ReviewStep(r))

VerdictSpec == Init /\ [][Next]_vars

-------------------------------------------------------------------------------
(***************************************************************************)
(* Properties                                                              *)
(***************************************************************************)

\* docs/HLD.md: automated evidence alone never exceeds partially_compliant.
\* Whatever runs next to whatever, a "compliant" was given by a review.
CompliantOnlyByReview == row.compliance = "compliant" => certified

\* A completed audit is certified on the evidence it shows: the persisted
\* accessibility score reaches the pass bar, no critical accessibility finding
\* is persisted, and the method says that an expert looked.  (As long as no
\* call of process ran next to another one or to a review.)
CertifiedOnEvidence ==
    ~overlapped /\ row.status = "completed" /\ row.compliance = "compliant" =>
        /\ row.scores["accessibility"] >= 900
        /\ criticals = 0
        /\ row.method = "expert_reviewed"

\* "compliant" is never given by a machine, and never without the evidence.
CertificateHolds == CompliantOnlyByReview /\ CertifiedOnEvidence

\* The report of a completed audit reconciles: score, band and guard-rail are
\* those of the category scores persisted beside them, also after calls that
\* failed with half of their results committed.
Reconciled(r) ==
    /\ r.overall = Overall(r.scores)
    /\ r.band = BandOf(r.scores)
    /\ r.guardrail = GuardrailActive(r.scores)

ReportReconciles ==
    ~overlapped /\ row.status = "completed" => Reconciled(row)

\* A site that could not be captured has no score, no band and no verdict, not
\* those of an earlier delivery either.  (worker.py:158-175 leaves the rest of an
\* earlier result where it is: category scores, findings, guard-rail, integrity.)
RefusedHasNoScore ==
    ~overlapped /\ row.status = "insufficient_evidence" =>
        /\ row.overall = NoScore /\ row.band = "none"
        /\ row.compliance = "not_assessed"

\* The score, the band and the guard-rail of a completed audit are those of the
\* category scores beside them; a refused audit has no score, band or verdict.
ReportHolds == ReportReconciles /\ RefusedHasNoScore

\* The points that the report of a completed audit shows category by category
\* are the points of its score: within the roundings of the eight rows and of
\* the score itself, and in each row what was won and what was lost make up
\* the category.
Near(m, n, d) == m - n <= d /\ n - m <= d

PointsAddUp(r) ==
    /\ Near(10 * Total(Won(r.scores)), 100 * r.overall, 90)
    /\ Near(10 * Total(Losses(r.scores)), 100 * (1000 - r.overall), 90)
    /\ \A c \in Categories :
          Near(Won(r.scores)[c] + Losses(r.scores)[c], MaxContribution(c), 1)

\* The order of its rows, by what is lost, is the order in which mending pays:
\* no category further down would lift the site by more.
MendingPays(r) ==
    \A c, d \in Categories :
        Lost(r.scores, c) > Lost(r.scores, d) =>
            WeightedSum(Mended(r.scores, c)) >= WeightedSum(Mended(r.scores, d))

ExplanationHolds ==
    ~overlapped /\ row.status = "completed" => PointsAddUp(row) /\ MendingPays(row)

\* Running the audit again on a site that is better in every category, or in
\* none worse, never lowers its score nor its band.
NeverWorseOnBetterEvidence ==
    [][/\ ~overlapped'
       /\ row'.status = "completed"
       /\ row.scores # Missing /\ Reconciled(row)
       /\ \A c \in Categories : row'.scores[c] >= row.scores[c]
       => row'.overall >= row.overall /\ Rank(row'.band) <= Rank(row.band)]_vars
===============================================================================
