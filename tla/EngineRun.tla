------------------------------ MODULE EngineRun ------------------------------
(***************************************************************************)
(* One run of the audit engine, main of audit_engine/runner.js: the home   *)
(* page, the sample of the site, the pages crawled one after the other and *)
(* the aggregate; and what its two callers make of the result: process of  *)
(* worker.py has a gate, process of public_worker.py has none.             *)
(*                                                                         *)
(* A page is what the checks find on it.  The score of a page is counted   *)
(* in 17ths of a point, which makes the share of the 17 GIGW checks an     *)
(* integer.  Averages are exact here: floating point could only differ on  *)
(* ties of eight pages or more.                                            *)
(***************************************************************************)
EXTENDS Integers, Sequences, FiniteSets, Functions

CONSTANTS
    Rules,          \* axe rules that a page may violate critically
    Pages,          \* what may be found on a page
    NumSections,    \* top-level path sections, in the order discovered
    PoolSizes,      \* pages a section may have in the pool
    LabScores,      \* what Lighthouse may give the home page
    VisionScores,   \* what design_cv may give the screenshot, in tenths
    FieldScores,    \* what the field data of CrUX may give, in tenths
    MAX_CRAWL       \* most pages audited

Headers == {"strict-transport-security", "content-security-policy",
            "x-content-type-options", "x-frame-options", "referrer-policy",
            "permissions-policy"}
Widths    == {360, 414, 768, 1440}
Landmarks == {"nav", "search", "breadcrumb", "h1"}

\* axe ran or raised, with its critical violations and the number of the
\* others, the last without an impact; GIGW checks passed; readability;
\* transport and headers; tracking cookies, and cookies without a notice; of a
\* home page: widths at which it overflows, percent of its targets that are too
\* small, landmarks, percent of its inputs that have a label.
Page == [axe : BOOLEAN, critical : SUBSET Rules, serious : Nat, moderate : Nat,
         minor : Nat, unrated : Nat, gigw : 0..17, readability : 0..100,
         https : BOOLEAN, headers : SUBSET Headers, tracking : Nat,
         unannounced : BOOLEAN, overflows : SUBSET Widths, small : 0..100,
         landmarks : SUBSET Landmarks, labelled : 0..100]

Sections == 1..NumSections

ASSUME EngineAssumption ==
    /\ IsFiniteSet(Rules)
    /\ Pages \subseteq Page
    /\ NumSections \in Nat \ {0}
    /\ PoolSizes \subseteq Nat
    /\ LabScores \subseteq 0..100
    /\ VisionScores \subseteq 0..1000 /\ FieldScores \subseteq 0..1000
    /\ MAX_CRAWL \in Nat \ {0}

VARIABLES
    caller,         \* who runs the engine
    pc,             \* where main is
    fit,            \* usability and responsiveness of the home page
    found,          \* pages of each section in the pool
    taken,          \* pages of each section that diversify has picked
    turn,           \* the section whose turn it is
    results,        \* what each audited page gave, the home page first
    out,            \* the result on stdout
    band,           \* what the caller made of it: the band
    compliance      \* and the verdict

poolVars   == <<found, taken, turn>>
readVars   == <<band, compliance>>
engineVars == <<caller, pc, fit, poolVars, results, out, readVars>>

Score == INSTANCE Scoring WITH RoundedUp <- {}

Averaged    == {"accessibility", "gigw", "content", "trust"}
Error       == [analysed |-> FALSE]
PageResults == {Error} \cup [analysed : {TRUE}, page : Pages]
Unmeasured  == [home |-> FALSE, analysed |-> 0, critical |-> {},
                scores |-> [c \in Score!Categories |-> 0]]

EngineTypeOK ==
    /\ caller \in {"worker", "public"}
    /\ pc \in {"home", "resize", "discover", "pick", "crawl", "done", "read", "died"}
    /\ fit \in [usability : 0..100, responsiveness : 0..100]
    /\ found \in [Sections -> PoolSizes \cup {0}]
    /\ taken \in [Sections -> Nat]
    /\ turn \in Sections
    /\ results \in Seq(PageResults)
    /\ Len(results) <= MAX_CRAWL
    /\ out \in [home : BOOLEAN, analysed : Nat, critical : SUBSET Rules,
                scores : [Score!Categories -> 0..100]]
    /\ band \in Score!Bands \cup {"none"}
    /\ compliance \in {"none", "not_assessed", "partially_compliant", "non_compliant"}

EngineInit ==
    /\ caller \in {"worker", "public"}
    /\ pc = "home"
    /\ fit = [usability |-> 0, responsiveness |-> 0]
    /\ found = [s \in Sections |-> 0]
    /\ taken = [s \in Sections |-> 0]
    /\ turn = 1
    /\ results = <<>>
    /\ out = Unmeasured
    /\ band = "none" /\ compliance = "none"

-------------------------------------------------------------------------------
(***************************************************************************)
(* The checks of a page                                                    *)
(***************************************************************************)
Least(a, b) == IF a < b THEN a ELSE b
Clamp(n) == IF n < 0 THEN 0 ELSE Least(n, 100)

Penalty(p) == 8 * Cardinality(p.critical) + 6 * p.serious + 3 * p.moderate
                + p.minor + 2 * p.unrated

\* accessibility: the penalty costs 70 points at most; 60 if axe raises.
Accessibility(p) == IF p.axe THEN 100 - Least(70, Penalty(p)) ELSE 60

\* gigw: the share of the 17 mandatory elements, in 17ths of a point.
Gigw(p) == 100 * p.gigw

HeaderPoints(h) ==
    CASE h \in {"strict-transport-security", "content-security-policy"} -> 14
      [] h = "referrer-policy" -> 12
      [] OTHER -> 10

\* trust: points for transport and headers, less what cookies cost.
Trust(p) ==
    Clamp((IF p.https THEN 30 ELSE 0) + SumFunction([h \in p.headers |-> HeaderPoints(h)])
          - Least(20, 6 * p.tracking) - (IF p.unannounced THEN 6 ELSE 0))

\* auditLoaded, in 17ths of a point.
ScoreOf(category, p) ==
    CASE category = "accessibility" -> 17 * Accessibility(p)
      [] category = "gigw"          -> Gigw(p)
      [] category = "content"       -> 17 * p.readability
      [] category = "trust"         -> 17 * Trust(p)

LandmarkPoints(l) == IF l \in {"nav", "search"} THEN 20 ELSE 15

\* usability, rounded to a point as main does.
Usability(landmarks, labelled) ==
    (10 * SumFunction([l \in landmarks |-> LandmarkPoints(l)]) + 3 * labelled + 5) \div 10

\* responsiveness: 60 % for the widths without overflow, a width that does not
\* load counts as a failure; 40 % for the targets, also rounded.
Responsiveness(fitting, small) ==
    (150 * Cardinality(fitting) + 4 * (100 - small) + 5) \div 10

-------------------------------------------------------------------------------
(***************************************************************************)
(* main                                                                    *)
(***************************************************************************)

\* The worker passes no depth, whatever the audit's scope says.
Depth == IF caller = "public" THEN 1 ELSE MAX_CRAWL

Analysed(p) == [analysed |-> TRUE, page |-> p]

\* goto answers, be it with an error page of the server or its firewall, or
\* times out: then the blank page is audited in its place.
Home ==
    /\ pc = "home"
    /\ results' \in {<<Analysed(p)>> : p \in Pages} \cup {<<Error>>}
    /\ pc' = "resize"
    /\ UNCHANGED <<caller, fit, poolVars, out, readVars>>

\* responsiveness navigates to the home page again at each width, and usability
\* looks at what the last navigation left: the page, or one without content,
\* where no target is too small and no input lacks a label.
Resize ==
    /\ pc = "resize"
    /\ \E p \in IF results[1].analysed THEN {results[1].page} ELSE Pages,
          loaded \in SUBSET Widths :
         \/ fit' = [usability |-> Usability(p.landmarks, p.labelled),
                    responsiveness |-> Responsiveness(loaded \ p.overflows, p.small)]
         \/ /\ 1440 \notin loaded
            /\ \E left \in SUBSET {"h1"} :
                 fit' = [usability |-> Usability(left, 100),
                         responsiveness |-> Responsiveness(loaded \ p.overflows, 0)]
    /\ pc' = "discover"
    /\ UNCHANGED <<caller, poolVars, results, out, readVars>>

\* The sitemaps, if they answer, and the links of the home page.
Discover ==
    /\ pc = "discover"
    /\ found' \in [Sections -> PoolSizes]
    /\ pc' = "pick"
    /\ UNCHANGED <<caller, fit, taken, turn, results, out, readVars>>

Picked == SumFunction(taken)

SampleComplete ==
    \/ Picked >= Depth - 1
    \/ \A s \in Sections : taken[s] >= found[s]

\* Variant: a section keeps its turn while it has pages.
PickSame ==
    /\ pc = "pick"
    /\ ~SampleComplete
    /\ IF taken[turn] < found[turn]
       THEN taken' = [taken EXCEPT ![turn] = @ + 1] /\ UNCHANGED turn
       ELSE turn' = (turn % NumSections) + 1 /\ UNCHANGED taken
    /\ UNCHANGED <<caller, pc, fit, found, results, out, readVars>>

\* diversify: one page of each section that has any left, in turn.
Pick ==
    /\ pc = "pick"
    /\ ~SampleComplete
    /\ taken' = [taken EXCEPT ![turn] = IF @ < found[turn] THEN @ + 1 ELSE @]
    /\ turn' = (turn % NumSections) + 1
    /\ UNCHANGED <<caller, pc, fit, found, results, out, readVars>>

StartCrawl ==
    /\ pc = "pick"
    /\ SampleComplete
    /\ pc' = "crawl"
    /\ UNCHANGED <<caller, fit, poolVars, results, out, readVars>>

\* auditPage: analysed, or nothing answers, or a check raises.
Visit ==
    /\ pc = "crawl"
    /\ Len(results) <= Picked
    /\ \E r \in {Analysed(p) : p \in Pages} \cup {Error} : results' = Append(results, r)
    /\ UNCHANGED <<caller, pc, fit, poolVars, out, readVars>>

Ok == {i \in DOMAIN results : results[i].analysed}

\* Variant: the pages that did not answer count as pages without a point.
AverageOfAll(category) ==
    LET sum == SumFunction([i \in Ok |-> ScoreOf(category, results[i].page)])
        n   == 17 * Len(results)
    IN  (2 * sum + n) \div (2 * n)

\* Math.round(avg(...)), halves up; 0 when nothing was analysed.
Average(category) ==
    LET sum == SumFunction([i \in Ok |-> ScoreOf(category, results[i].page)])
        n   == 17 * Cardinality(Ok)
    IN  IF n = 0 THEN 0 ELSE (2 * sum + n) \div (2 * n)

\* "|| 60": a 0 is replaced, measured or not.
Filled(score) == IF score = 0 THEN 60 ELSE score

\* What axe reports of a page: nothing when it raises.
Criticals(p) == IF p.axe THEN p.critical ELSE {}

\* dedupe keeps one of equal findings.
Critical == UNION {Criticals(results[i].page) : i \in Ok}

\* performance: Lighthouse on the home page; 60 if it raises or gives 0.
Performance == {Filled(s) : s \in LabScores} \cup {60}

CategoryScore(c, lab) ==
    CASE c \in Averaged      -> Filled(Average(c))
      [] c \in DOMAIN fit    -> fit[c]
      [] c = "performance"   -> lab
      [] c = "design"        -> 70

Result(lab) == [home |-> results[1].analysed, analysed |-> Cardinality(Ok),
                critical |-> Critical,
                scores |-> [c \in Score!Categories |-> CategoryScore(c, lab)]]

Aggregate ==
    /\ pc = "crawl"
    /\ Len(results) > Picked
    /\ \E lab \in Performance : out' = Result(lab)
    /\ pc' = "done"
    /\ UNCHANGED <<caller, fit, poolVars, results, readVars>>

\* A check of the home page raises, the browser crashes, the 600 s are over.
EngineDies ==
    /\ pc \in {"home", "resize", "discover", "pick", "crawl"}
    /\ pc' = "died"
    /\ UNCHANGED <<caller, fit, poolVars, results, out, readVars>>

-------------------------------------------------------------------------------
(***************************************************************************)
(* The callers                                                             *)
(***************************************************************************)
\* Variant: a home page that was not captured passes, if any other was.
CapturedAnyPage == out.analysed > 0

\* The coverage-confidence gate of process.
Captured == out.home /\ out.analysed > 0

InTenths == [c \in Score!Categories |-> 10 * out.scores[c]]

\* blend: half of the lab's score, half of the field's.  A tie is not exact in
\* binary and may go either way.
Blended(lab) == UNION {{(lab + f) \div 2, (lab + f + 1) \div 2} : f \in FieldScores}

\* What process scores: the design score is the one of the screenshot, if that
\* could be read, and performance is blended, if there is field data.
Enriched ==
    LET lab == InTenths["performance"] IN
    UNION {{[InTenths EXCEPT !["design"] = d, !["performance"] = p] :
               d \in {InTenths["design"]} \cup VisionScores} : p \in {lab} \cup Blended(lab)}

BandsGiven == {Score!BandOf(s) : s \in Enriched}

\* A document may add a critical finding; assess may flag the site (see
\* AuditVerdict).
VerdictsGiven ==
    {v \in Score!Verdicts : \E n \in {0, 1}, flagged \in BOOLEAN :
        v = Score!Verdict(InTenths["accessibility"], Cardinality(out.critical) + n, FALSE,
                          flagged)}

\* process refuses, or scores; the public worker scores what it gets.
Read ==
    /\ pc = "done"
    /\ \/ /\ caller = "worker" /\ ~Captured
          /\ band' = "none" /\ compliance' = "not_assessed"
       \/ /\ caller = "worker" /\ Captured
          /\ band' \in BandsGiven /\ compliance' \in VerdictsGiven
       \/ /\ caller = "public"
          /\ band' = Score!BandOf(InTenths) /\ compliance' = "none"
    /\ pc' = "read"
    /\ UNCHANGED <<caller, fit, poolVars, results, out>>

EngineNext ==
    \/ Home \/ Resize \/ Discover \/ Pick \/ StartCrawl \/ Visit \/ Aggregate \/ EngineDies
    \/ Read

EngineSpec == EngineInit /\ [][EngineNext]_engineVars

-------------------------------------------------------------------------------
\* runner.js:317, "judged on breadth": the sample is as large as the site and
\* the depth allow, and no section gives two pages more than one that had
\* pages left.
DiverseSample ==
    pc \in {"crawl", "done", "read"} =>
        /\ Picked = Least(Depth - 1, SumFunction(found))
        /\ \A s, t \in Sections : taken[s] < found[s] => taken[t] <= taken[s] + 1

\* Between the worst and the best page, give or take the rounding.
Within(score, measured) ==
    \E low, high \in measured :
        2 * low - 17 <= 34 * score /\ 34 * score <= 2 * high + 17

\* Where a check came to a result: axe may raise, the other three do not.
Measured(c) == {i \in Ok : c # "accessibility" \/ results[i].page.axe}

\* The scores that went into an average: what was measured, and a 60 for a page
\* on which the check raised.
Averages(c) ==
    {ScoreOf(c, results[i].page) : i \in Measured(c)}
        \cup (IF Measured(c) = Ok THEN {} ELSE {17 * 60})

\* No audit gets a score without its home page, and no page that did not answer
\* counts in any (runner.js:434, worker.py:150-155).  An average lies between
\* the worst and the best that was measured; the two fillers that get in are the
\* 60 of a page on which axe raised, which counts like a measurement, and the 60
\* for an average of 0.  A critical failure that axe reported on any page makes
\* the site non-compliant, and a site that fails in accessibility on every page
\* is neither compliant nor in the bands A and B, whatever its screenshot, its
\* field data and its documents add.
RestsOnEvidence ==
    caller = "worker" /\ pc = "read" /\ band # "none" =>
        /\ 1 \in Ok
        /\ \A c \in Averaged :
              \/ Within(out.scores[c], Averages(c))
              \/ out.scores[c] = 60 /\ Within(0, Averages(c))
        /\ \A i \in Measured("accessibility") :
              results[i].page.critical # {} => compliance = "non_compliant"
        /\ (\A i \in Ok : Accessibility(results[i].page) < 50) =>
              compliance = "non_compliant" /\ band \notin {"A", "B"}

\* What makes DiverseSample inductive: a section that has pages left has given as
\* many as any other, but for the one page of whoever had its turn in this round
\* before it; and the sample stays within the depth and the site.
InRound(s) == IF s < turn THEN 1 ELSE 0

SampleInv ==
    /\ \A s \in Sections : taken[s] <= found[s]
    /\ \A s, t \in Sections :
          taken[s] < found[s] => taken[t] + InRound(s) <= taken[s] + InRound(t)
    /\ Picked <= Depth - 1
    /\ pc \in {"home", "resize", "discover"} =>
          turn = 1 /\ \A s \in Sections : taken[s] = 0
    /\ pc \in {"crawl", "done", "read"} => SampleComplete

\* What makes RestsOnEvidence inductive: the result is made of the pages audited,
\* which the sample bounds, and the caller's reading of the result.
ResultInv ==
    /\ pc = "home" => results = <<>>
    /\ pc \in {"resize", "discover", "pick"} => Len(results) = 1
    /\ pc \in {"crawl", "done", "read"} => Len(results) \in 1..(Picked + 1)
    /\ pc \in {"done", "read"} => \E lab \in Performance : out = Result(lab)
    /\ pc # "read" => band = "none"
    /\ caller = "worker" /\ band # "none" =>
          /\ Captured
          /\ band \in BandsGiven /\ compliance \in VerdictsGiven
===============================================================================
