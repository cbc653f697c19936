------------------------------- MODULE Scoring -------------------------------
(***************************************************************************)
(* The pure functions behind a result: the weighted GovUX score and its    *)
(* band (compute_score), the legal verdict (compliance_verdict) and the    *)
(* integrity check (assess).                                               *)
(*                                                                         *)
(* A score is an integer in tenths of a point, 0..1000: the engine gives   *)
(* whole points, design_cv and crux tenths, and compute_score rounds to    *)
(* tenths.                                                                 *)
(***************************************************************************)
EXTENDS Integers

CONSTANT
    RoundedUp       \* the score vectors half way between two tenths that
                    \* binary floating point rounds up

Categories == {"accessibility", "usability", "gigw", "design", "performance",
               "responsiveness", "content", "trust"}
Tenths     == 0..1000
Vectors    == [Categories -> Tenths]
NoScore    == -1      \* NULL

ASSUME RoundedUpAssumption == RoundedUp \subseteq Vectors

Bands      == {"A", "B", "C", "D", "E"}
Verdicts   == {"compliant", "partially_compliant", "non_compliant"}

-------------------------------------------------------------------------------
\* Variant: a weight was raised and no other lowered.
WeightedSumHeavy(s) ==
    25 * s["accessibility"] + 17 * s["usability"] + 15 * s["gigw"]
    + 11 * s["design"] + 12 * s["performance"] + 10 * s["responsiveness"]
    + 7 * s["content"] + 6 * s["trust"]

\* CATEGORY_WEIGHTS: percentages, so the sum is the score in thousandths of a
\* point.
WeightedSum(s) ==
    22 * s["accessibility"] + 17 * s["usability"] + 15 * s["gigw"]
    + 11 * s["design"] + 12 * s["performance"] + 10 * s["responsiveness"]
    + 7 * s["content"] + 6 * s["trust"]

\* round(x, 1) of Python: to the nearest tenth.  A tie is not exact in binary,
\* so the vector decides the side.
Overall(s) ==
    LET whole == WeightedSum(s) \div 100
        rest  == WeightedSum(s) % 100
    IN  IF rest > 50 \/ (rest = 50 /\ s \in RoundedUp) THEN whole + 1 ELSE whole

\* BANDS, from the best on: the first threshold reached.
BandFor(score) ==
    IF score >= 900 THEN "A" ELSE IF score >= 750 THEN "B"
    ELSE IF score >= 600 THEN "C" ELSE IF score >= 400 THEN "D" ELSE "E"

\* A cap of C: "ABCDE".index.
CapAtC(band) == IF band \in {"A", "B"} THEN "C" ELSE band

\* GUARDRAILS: accessibility and trust.
GuardrailActive(s) == s["accessibility"] < 500 \/ s["trust"] < 500

\* Variant: the band is capped at C without a look at what it was.
BandOfForced(s) == IF GuardrailActive(s) THEN "C" ELSE BandFor(Overall(s))

BandOf(s) ==
    IF GuardrailActive(s) THEN CapAtC(BandFor(Overall(s))) ELSE BandFor(Overall(s))

\* An order on bands: how far from A.
Rank(band) ==
    IF band = "A" THEN 1 ELSE IF band = "B" THEN 2 ELSE IF band = "C" THEN 3
    ELSE IF band = "D" THEN 4 ELSE 5

-------------------------------------------------------------------------------
\* compliance_verdict, in the order of its returns.
Blocked(a11y, criticals) == criticals > 0 \/ a11y < 500

\* Variant: the unreviewed branch is missing.
VerdictUnreviewed(a11y, criticals, reviewed, flagged) ==
    IF Blocked(a11y, criticals) THEN "non_compliant"
    ELSE IF flagged \/ a11y < 900 THEN "partially_compliant"
    ELSE "compliant"

\* Variant: the pass bar is the fail bar.
VerdictLowBar(a11y, criticals, reviewed, flagged) ==
    IF Blocked(a11y, criticals) THEN "non_compliant"
    ELSE IF flagged \/ ~reviewed THEN "partially_compliant"
    ELSE "compliant"

Verdict(a11y, criticals, reviewed, flagged) ==
    IF Blocked(a11y, criticals) THEN "non_compliant"
    ELSE IF flagged \/ ~reviewed \/ a11y < 900 THEN "partially_compliant"
    ELSE "compliant"

\* assess(...)["flagged"]: a technique among the findings, or a jump of 25
\* points over the last completed audit of the domain; off when the setting is.
Flagged(gaming, score, previous, enabled) ==
    enabled /\ (gaming \/ (previous # NoScore /\ score - previous >= 250))
===============================================================================
