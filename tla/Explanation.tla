----------------------------- MODULE Explanation -----------------------------
(***************************************************************************)
(* The breakdown of a score by which a report explains it (explain): what  *)
(* each category adds to the overall score and what it leaves on the       *)
(* table.  Numbers are in hundredths of a point, rounded from the          *)
(* thousandths in which a weighted score is exact.  The order of the rows  *)
(* is theirs by loss.                                                      *)
(***************************************************************************)
EXTENDS Scoring

CONSTANT
    TiesUp          \* the roundings half way between two hundredths that
                    \* binary floating point takes up: column, category, score

ASSUME TiesUpAssumption ==
    TiesUp \subseteq {"contribution", "lost"} \X Categories \X Tenths

Weights == [accessibility |-> 22, usability |-> 17, gigw |-> 15, design |-> 11,
            performance |-> 12, responsiveness |-> 10, content |-> 7, trust |-> 6]

\* round(x, 2) of n thousandths.
Hundredths(n, up) ==
    LET rest == n % 10
    IN  IF rest > 5 \/ (rest = 5 /\ up) THEN n \div 10 + 1 ELSE n \div 10

\* Variant: the score is cut to whole points first.
ContributionWhole(s, c) == Weights[c] * (s[c] \div 10)

Contribution(s, c) ==
    Hundredths(Weights[c] * s[c], <<"contribution", c, s[c]>> \in TiesUp)

Lost(s, c) ==
    Hundredths(Weights[c] * (1000 - s[c]), <<"lost", c, s[c]>> \in TiesUp)

MaxContribution(c) == 100 * Weights[c]

\* A column of the breakdown, and its sum over the eight rows.
Won(s)    == [c \in Categories |-> Contribution(s, c)]
Losses(s) == [c \in Categories |-> Lost(s, c)]

Total(col) ==
    col["accessibility"] + col["usability"] + col["gigw"] + col["design"]
    + col["performance"] + col["responsiveness"] + col["content"] + col["trust"]

\* The site with one category mended.
Mended(s, c) == [s EXCEPT ![c] = 1000]
===============================================================================
