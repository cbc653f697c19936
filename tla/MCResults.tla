------------------------------ MODULE MCResults ------------------------------
(***************************************************************************)
(* A small instance of EngineRun and AuditVerdict for TLC.  The two share  *)
(* no variable, so a behaviour follows one of them and leaves the other    *)
(* where it began.                                                         *)
(***************************************************************************)
EXTENDS AuditVerdict, EngineRun, TLC

ResultsInit == Init /\ EngineInit

ResultsNext ==
    \/ EngineInit /\ caller = "worker" /\ Next /\ UNCHANGED engineVars
    \/ Init /\ EngineNext /\ UNCHANGED vars

ResultsSpec == ResultsInit /\ [][ResultsNext]_<<vars, engineVars>>

-------------------------------------------------------------------------------
(***************************************************************************)
(* AuditVerdict: vectors at the thresholds, and a tie of the rounding      *)
(***************************************************************************)
All(n) == [c \in Categories |-> n]
Vec(a11y, rest) == [All(rest) EXCEPT !["accessibility"] = a11y]
Crawl(s, n) == [scores |-> s, criticals |-> n, gaming |-> FALSE, reachable |-> TRUE]

\* Half way between 89.9 and 90.0, the border of A and B.
Tie == [Vec(900, 899) EXCEPT !["trust"] = 900, !["design"] = 901]

MCRoundedUp == {Tie}

\* One that meets the ties of the breakdown's roundings.
Mixed == [c \in Categories |->
    CASE c = "accessibility"                   -> 550
      [] c \in {"usability", "performance"}     -> 5
      [] c \in {"gigw", "design", "content"}    -> 455
      [] c \in {"responsiveness", "trust"}      -> 899]

\* Nowhere above that one, with the guard-rail.
Low == [Vec(499, 300) EXCEPT !["usability"] = 5, !["performance"] = 5]

MCPrevious  == {NoScore, 500}
MCOutcomes  == {
    Crawl(All(1000), 0),
    Crawl(Tie, 0),
    Crawl([Vec(899, 950) EXCEPT !["trust"] = 499], 0),
    Crawl(Low, 0),
    Crawl(Mixed, 1),
    [Crawl(All(950), 0) EXCEPT !.gaming = TRUE],
    [Nothing EXCEPT !.scores = All(600)] }

\* Some of the roundings' ties go up.
MCTiesUp == {"contribution"} \X Categories \X {455}
            \cup {"lost"} \X {"gigw", "trust"} \X {5, 899}

\* Of three deliveries that overlap, one another or a review, those are followed that
\* hold a sound result or one with a critical finding.
MCOverlaps ==
    overlapped /\ calls > 2 =>
        \A w \in Workers : got[w] \in {Nothing, Crawl(Tie, 0), Crawl(Mixed, 1)}

MCSymmetry == Permutations(Workers) \cup Permutations(Reviewers)

-------------------------------------------------------------------------------
(***************************************************************************)
(* EngineRun                                                               *)
(***************************************************************************)
\* A sound page.
Sound == [axe |-> TRUE, critical |-> {}, serious |-> 1, moderate |-> 0,
          minor |-> 1, unrated |-> 0, gigw |-> 16, readability |-> 55,
          https |-> TRUE, headers |-> Headers, tracking |-> 1,
          unannounced |-> FALSE, overflows |-> {}, small |-> 10,
          landmarks |-> Landmarks, labelled |-> 80]

\* A critical failure, and much else.
Broken == [Sound EXCEPT !.critical = Rules, !.serious = 20, !.gigw = 9,
                        !.headers = {"referrer-policy"}, !.tracking = 4,
                        !.unannounced = TRUE, !.overflows = {360}]

\* axe raises.
Raised == [Sound EXCEPT !.axe = FALSE, !.gigw = 10, !.readability = 0]

\* The bare refusal of a firewall, which scores nothing for its elements and its
\* trust.
Bare == [axe |-> TRUE, critical |-> {}, serious |-> 0, moderate |-> 2,
         minor |-> 0, unrated |-> 1, gigw |-> 0, readability |-> 70,
         https |-> FALSE, headers |-> {}, tracking |-> 0,
         unannounced |-> FALSE, overflows |-> {}, small |-> 0,
         landmarks |-> {}, labelled |-> 100]

MCPages == {Sound, Broken, Raised, Bare}

\* Of what the resized home page may give, what every page gives if all its
\* widths load, and what a page without content gives, are followed further.
MCFits ==
    {[usability |-> Usability(p.landmarks, p.labelled),
      responsiveness |-> Responsiveness(Widths \ p.overflows, p.small)] : p \in Pages}
    \cup {[usability |-> Usability({}, 100), responsiveness |-> Responsiveness({}, 0)]}

MCResized == pc \in {"home", "resize", "died"} \/ fit \in MCFits

\* A screenshot without any quality; field data that ties with the lab.
MCVision == {0}
MCField  == {5, 1000}
===============================================================================
