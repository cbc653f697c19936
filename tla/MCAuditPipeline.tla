--------------------------- MODULE MCAuditPipeline ---------------------------
(***************************************************************************)
(* Small instances of AuditPipeline for TLC.                               *)
(***************************************************************************)
EXTENDS AuditPipeline, TLC

\* Clients are interchangeable.
ClientSymmetry == Permutations(Clients)

\* Scores, verdicts, results and the count of attempts decide neither what is
\* enabled nor a status: a run whose properties only type them may take two
\* states that differ only there for one.
SubmissionView ==
    <<redisVars, workerVars, returned, used, domainOf, origin, status, ended,
      requestVars, stage, [w \in Workers |-> loaded[w].status]>>
===============================================================================
