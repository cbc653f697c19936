----------------------------- MODULE MCAuditQueue -----------------------------
(***************************************************************************)
(* A small instance of AuditQueue for TLC: two workers, two jobs and a     *)
(* reclaim batch of two, so that one worker can hold a claimed job it has  *)
(* not started while the other claims it again.                            *)
(***************************************************************************)
EXTENDS AuditQueue
===============================================================================
