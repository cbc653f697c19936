---------------------------- MODULE MCStudioRun -----------------------------
(***************************************************************************)
(* A small instance of StudioRun for TLC.                                  *)
(***************************************************************************)
EXTENDS StudioRun, TLC

\* Requests of publish are interchangeable.
MCSymmetry == Permutations(Publishers)
===============================================================================
