---------------------------- MODULE MCPublicScan ----------------------------
(***************************************************************************)
(* A small instance of PublicScan for TLC.                                 *)
(***************************************************************************)
EXTENDS PublicScan, TLC
===============================================================================
