---------------------------- MODULE MCCacheAside ----------------------------
(***************************************************************************)
(* A small instance of CacheAside for TLC.                                 *)
(***************************************************************************)
EXTENDS CacheAside, TLC
===============================================================================
