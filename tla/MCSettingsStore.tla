-------------------------- MODULE MCSettingsStore ---------------------------
(***************************************************************************)
(* A small instance of SettingsStore for TLC.                              *)
(***************************************************************************)
EXTENDS SettingsStore, TLC
===============================================================================
