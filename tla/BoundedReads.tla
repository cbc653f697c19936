---------------------------- MODULE BoundedReads ----------------------------
(***************************************************************************)
(* What platform/docs/DATA_ACCESS.md promises of a read that goes through  *)
(* the cache: it may return an old value, and how old is bounded ("accept  *)
(* staleness bounded by the TTL").                                         *)
(***************************************************************************)
EXTENDS Naturals, Sequences

CONSTANTS
    Horizon,    \* ages are not told apart from here on
    Bound       \* what is returned was current less than this ago

VARIABLES
    age,        \* how long ago each version was committed
    answer      \* the version last given to a reader

\* Time since version v was overwritten; 0 for the current version.
LateBy(v) == IF v < Len(age) THEN age[v + 1] ELSE 0

Older(n) == IF n < Horizon THEN n + 1 ELSE n

Commit == age' = Append(age, 0) /\ UNCHANGED answer

TimePasses ==
    age' = [v \in 1..Len(age) |-> Older(age[v])] /\ UNCHANGED answer

Return(v) == LateBy(v) < Bound /\ answer' = v /\ UNCHANGED age

PromiseInit == age = <<>> /\ answer = 0

PromiseNext == Commit \/ TimePasses \/ \E v \in 0..Len(age) : Return(v)

Promise == PromiseInit /\ [][PromiseNext]_<<age, answer>>
===============================================================================
