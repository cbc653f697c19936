----------------------------- MODULE CacheAside -----------------------------
(***************************************************************************)
(* The read-through cache of services/cache.py, its readers (rankings,     *)
(* domain lists, reports) and the writes that invalidate it (worker,       *)
(* review, domain registration and verification).                          *)
(*                                                                         *)
(* Every Redis call and every statement is a step of its own: between two  *)
(* of them other requests read, fill and invalidate, Redis may refuse, and *)
(* time passes.  Keys do not interact, so the module follows one of them,  *)
(* with all that touches it; a value is the version of what it shows.      *)
(* Timers count down in ticks; the 0.8 s a waiter polls is less than one.  *)
(***************************************************************************)
EXTENDS Integers, Sequences

CONSTANTS
    Readers,        \* concurrent read requests
    Writers,        \* concurrent writing requests and workers
    Keys,           \* the keys looked at, one per behaviour
    Ttls,           \* values of the setting cache_ttl_seconds, in ticks
    MaxTtl,         \* the largest of them
    LockTtl,        \* lock_ttl, in ticks
    MaxFill,        \* bound: ticks a request takes from its read to its store
    MaxWrites       \* bound: commits that change the key

AllKeys == {"national", "rankings", "ministries", "states", "domains", "report"}

ASSUME CacheAssumption ==
    /\ Keys \subseteq AllKeys
    /\ Ttls \subseteq Nat
    /\ MaxTtl \in Nat \ {0}
    /\ \A t \in Ttls : t <= MaxTtl
    /\ LockTtl \in Nat \ {0}
    /\ MaxFill \in Nat \ {0}
    /\ MaxWrites \in Nat

VARIABLES
    shown,          \* the key
    age,            \* ticks since each version of its value was committed
    entry,          \* the cached value: version, ticks left, passed by
    lock,           \* ticks left of the single-flight lock, 0 if free
    pc, val,        \* each read request: its place, the version it has read
    held,           \* ticks since it read that version
    passed,         \* history: a newer version was invalidated meanwhile
    todo,           \* what each writer still has to delete
    wrote,          \* the version each writer committed
    answer,         \* the version last given to a reader
    settled,        \* history: latest version whose invalidation succeeded
    slipped         \* history: the lock failed a fill that still runs

dbVars     == <<shown, age, wrote>>
readerVars == <<pc, val, held, passed, answer>>
cacheVars  == <<shown, age, entry, lock, pc, val, held, passed, todo, wrote,
                answer, settled, slipped>>

Unread  == -1
Empty   == [ver |-> 0, left |-> 0, passed |-> FALSE]
Horizon == MaxTtl + MaxFill

\* What changes the value of a key, and what then deletes it.
Kinds == {"complete", "review", "register", "verify"}

Changes(kind) ==
    CASE kind = "complete" -> AllKeys
      [] kind = "review"   -> {"report"}
      [] kind = "register" -> {"national", "domains"}
      [] kind = "verify"   -> {"domains"}

\* invalidate_prefix matches the lock of a key too: its name begins with the
\* name of the key.  invalidate deletes the key alone.
Deletes(kind) ==
    CASE kind = "complete" -> (AllKeys \ {"report"}) \X {"entry", "lock"}
      [] kind = "review"   -> {<<"report", "entry">>}
      [] OTHER             -> {<<"domains", "entry">>}

DeletesOfShown(kind) == {x \in {"entry", "lock"} : <<shown, x>> \in Deletes(kind)}

Current == Len(age)

\* Ticks since version v was overwritten; 0 for the current version.
LateBy(v) == IF v < Current THEN age[v + 1] ELSE 0

Older(n) == IF n < Horizon THEN n + 1 ELSE n

Cached == entry.left > 0

InFlight == {"get", "lock", "wait", "produce", "store", "unlock"}
Fillers  == {r \in Readers : pc[r] \in {"produce", "store", "unlock"}}

CacheTypeOK ==
    /\ shown \in Keys
    /\ age \in Seq(0..Horizon)
    /\ entry \in [ver : Nat, left : 0..MaxTtl, passed : BOOLEAN]
    /\ lock \in 0..LockTtl
    /\ pc \in [Readers -> InFlight \cup {"idle"}]
    /\ val \in [Readers -> Nat \cup {Unread}]
    /\ held \in [Readers -> 0..MaxFill]
    /\ passed \in [Readers -> BOOLEAN]
    /\ todo \in [Writers -> SUBSET {"entry", "lock"}]
    /\ wrote \in [Writers -> Nat]
    /\ answer \in Nat
    /\ settled \in Nat
    /\ slipped \in BOOLEAN

CacheInit ==
    /\ shown \in Keys
    /\ age = <<>>
    /\ entry = Empty
    /\ lock = 0
    /\ pc = [r \in Readers |-> "idle"]
    /\ val = [r \in Readers |-> Unread]
    /\ held = [r \in Readers |-> 0]
    /\ passed = [r \in Readers |-> FALSE]
    /\ todo = [w \in Writers |-> {}]
    /\ wrote = [w \in Writers |-> 0]
    /\ answer = 0
    /\ settled = 0
    /\ slipped = FALSE

-------------------------------------------------------------------------------
Goto(r, place) == pc' = [pc EXCEPT ![r] = place]

\* The request is over, with or without a value.
Finish(r) ==
    /\ Goto(r, "idle")
    /\ val' = [val EXCEPT ![r] = Unread]
    /\ held' = [held EXCEPT ![r] = 0]
    /\ passed' = [passed EXCEPT ![r] = FALSE]

Reply(r, v) == Finish(r) /\ answer' = v

\* The producer reads the database now, except that a report is built from
\* the row of audits that _owned_audit read before the cache was asked.
Snapshot(r) == IF val[r] = Unread THEN Current ELSE val[r]

\* A request arrives and, for a report, loads its row.
Ask(r) ==
    /\ pc[r] = "idle"
    /\ Goto(r, "get")
    /\ val' = [val EXCEPT ![r] = IF shown = "report" THEN Current ELSE Unread]
    /\ UNCHANGED <<dbVars, entry, lock, held, passed, todo, answer, settled, slipped>>

\* Variant: a hit renews the ttl.
HitRenews(r) ==
    /\ pc[r] \in {"get", "wait"}
    /\ Cached
    /\ Reply(r, entry.ver)
    /\ entry' = [entry EXCEPT !.left = MaxTtl]
    /\ UNCHANGED <<dbVars, lock, todo, settled, slipped>>

\* GET: a hit is the answer.
Hit(r) ==
    /\ pc[r] \in {"get", "wait"}
    /\ Cached
    /\ Reply(r, entry.ver)
    /\ UNCHANGED <<dbVars, entry, lock, todo, settled, slipped>>

Miss(r) ==
    /\ pc[r] = "get"
    /\ ~Cached
    /\ Goto(r, "lock")
    /\ UNCHANGED <<dbVars, entry, lock, val, held, passed, todo, answer, settled, slipped>>

\* Variant: a waiter polls until the value is there.
FallBackOnErrorOnly(r) ==
    /\ pc[r] = "get"
    /\ Reply(r, Snapshot(r)) \/ (Finish(r) /\ UNCHANGED answer)
    /\ UNCHANGED <<dbVars, entry, lock, todo, settled, slipped>>

\* GET raises, the 0.8 s are over or a poll raises: the caller reads for
\* itself; its read may fail too.
FallBack(r) ==
    /\ pc[r] \in {"get", "wait"}
    /\ Reply(r, Snapshot(r)) \/ (Finish(r) /\ UNCHANGED answer)
    /\ UNCHANGED <<dbVars, entry, lock, todo, settled, slipped>>

\* Variant: SET without NX.
TakeLockAnyway(r) ==
    /\ pc[r] = "lock"
    /\ lock' = LockTtl
    /\ Goto(r, "produce")
    /\ UNCHANGED <<dbVars, entry, val, held, passed, todo, answer, settled, slipped>>

\* SET NX EX.
TakeLock(r) ==
    /\ pc[r] = "lock"
    /\ lock = 0
    /\ lock' = LockTtl
    /\ Goto(r, "produce")
    /\ UNCHANGED <<dbVars, entry, val, held, passed, todo, answer, settled, slipped>>

LockTaken(r) ==
    /\ pc[r] = "lock"
    /\ lock > 0
    /\ Goto(r, "wait")
    /\ UNCHANGED <<dbVars, entry, lock, val, held, passed, todo, answer, settled, slipped>>

\* SET raises: the caller fills without the lock.
LockRaises(r) ==
    /\ pc[r] = "lock"
    /\ Goto(r, "produce")
    /\ slipped' = TRUE
    /\ UNCHANGED <<dbVars, entry, lock, val, held, passed, todo, answer, settled>>

Produce(r) ==
    /\ pc[r] = "produce"
    /\ val' = [val EXCEPT ![r] = Snapshot(r)]
    /\ Goto(r, "store")
    /\ UNCHANGED <<dbVars, entry, lock, held, passed, todo, answer, settled, slipped>>

\* Variant: the error of the producer is swallowed and its result stored.
ProducerSwallowed(r) ==
    /\ pc[r] = "produce"
    /\ Goto(r, "store")
    /\ val' = [val EXCEPT ![r] = Unread]
    /\ UNCHANGED <<dbVars, entry, lock, held, passed, todo, answer, settled, slipped>>

\* The database raises: the finally block, then the error.
ProducerRaises(r) ==
    /\ pc[r] = "produce"
    /\ Goto(r, "unlock")
    /\ val' = [val EXCEPT ![r] = Unread]
    /\ UNCHANGED <<dbVars, entry, lock, held, passed, todo, answer, settled, slipped>>

\* SETEX with the ttl the setting has; 0 is an error.
Store(r) ==
    /\ pc[r] = "store"
    /\ \E t \in Ttls \ {0} : entry' = [ver |-> val[r], left |-> t, passed |-> passed[r]]
    /\ Goto(r, "unlock")
    /\ UNCHANGED <<dbVars, lock, val, held, passed, todo, answer, settled, slipped>>

\* Errors of SETEX are swallowed.
StoreRaises(r) ==
    /\ pc[r] = "store"
    /\ Goto(r, "unlock")
    /\ UNCHANGED <<dbVars, entry, lock, val, held, passed, todo, answer, settled, slipped>>

\* Once no fill is left the lock has nothing to answer for.
FillEnds(r) == slipped' = (slipped /\ Fillers \ {r} # {})

\* finally: DEL of the lock, whoever holds it by now.  When a fill still runs
\* the lock was that one's.
Unlock(r) ==
    /\ pc[r] = "unlock"
    /\ lock' = 0
    /\ IF val[r] = Unread THEN Finish(r) /\ UNCHANGED answer ELSE Reply(r, val[r])
    /\ slipped' = (Fillers \ {r} # {})
    /\ UNCHANGED <<dbVars, entry, todo, settled>>

UnlockRaises(r) ==
    /\ pc[r] = "unlock"
    /\ IF val[r] = Unread THEN Finish(r) /\ UNCHANGED answer ELSE Reply(r, val[r])
    /\ FillEnds(r)
    /\ UNCHANGED <<dbVars, entry, lock, todo, settled>>

\* The API process is killed: the lock stays until it expires.
ReaderDies(r) ==
    /\ pc[r] # "idle"
    /\ Finish(r)
    /\ FillEnds(r)
    /\ UNCHANGED <<dbVars, entry, lock, todo, answer, settled>>

-------------------------------------------------------------------------------
\* A transaction commits; the deletions follow.
CommitWrite(w, kind) ==
    /\ todo[w] = {}
    /\ shown \in Changes(kind)
    /\ Current < MaxWrites
    /\ age' = Append(age, 0)
    /\ wrote' = [wrote EXCEPT ![w] = Current + 1]
    /\ todo' = [todo EXCEPT ![w] = DeletesOfShown(kind)]
    /\ UNCHANGED <<shown, entry, lock, readerVars, settled, slipped>>

\* Variant: a value that is just being refilled is left alone.
DeleteUnlessLocked(w) ==
    /\ "entry" \in todo[w]
    /\ todo' = [todo EXCEPT ![w] = @ \ {"entry"}]
    /\ entry' = IF lock = 0 THEN Empty ELSE entry
    /\ settled' = IF settled < wrote[w] THEN wrote[w] ELSE settled
    /\ passed' = [r \in Readers |->
                     passed[r] \/ (val[r] # Unread /\ val[r] < wrote[w])]
    /\ UNCHANGED <<dbVars, lock, pc, val, held, answer, slipped>>

\* DEL of the cached value.
DeleteEntry(w) ==
    /\ "entry" \in todo[w]
    /\ todo' = [todo EXCEPT ![w] = @ \ {"entry"}]
    /\ entry' = Empty
    /\ settled' = IF settled < wrote[w] THEN wrote[w] ELSE settled
    /\ passed' = [r \in Readers |->
                     passed[r] \/ (val[r] # Unread /\ val[r] < wrote[w])]
    /\ UNCHANGED <<dbVars, lock, pc, val, held, answer, slipped>>

\* DEL of the lock, which the prefix matched.
DeleteLock(w) ==
    /\ "lock" \in todo[w]
    /\ todo' = [todo EXCEPT ![w] = @ \ {"lock"}]
    /\ lock' = 0
    /\ slipped' = (Fillers # {})
    /\ UNCHANGED <<dbVars, entry, readerVars, settled>>

\* SCAN or DEL raises, which is swallowed, or the process is killed.
DeleteFails(w) ==
    /\ \E x \in todo[w] : todo' = [todo EXCEPT ![w] = @ \ {x}]
    /\ UNCHANGED <<dbVars, entry, lock, readerVars, settled, slipped>>

\* A tick: Redis expires the entry and the lock.
Tick ==
    /\ \A r \in Readers : val[r] # Unread => held[r] < MaxFill
    /\ age' = [v \in 1..Len(age) |-> Older(age[v])]
    /\ entry' = IF entry.left <= 1 THEN Empty ELSE [entry EXCEPT !.left = @ - 1]
    /\ lock' = IF lock > 0 THEN lock - 1 ELSE 0
    /\ slipped' = (slipped \/ (lock = 1 /\ Fillers # {}))
    /\ held' = [r \in Readers |-> IF val[r] = Unread THEN 0 ELSE held[r] + 1]
    /\ UNCHANGED <<shown, pc, val, passed, todo, wrote, answer, settled>>

-------------------------------------------------------------------------------
\* get_or_set, call by call.
GetOrSet(r) ==
    \/ Hit(r) \/ Miss(r) \/ FallBack(r)
    \/ TakeLock(r) \/ LockTaken(r) \/ LockRaises(r)
    \/ Produce(r) \/ ProducerRaises(r)
    \/ Store(r) \/ StoreRaises(r) \/ Unlock(r) \/ UnlockRaises(r)

CacheNext ==
    \/ \E r \in Readers : Ask(r) \/ GetOrSet(r) \/ ReaderDies(r)
    \/ \E w \in Writers, kind \in Kinds : CommitWrite(w, kind)
    \/ \E w \in Writers : DeleteEntry(w) \/ DeleteLock(w) \/ DeleteFails(w)
    \/ Tick

CacheSpec == CacheInit /\ [][CacheNext]_cacheVars

\* A request in flight runs on: its Redis calls, polls and statements return.
FairCacheSpec == CacheSpec /\ \A r \in Readers : WF_cacheVars(GetOrSet(r))

-------------------------------------------------------------------------------
\* A cached value misses an invalidated write only when the request that
\* stored it had read the database before the invalidation and outlived it.
HitsSeeSettledWrites == Cached /\ ~entry.passed => entry.ver >= settled

\* One request at a time fills the key, as long as no fill outlived the lock,
\* no other fill or prefix invalidation deleted it, and SET answered.
SingleFlight == ~slipped => \A r, q \in Fillers : r = q

\* Whatever is lost, late or killed, what a read returns was current less than
\* the ttl and the time of a fill ago: the promise of DATA_ACCESS.md.
BR == INSTANCE BoundedReads WITH Bound <- Horizon
ReadsAreRecent == BR!Promise

\* A request is answered or fails; a filler that died keeps nobody waiting.
ReadsEnd == \A r \in Readers : pc[r] # "idle" ~> pc[r] = "idle"
===============================================================================
