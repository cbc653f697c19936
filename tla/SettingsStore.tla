--------------------------- MODULE SettingsStore ----------------------------
(***************************************************************************)
(* The runtime settings of services/settings_store.py: the table           *)
(* app_settings, the Redis hash that caches all of it, the readers of      *)
(* _cached and the writes of set_value, as update_config of                *)
(* routers/admin_config.py makes them, key by key.                         *)
(*                                                                         *)
(* A version stands for the whole table, since a reader loads and stores   *)
(* all of it; version 0 is the empty table, which is never cached.  HSET   *)
(* and EXPIRE are two calls.  HSET leaves the ttl of an existing hash      *)
(* alone and gives a new one none.                                         *)
(***************************************************************************)
EXTENDS Integers, Sequences

CONSTANTS
    Readers,        \* concurrent calls of _cached
    Writers,        \* concurrent requests of update_config
    Ttl,            \* CACHE_TTL, in ticks
    MaxFill,        \* bound: ticks a call takes from its load to its end
    MaxWrites       \* bound: values written

ASSUME SettingsAssumption ==
    /\ Ttl \in Nat \ {0}
    /\ MaxFill \in Nat \ {0}
    /\ MaxWrites \in Nat

VARIABLES
    age,            \* ticks since each version of the table was committed
    hash,           \* govux:settings: version, ticks left
    pc, val,        \* each reader: its place, the version it has loaded
    held,           \* ticks since it loaded it
    updates,        \* values a request still has to write
    deleting,       \* requests that committed a value and have not deleted
    answer,         \* the version last given to a reader
    lost            \* history: the hash never got the ttl meant for it

settingsVars == <<age, hash, pc, val, held, updates, deleting, answer, lost>>

Unread  == -1
Horizon == Ttl + 2 * MaxFill
Forever == Ttl + 1          \* a hash without a ttl
NoHash  == [ver |-> 0, left |-> 0]

Current == Len(age)

\* Ticks since version v was overwritten; 0 for the current version.
LateBy(v) == IF v < Current THEN age[v + 1] ELSE 0

Older(n) == IF n < Horizon THEN n + 1 ELSE n

SettingsTypeOK ==
    /\ age \in Seq(0..Horizon)
    /\ hash \in [ver : Nat, left : 0..Forever]
    /\ pc \in [Readers -> {"idle", "get", "load", "hset", "expire"}]
    /\ val \in [Readers -> Nat \cup {Unread}]
    /\ held \in [Readers -> 0..MaxFill]
    /\ updates \in [Writers -> Nat]
    /\ deleting \subseteq Writers
    /\ answer \in Nat
    /\ lost \in BOOLEAN

SettingsInit ==
    /\ age = <<>>
    /\ hash = NoHash
    /\ pc = [r \in Readers |-> "idle"]
    /\ val = [r \in Readers |-> Unread]
    /\ held = [r \in Readers |-> 0]
    /\ updates = [w \in Writers |-> 0]
    /\ deleting = {}
    /\ answer = 0
    /\ lost = FALSE

-------------------------------------------------------------------------------
Goto(r, place) == pc' = [pc EXCEPT ![r] = place]

Finish(r) ==
    /\ Goto(r, "idle")
    /\ val' = [val EXCEPT ![r] = Unread]
    /\ held' = [held EXCEPT ![r] = 0]

\* raw, get_int, get_bool and get_str pick a key of what _cached returns.
Reply(r, v) == Finish(r) /\ answer' = v

Read(r) ==
    /\ pc[r] = "idle"
    /\ Goto(r, "get")
    /\ UNCHANGED <<age, hash, val, held, updates, deleting, answer, lost>>

\* Variant: a hit renews the ttl.
HitRenews(r) ==
    /\ pc[r] = "get"
    /\ hash.left > 0
    /\ Reply(r, hash.ver)
    /\ hash' = [hash EXCEPT !.left = Ttl]
    /\ UNCHANGED <<age, updates, deleting, lost>>

\* HGETALL: what is not empty is the answer.
Hit(r) ==
    /\ pc[r] = "get"
    /\ hash.left > 0
    /\ Reply(r, hash.ver)
    /\ UNCHANGED <<age, hash, updates, deleting, lost>>

\* HGETALL finds nothing, or raises.
Miss(r) ==
    /\ pc[r] = "get"
    /\ Goto(r, "load")
    /\ UNCHANGED <<age, hash, val, held, updates, deleting, answer, lost>>

\* _load_from_db; an empty table is returned at once.
Load(r) ==
    /\ pc[r] = "load"
    /\ IF Current = 0
       THEN Reply(r, 0)
       ELSE /\ Goto(r, "hset")
            /\ val' = [val EXCEPT ![r] = Current]
            /\ UNCHANGED <<held, answer>>
    /\ UNCHANGED <<age, hash, updates, deleting, lost>>

\* The database raises.
LoadRaises(r) ==
    /\ pc[r] = "load"
    /\ Finish(r)
    /\ UNCHANGED <<age, hash, updates, deleting, answer, lost>>

\* HSET: an existing hash keeps its ttl.
HSet(r) ==
    /\ pc[r] = "hset"
    /\ hash' = [ver |-> val[r], left |-> IF hash.left = 0 THEN Forever ELSE hash.left]
    /\ Goto(r, "expire")
    /\ UNCHANGED <<age, val, held, updates, deleting, answer, lost>>

\* Errors are swallowed.
HSetRaises(r) ==
    /\ pc[r] = "hset"
    /\ Reply(r, val[r])
    /\ UNCHANGED <<age, hash, updates, deleting, lost>>

\* EXPIRE does nothing to a hash that was deleted meanwhile.
Expire(r) ==
    /\ pc[r] = "expire"
    /\ hash' = IF hash.left = 0 THEN hash ELSE [hash EXCEPT !.left = Ttl]
    /\ Reply(r, val[r])
    /\ lost' = FALSE
    /\ UNCHANGED <<age, updates, deleting>>

\* EXPIRE raises, or is lost.
ExpireRaises(r) ==
    /\ pc[r] = "expire"
    /\ Reply(r, val[r])
    /\ lost' = (hash.left = Forever)
    /\ UNCHANGED <<age, hash, updates, deleting>>

\* The process is killed.
ReaderDies(r) ==
    /\ pc[r] # "idle"
    /\ Finish(r)
    /\ lost' = (lost \/ (pc[r] = "expire" /\ hash.left = Forever))
    /\ UNCHANGED <<age, hash, updates, deleting, answer>>

-------------------------------------------------------------------------------
\* PATCH of n values that pass _coerce; the others are rejected.
Patch(w, n) ==
    /\ updates[w] = 0
    /\ w \notin deleting
    /\ Current + n <= MaxWrites
    /\ updates' = [updates EXCEPT ![w] = n]
    /\ UNCHANGED <<age, hash, pc, val, held, deleting, answer, lost>>

\* set_value: merge and commit.
SetValue(w) ==
    /\ updates[w] > 0
    /\ w \notin deleting
    /\ Current < MaxWrites
    /\ age' = Append(age, 0)
    /\ updates' = [updates EXCEPT ![w] = @ - 1]
    /\ deleting' = deleting \cup {w}
    /\ UNCHANGED <<hash, pc, val, held, answer, lost>>

\* set_value: DEL.
Invalidate(w) ==
    /\ w \in deleting
    /\ hash' = NoHash
    /\ deleting' = deleting \ {w}
    /\ lost' = FALSE
    /\ UNCHANGED <<age, pc, val, held, updates, answer>>

\* DEL raises, which is swallowed.
InvalidateRaises(w) ==
    /\ w \in deleting
    /\ deleting' = deleting \ {w}
    /\ UNCHANGED <<age, hash, pc, val, held, updates, answer, lost>>

\* The database raises or the process is killed: the values left are not
\* written, those before stay.
PatchDies(w) ==
    /\ updates[w] > 0 \/ w \in deleting
    /\ updates' = [updates EXCEPT ![w] = 0]
    /\ deleting' = deleting \ {w}
    /\ UNCHANGED <<age, hash, pc, val, held, answer, lost>>

\* A tick: Redis expires the hash.
Tick ==
    /\ \A r \in Readers : val[r] # Unread => held[r] < MaxFill
    /\ age' = [v \in 1..Len(age) |-> Older(age[v])]
    /\ hash' = CASE hash.left = Forever -> hash
                 [] hash.left <= 1      -> NoHash
                 [] OTHER               -> [hash EXCEPT !.left = @ - 1]
    /\ held' = [r \in Readers |-> IF val[r] = Unread THEN 0 ELSE held[r] + 1]
    /\ UNCHANGED <<pc, val, updates, deleting, answer, lost>>

-------------------------------------------------------------------------------
\* _cached, call by call.
Get(r) ==
    \/ Hit(r) \/ Miss(r) \/ Load(r) \/ LoadRaises(r)
    \/ HSet(r) \/ HSetRaises(r) \/ Expire(r) \/ ExpireRaises(r)

SettingsNext ==
    \/ \E r \in Readers : Read(r) \/ Get(r) \/ ReaderDies(r)
    \/ \E w \in Writers, n \in 1..MaxWrites : Patch(w, n)
    \/ \E w \in Writers :
          SetValue(w) \/ Invalidate(w) \/ InvalidateRaises(w) \/ PatchDies(w)
    \/ Tick

SettingsSpec == SettingsInit /\ [][SettingsNext]_settingsVars

\* Time passes, and a call in flight runs on.
FairSettingsSpec ==
    /\ SettingsSpec
    /\ WF_settingsVars(Tick)
    /\ \A r \in Readers : WF_settingsVars(Get(r))

-------------------------------------------------------------------------------
\* What the settings cache holds was in the table less than the ttl and twice
\* the time of a call ago, unless an EXPIRE was lost: raced by set_value or not,
\* with its DEL lost or not.  Twice, because the EXPIRE of one call may renew
\* the older snapshot that another one stored over its own.
SettingsAreRecent == hash.left > 0 /\ ~lost => LateBy(hash.ver) < Horizon

\* The last committed value takes effect: in the end the cache is empty or up
\* to date for good, or it holds a hash whose EXPIRE was lost.
ChangesTakeEffect == <>[](hash.left > 0 => lost \/ hash.ver = Current)
===============================================================================
