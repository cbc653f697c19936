--------------------------- MODULE CacheAsideProofs ---------------------------
(***************************************************************************)
(* Proofs about CacheAside, for any number of readers, writers and writes  *)
(* and any times: its types, the single flight, what hits see, and that    *)
(* whatever the cache does its reads keep the promise of BoundedReads.     *)
(***************************************************************************)
EXTENDS CacheAside, SequenceTheorems, TLAPS

-------------------------------------------------------------------------------
(***************************************************************************)
(* The inductive invariant                                                 *)
(***************************************************************************)

\* Every version somebody holds was committed.
VersionsExist ==
    /\ entry.ver <= Current /\ answer <= Current /\ settled <= Current
    /\ \A r \in Readers : val[r] <= Current
    /\ \A w \in Writers : wrote[w] <= Current

StoresRead == \A r \in Readers : pc[r] = "store" => val[r] # Unread

\* What a request has read was current when it read it.
FillsAreRecent ==
    \A r \in Readers : val[r] # Unread => LateBy(val[r]) <= held[r]

\* The older a cached value, the less time it has left.
EntryIsRecent == Cached => LateBy(entry.ver) + entry.left <= Horizon

\* A request misses an invalidated write only if the invalidation passed it by.
FillsSeeSettled ==
    \A r \in Readers : val[r] # Unread /\ ~passed[r] => val[r] >= settled

LockCovers == ~slipped /\ Fillers # {} => lock > 0

CacheInv ==
    /\ CacheTypeOK /\ VersionsExist /\ StoresRead
    /\ FillsAreRecent /\ EntryIsRecent
    /\ FillsSeeSettled /\ HitsSeeSettledWrites
    /\ LockCovers /\ SingleFlight

-------------------------------------------------------------------------------
(***************************************************************************)
(* Sequences of ages                                                       *)
(***************************************************************************)

LEMMA HorizonNat == Horizon \in Nat /\ MaxFill < Horizon /\ MaxFill \in Nat
                    /\ MaxTtl \in Nat /\ LockTtl \in Nat
BY CacheAssumption DEF Horizon

\* A commit appends an age and leaves the others.
LEMMA AgesGrow ==
    ASSUME NEW s \in Seq(0..Horizon)
    PROVE  /\ Append(s, 0) \in Seq(0..Horizon)
           /\ Len(Append(s, 0)) = Len(s) + 1
           /\ \A i \in 1..Len(s) : Append(s, 0)[i] = s[i]
           /\ Append(s, 0)[Len(s) + 1] = 0
           /\ Len(s) \in Nat
BY HorizonNat, AppendProperties, LenProperties

\* A tick adds at most one to each age.
LEMMA AgesAge ==
    ASSUME NEW s \in Seq(0..Horizon), NEW t, t = [v \in 1..Len(s) |-> Older(s[v])]
    PROVE  /\ t \in Seq(0..Horizon)
           /\ Len(t) = Len(s)
           /\ \A i \in 1..Len(s) : t[i] <= s[i] + 1
<1>1. /\ Len(s) \in Nat
      /\ \A i \in 1..Len(s) : s[i] \in 0..Horizon
      BY LenProperties, ElementOfSeq
<1>2. \A i \in 1..Len(s) : Older(s[i]) \in 0..Horizon /\ Older(s[i]) <= s[i] + 1
      BY <1>1, HorizonNat DEF Older
<1>3. t \in [1..Len(s) -> 0..Horizon]  BY <1>2
<1>4. t \in Seq(0..Horizon) /\ Len(t) = Len(s)
      BY <1>1, <1>3, SeqDef, LenProperties
<1>5. QED  BY <1>2, <1>4

\* How late a version is.
LEMMA LateIsBounded ==
    ASSUME age \in Seq(0..Horizon), NEW v \in Nat
    PROVE  LateBy(v) \in 0..Horizon /\ Current \in Nat
<1>1. Current \in Nat  BY LenProperties DEF Current
<1>2. CASE v < Current
  <2>1. v + 1 \in 1..Len(age)  BY <1>1, <1>2 DEF Current
  <2>2. age[v + 1] \in 0..Horizon  BY <2>1, ElementOfSeq
  <2>3. QED  BY <1>1, <1>2, <2>2 DEF LateBy
<1>3. CASE ~(v < Current)  BY <1>1, <1>3, HorizonNat DEF LateBy
<1>4. QED  BY <1>2, <1>3

-------------------------------------------------------------------------------
(***************************************************************************)
(* Types                                                                   *)
(***************************************************************************)

LEMMA CacheInitTyped == CacheInit => CacheInv
<1>1. SUFFICES ASSUME CacheInit PROVE CacheInv  OBVIOUS
<1>2. CacheTypeOK
  <2>1. age \in Seq(0..Horizon)  BY <1>1, EmptySeq DEF CacheInit
  <2>2. entry \in [ver : Nat, left : 0..MaxTtl, passed : BOOLEAN]
        BY <1>1, HorizonNat DEF CacheInit, Empty
  <2>3. /\ pc \in [Readers -> InFlight \cup {"idle"}]
        /\ val \in [Readers -> Nat \cup {Unread}]
        BY <1>1 DEF CacheInit
  <2>4. held \in [Readers -> 0..MaxFill] /\ passed \in [Readers -> BOOLEAN]
        BY <1>1, HorizonNat DEF CacheInit
  <2>5. /\ todo \in [Writers -> SUBSET {"entry", "lock"}]
        /\ wrote \in [Writers -> Nat]
        BY <1>1 DEF CacheInit
  <2>8. shown \in Keys /\ lock \in 0..LockTtl
        BY <1>1, HorizonNat DEF CacheInit
  <2>6. /\ answer \in Nat /\ settled \in Nat /\ slipped \in BOOLEAN
        BY <1>1 DEF CacheInit
  <2>7. QED  BY <2>1, <2>2, <2>3, <2>4, <2>5, <2>6, <2>8 DEF CacheTypeOK
<1>3. Current = 0  BY <1>1, EmptySeq DEF CacheInit, Current
<1>4. VersionsExist /\ StoresRead /\ FillsAreRecent /\ EntryIsRecent
      BY <1>1, <1>3 DEF CacheInit, VersionsExist, StoresRead, FillsAreRecent,
         EntryIsRecent, Cached, Empty, Unread
<1>5. FillsSeeSettled /\ HitsSeeSettledWrites
      BY <1>1 DEF CacheInit, FillsSeeSettled, HitsSeeSettledWrites, Cached, Empty
<1>6. Fillers = {}  BY <1>1 DEF CacheInit, Fillers
<1>7. LockCovers /\ SingleFlight  BY <1>6 DEF LockCovers, SingleFlight
<1>8. QED  BY <1>2, <1>4, <1>5, <1>7 DEF CacheInv

LEMMA CacheStepTyped == CacheInv /\ [CacheNext]_cacheVars => CacheTypeOK'
<1> SUFFICES ASSUME CacheInv, [CacheNext]_cacheVars PROVE CacheTypeOK'
    OBVIOUS
<1> USE HorizonNat DEF CacheTypeOK, InFlight
<1>t. CacheTypeOK /\ StoresRead /\ Current \in Nat
      BY LenProperties DEF CacheInv, Current
<1>1. ASSUME NEW r \in Readers, Ask(r) PROVE CacheTypeOK'
      BY <1>t, <1>1 DEF Ask, Goto, Unread, dbVars
<1>2. ASSUME NEW r \in Readers, Hit(r) PROVE CacheTypeOK'
      BY <1>t, <1>2 DEF Hit, Goto, Finish, Reply, dbVars
<1>3. ASSUME NEW r \in Readers, Miss(r) PROVE CacheTypeOK'
      BY <1>t, <1>3 DEF Miss, Goto, dbVars
<1>4. ASSUME NEW r \in Readers, FallBack(r) PROVE CacheTypeOK'
  <2>1. Snapshot(r) \in Nat  BY <1>t DEF Snapshot, Unread
  <2>2. answer' \in Nat  BY <1>t, <1>4, <2>1 DEF FallBack, Reply
  <2>3. Finish(r)  BY <1>4 DEF FallBack, Reply
  <2>4. QED  BY <1>t, <1>4, <2>2, <2>3 DEF FallBack, Finish, Goto, dbVars
<1>5. ASSUME NEW r \in Readers, TakeLock(r) PROVE CacheTypeOK'
      BY <1>t, <1>5 DEF TakeLock, Goto, dbVars
<1>6. ASSUME NEW r \in Readers, LockTaken(r) PROVE CacheTypeOK'
      BY <1>t, <1>6 DEF LockTaken, Goto, dbVars
<1>7. ASSUME NEW r \in Readers, LockRaises(r) PROVE CacheTypeOK'
      BY <1>t, <1>7 DEF LockRaises, Goto, dbVars
<1>8. ASSUME NEW r \in Readers, Produce(r) PROVE CacheTypeOK'
      BY <1>t, <1>8 DEF Produce, Goto, Snapshot, Unread, dbVars
<1>9. ASSUME NEW r \in Readers, ProducerRaises(r) PROVE CacheTypeOK'
      BY <1>t, <1>9 DEF ProducerRaises, Goto, dbVars
<1>10. ASSUME NEW r \in Readers, Store(r) PROVE CacheTypeOK'
  <2>1. PICK t \in Ttls \ {0} :
            entry' = [ver |-> val[r], left |-> t, passed |-> passed[r]]
        BY <1>10 DEF Store
  <2>2. t \in 0..MaxTtl  BY CacheAssumption
  <2>3. val[r] \in Nat  BY <1>t, <1>10 DEF Store, StoresRead, Unread
  <2>4. entry' \in [ver : Nat, left : 0..MaxTtl, passed : BOOLEAN]
        BY <1>t, <2>1, <2>2, <2>3
  <2>5. QED  BY <1>t, <1>10, <2>4 DEF Store, Goto, dbVars
<1>11. ASSUME NEW r \in Readers, StoreRaises(r) PROVE CacheTypeOK'
      BY <1>t, <1>11 DEF StoreRaises, Goto, dbVars
<1>12. ASSUME NEW r \in Readers, Unlock(r) \/ UnlockRaises(r) \/ ReaderDies(r)
       PROVE  CacheTypeOK'
  <2>1. Finish(r) /\ UNCHANGED <<shown, age, wrote, entry, todo, settled>>
        BY <1>12 DEF Unlock, UnlockRaises, ReaderDies, Reply, dbVars
  <2>2. answer' \in Nat
        BY <1>t, <1>12 DEF Unlock, UnlockRaises, ReaderDies, Reply, Unread
  <2>3. lock' \in 0..LockTtl  BY <1>t, <1>12 DEF Unlock, UnlockRaises, ReaderDies
  <2>4. slipped' \in BOOLEAN
        BY <1>t, <1>12 DEF Unlock, UnlockRaises, ReaderDies, FillEnds
  <2>5. QED  BY <1>t, <2>1, <2>2, <2>3, <2>4 DEF Finish, Goto
<1>13. ASSUME NEW w \in Writers, NEW kind \in Kinds, CommitWrite(w, kind)
      PROVE  CacheTypeOK'
  <2>1. age' \in Seq(0..Horizon)
        BY <1>t, <1>13, AgesGrow DEF CommitWrite
  <2>2. QED  BY <1>t, <1>13, <2>1 DEF CommitWrite, DeletesOfShown, readerVars
<1>14. ASSUME NEW w \in Writers, DeleteEntry(w) PROVE CacheTypeOK'
      BY <1>t, <1>14 DEF DeleteEntry, Empty, dbVars
<1>15. ASSUME NEW w \in Writers, DeleteLock(w) PROVE CacheTypeOK'
      BY <1>t, <1>15 DEF DeleteLock, dbVars, readerVars
<1>16. ASSUME NEW w \in Writers, DeleteFails(w) PROVE CacheTypeOK'
      BY <1>t, <1>16 DEF DeleteFails, dbVars, readerVars
<1>17. CASE Tick
  <2>1. age' \in Seq(0..Horizon)  BY <1>t, <1>17, AgesAge DEF Tick
  <2>2. entry' \in [ver : Nat, left : 0..MaxTtl, passed : BOOLEAN]
    <3>1. CASE entry.left <= 1  BY <1>17, <3>1 DEF Tick, Empty
    <3>2. CASE ~(entry.left <= 1)
      <4>1. entry' = [entry EXCEPT !.left = entry.left - 1]
            BY <1>17, <3>2 DEF Tick
      <4>2. entry.left - 1 \in 0..MaxTtl  BY <1>t, <3>2
      <4>3. QED  BY <1>t, <4>1, <4>2, Zenon
    <3>3. QED  BY <3>1, <3>2
  <2>3. held' \in [Readers -> 0..MaxFill]
    <3>1. \A r \in Readers : (IF val[r] = Unread THEN 0 ELSE held[r] + 1) \in 0..MaxFill
          BY <1>t, <1>17 DEF Tick
    <3>2. QED  BY <1>17, <3>1 DEF Tick
  <2>4. lock' \in 0..LockTtl  BY <1>t, <1>17 DEF Tick
  <2>5. slipped' \in BOOLEAN  BY <1>t, <1>17 DEF Tick
  <2>6. UNCHANGED <<shown, pc, val, passed, todo, wrote, answer, settled>>
        BY <1>17 DEF Tick
  <2>7. QED  BY <1>t, <2>1, <2>2, <2>3, <2>4, <2>5, <2>6
<1>18. CASE UNCHANGED cacheVars
       BY <1>t, <1>18 DEF cacheVars
<1>19. QED
       BY <1>1, <1>2, <1>3, <1>4, <1>5, <1>6, <1>7, <1>8, <1>9, <1>10, <1>11,
          <1>12, <1>13, <1>14, <1>15, <1>16, <1>17, <1>18
       DEF CacheNext, GetOrSet

-------------------------------------------------------------------------------
(***************************************************************************)
(* Versions                                                                *)
(***************************************************************************)

LEMMA VersionsStep ==
    CacheInv /\ [CacheNext]_cacheVars => VersionsExist' /\ StoresRead'
<1> SUFFICES ASSUME CacheInv, [CacheNext]_cacheVars
             PROVE  VersionsExist' /\ StoresRead'
    OBVIOUS
<1>t. CacheTypeOK /\ VersionsExist /\ StoresRead /\ Current \in Nat
      BY LenProperties DEF CacheInv, CacheTypeOK, Current
<1>1. ASSUME NEW r \in Readers, GetOrSet(r) \/ Ask(r) \/ ReaderDies(r)
      PROVE  VersionsExist' /\ StoresRead'
  <2>1. UNCHANGED <<age, wrote, settled>> /\ Current' = Current
        BY <1>1 DEF GetOrSet, Ask, Hit, Miss, FallBack, TakeLock, LockTaken,
           LockRaises, Produce, ProducerRaises, Store, StoreRaises, Unlock,
           UnlockRaises, ReaderDies, dbVars, Current
  <2>2. Snapshot(r) <= Current  BY <1>t DEF Snapshot, VersionsExist
  <2>3. CASE Finish(r) /\ UNCHANGED <<entry>> /\ (answer' = answer \/ answer' = entry.ver
                       \/ answer' = Snapshot(r) \/ answer' = val[r])
    <3>1. \A q \in Readers : val'[q] <= Current /\ (pc'[q] = "store" => val'[q] # Unread)
          BY <1>t, <2>3 DEF Finish, Goto, VersionsExist, StoresRead, CacheTypeOK, Unread
    <3>2. answer' <= Current  BY <1>t, <2>2, <2>3 DEF VersionsExist
    <3>3. QED  BY <1>t, <2>1, <2>3, <3>1, <3>2 DEF VersionsExist, StoresRead
  <2>4. CASE Ask(r) \/ Miss(r) \/ TakeLock(r) \/ LockTaken(r) \/ LockRaises(r)
    <3>1. /\ UNCHANGED <<entry, answer>>
          /\ pc' = [pc EXCEPT ![r] = pc'[r]] /\ pc'[r] # "store"
          /\ val' = [val EXCEPT ![r] = val'[r]] /\ val'[r] <= Current
          BY <1>t, <2>4 DEF Ask, Miss, TakeLock, LockTaken, LockRaises, Goto,
             CacheTypeOK, VersionsExist, Unread
    <3>2. QED  BY <1>t, <2>1, <3>1 DEF VersionsExist, StoresRead, CacheTypeOK
  <2>5. CASE Produce(r)
    <3>1. Snapshot(r) # Unread  BY <1>t DEF Snapshot, Unread
    <3>2. QED  BY <1>t, <2>1, <2>2, <2>5, <3>1
               DEF Produce, Goto, VersionsExist, StoresRead, CacheTypeOK
  <2>6. CASE ProducerRaises(r)
        BY <1>t, <2>1, <2>6
        DEF ProducerRaises, Goto, VersionsExist, StoresRead, CacheTypeOK, Unread
  <2>7. CASE Store(r) \/ StoreRaises(r)
    <3>1. entry'.ver = entry.ver \/ entry'.ver = val[r]
          BY <2>7 DEF Store, StoreRaises
    <3>2. QED  BY <1>t, <2>1, <2>7, <3>1
               DEF Store, StoreRaises, Goto, VersionsExist, StoresRead, CacheTypeOK
  <2>8. QED  BY <1>1, <2>3, <2>4, <2>5, <2>6, <2>7
             DEF GetOrSet, Hit, FallBack, Unlock, UnlockRaises, ReaderDies, Reply
<1>2. ASSUME NEW w \in Writers, NEW kind \in Kinds, CommitWrite(w, kind)
      PROVE  VersionsExist' /\ StoresRead'
  <2>1. Current' = Current + 1  BY <1>t, <1>2, AgesGrow DEF CommitWrite, Current, CacheTypeOK
  <2>2. \A v \in Writers : wrote'[v] <= Current + 1
        BY <1>t, <1>2 DEF CommitWrite, CacheTypeOK, VersionsExist
  <2>3. UNCHANGED <<entry, pc, val, answer, settled>>
        BY <1>2 DEF CommitWrite, readerVars
  <2>4. QED  BY <1>t, <2>1, <2>2, <2>3 DEF VersionsExist, StoresRead, CacheTypeOK, Unread
<1>3. ASSUME NEW w \in Writers, DeleteEntry(w) PROVE VersionsExist' /\ StoresRead'
  <2>1. UNCHANGED <<age, wrote, pc, val, answer>> /\ entry'.ver = 0 /\ settled' <= Current
        BY <1>t, <1>3 DEF DeleteEntry, dbVars, Empty, VersionsExist
  <2>2. QED  BY <1>t, <2>1 DEF VersionsExist, StoresRead, Current
<1>4. ASSUME NEW w \in Writers, DeleteLock(w) \/ DeleteFails(w)
      PROVE  VersionsExist' /\ StoresRead'
  <2>1. UNCHANGED <<age, wrote, pc, val, answer, entry, settled>>
        BY <1>4 DEF DeleteLock, DeleteFails, dbVars, readerVars
  <2>2. QED  BY <1>t, <2>1 DEF VersionsExist, StoresRead, Current
<1>5. CASE Tick
  <2>1. Current' = Current  BY <1>t, <1>5, AgesAge DEF Tick, Current, CacheTypeOK
  <2>2. UNCHANGED <<wrote, pc, val, answer, settled>>  BY <1>5 DEF Tick
  <2>3. entry'.ver = 0 \/ entry'.ver = entry.ver
    <3>1. CASE entry.left <= 1  BY <1>5, <3>1 DEF Tick, Empty
    <3>2. CASE ~(entry.left <= 1)
          BY <1>t, <1>5, <3>2, Zenon DEF Tick, CacheTypeOK
    <3>3. QED  BY <3>1, <3>2
  <2>4. QED  BY <1>t, <2>1, <2>2, <2>3 DEF VersionsExist, StoresRead
<1>6. CASE UNCHANGED cacheVars
      BY <1>t, <1>6 DEF cacheVars, VersionsExist, StoresRead, Current
<1>7. QED  BY <1>1, <1>2, <1>3, <1>4, <1>5, <1>6 DEF CacheNext

-------------------------------------------------------------------------------
(***************************************************************************)
(* Ages                                                                    *)
(***************************************************************************)

\* How much later a version can become in one step.
LEMMA LateStep ==
    ASSUME CacheInv, [CacheNext]_cacheVars, NEW v \in 0..Current
    PROVE  /\ LateBy(v) \in 0..Horizon /\ LateBy(v)' \in Nat
           /\ ~Tick => LateBy(v)' = LateBy(v)
           /\ Tick => LateBy(v)' <= LateBy(v) + 1
<1>t. /\ age \in Seq(0..Horizon) /\ Current \in Nat /\ v \in Nat
      /\ LateBy(v) \in 0..Horizon
      BY LenProperties, LateIsBounded DEF CacheInv, CacheTypeOK, Current
<1>1. CASE age' = age  BY <1>t, <1>1, HorizonNat DEF LateBy, Current
<1>2. CASE age' = Append(age, 0) /\ ~Tick
  <2>1. CASE v < Current
    <3>1. v + 1 \in 1..Len(age)  BY <1>t, <2>1 DEF Current
    <3>2. age'[v + 1] = age[v + 1] /\ Len(age') = Len(age) + 1
          BY <1>t, <1>2, <3>1, AgesGrow
    <3>3. QED  BY <1>t, <1>2, <2>1, <3>2, HorizonNat DEF LateBy, Current
  <2>2. CASE ~(v < Current)
    <3>1. v + 1 = Len(age) + 1  BY <1>t, <2>2 DEF Current
    <3>2. age'[v + 1] = 0 /\ Len(age') = Len(age) + 1
          BY <1>t, <1>2, <3>1, AgesGrow
    <3>3. QED  BY <1>t, <1>2, <2>2, <3>1, <3>2 DEF LateBy, Current
  <2>3. QED  BY <2>1, <2>2
<1>3. CASE Tick
  <2>1. /\ age' \in Seq(0..Horizon) /\ Len(age') = Len(age)
        /\ \A i \in 1..Len(age) : age'[i] <= age[i] + 1
        BY <1>t, <1>3, AgesAge DEF Tick
  <2>2. CASE v < Current
    <3>1. v + 1 \in 1..Len(age)  BY <1>t, <2>2 DEF Current
    <3>2. age'[v + 1] \in 0..Horizon /\ age'[v + 1] <= age[v + 1] + 1
          BY <2>1, <3>1, ElementOfSeq
    <3>3. QED  BY <1>t, <1>3, <2>1, <2>2, <3>2, HorizonNat DEF LateBy, Current
  <2>3. CASE ~(v < Current)
        BY <1>t, <1>3, <2>1, <2>3 DEF LateBy, Current
  <2>4. QED  BY <2>2, <2>3
<1>4. age' = age \/ (age' = Append(age, 0) /\ ~Tick) \/ Tick
  <2>1. CASE \E w \in Writers, kind \in Kinds : CommitWrite(w, kind)
    <3>1. age' = Append(age, 0)  BY <2>1 DEF CommitWrite
    <3>2. Len(age') = Len(age) + 1  BY <1>t, <3>1, AgesGrow
    <3>3. Tick => Len(age') = Len(age)  BY <1>t, AgesAge DEF Tick
    <3>4. QED  BY <1>t, <3>1, <3>2, <3>3 DEF Current
  <2>2. CASE \E r \in Readers : Ask(r) \/ GetOrSet(r) \/ ReaderDies(r)
        BY <2>2 DEF GetOrSet, Ask, Hit, Miss, FallBack, TakeLock, LockTaken,
           LockRaises, Produce, ProducerRaises, Store, StoreRaises, Unlock,
           UnlockRaises, ReaderDies, dbVars
  <2>3. CASE \E w \in Writers : DeleteEntry(w) \/ DeleteLock(w) \/ DeleteFails(w)
        BY <2>3 DEF DeleteEntry, DeleteLock, DeleteFails, dbVars
  <2>4. QED  BY <2>1, <2>2, <2>3 DEF CacheNext, cacheVars
<1>5. QED  BY <1>1, <1>2, <1>3, <1>4, <1>t

\* A request that finishes has read nothing; the others are untouched.
LEMMA FinishFacts ==
    ASSUME CacheTypeOK, NEW r \in Readers, Finish(r)
    PROVE  /\ val'[r] = Unread /\ pc'[r] = "idle"
           /\ \A q \in Readers \ {r} :
                 val'[q] = val[q] /\ held'[q] = held[q] /\ passed'[q] = passed[q]
                 /\ pc'[q] = pc[q]
BY DEF Finish, Goto, CacheTypeOK

LEMMA AgesStep ==
    CacheInv /\ [CacheNext]_cacheVars => FillsAreRecent' /\ EntryIsRecent'
<1> SUFFICES ASSUME CacheInv, [CacheNext]_cacheVars
             PROVE  FillsAreRecent' /\ EntryIsRecent'
    OBVIOUS
<1>t. /\ CacheTypeOK /\ VersionsExist /\ FillsAreRecent /\ EntryIsRecent
      /\ StoresRead /\ Current \in Nat
      BY LenProperties DEF CacheInv, CacheTypeOK, Current
<1>v. /\ entry.ver \in 0..Current /\ entry.left \in Nat
      /\ \A r \in Readers : /\ val[r] # Unread => val[r] \in 0..Current
                            /\ held[r] \in 0..MaxFill
      BY <1>t DEF CacheTypeOK, VersionsExist
<1>s. LateBy(Current) = 0  BY <1>t DEF LateBy
<1>1. ASSUME NEW r \in Readers, GetOrSet(r) \/ Ask(r) \/ ReaderDies(r)
      PROVE  FillsAreRecent' /\ EntryIsRecent'
  <2>1. age' = age
        BY <1>1 DEF GetOrSet, Ask, Hit, Miss, FallBack, TakeLock, LockTaken,
           LockRaises, Produce, ProducerRaises, Store, StoreRaises, Unlock,
           UnlockRaises, ReaderDies, dbVars
  <2>2. \A v : LateBy(v)' = LateBy(v)  BY <2>1 DEF LateBy, Current
  <2>3. CASE Finish(r) /\ UNCHANGED entry
    <3>1. \A q \in Readers : val'[q] # Unread => val'[q] = val[q] /\ held'[q] = held[q]
          BY <1>t, <2>3, FinishFacts
    <3>2. QED  BY <1>t, <2>2, <2>3, <3>1 DEF FillsAreRecent, EntryIsRecent, Cached
  <2>4. CASE Ask(r) \/ Miss(r) \/ TakeLock(r) \/ LockTaken(r) \/ LockRaises(r)
             \/ Produce(r) \/ ProducerRaises(r) \/ StoreRaises(r)
    <3>1. UNCHANGED <<entry, held>>
          BY <2>4 DEF Ask, Miss, TakeLock, LockTaken, LockRaises, Produce,
             ProducerRaises, StoreRaises
    <3>2. \A q \in Readers : val'[q] \in {val[q], Current, Unread}
          BY <1>t, <2>4 DEF Ask, Miss, TakeLock, LockTaken, LockRaises, Produce,
             ProducerRaises, StoreRaises, Snapshot, CacheTypeOK
    <3>3. QED  BY <1>t, <1>s, <1>v, <2>2, <3>1, <3>2
               DEF FillsAreRecent, EntryIsRecent, Cached
  <2>5. CASE Store(r)
    <3>1. PICK t \in Ttls \ {0} :
              entry' = [ver |-> val[r], left |-> t, passed |-> passed[r]]
          BY <2>5 DEF Store
    <3>2. UNCHANGED <<val, held>> /\ val[r] # Unread
          BY <1>t, <2>5 DEF Store, StoresRead
    <3>3. FillsAreRecent'  BY <1>t, <2>2, <3>2 DEF FillsAreRecent
    <3>4. LateBy(val[r]) <= MaxFill /\ LateBy(val[r]) \in Nat
      <4>1. age \in Seq(0..Horizon)  BY <1>t DEF CacheTypeOK
      <4>2. val[r] \in Nat  BY <1>v, <1>t, <3>2
      <4>3. LateBy(val[r]) \in 0..Horizon  BY <4>1, <4>2, LateIsBounded
      <4>4. LateBy(val[r]) <= held[r]  BY <1>t, <3>2 DEF FillsAreRecent
      <4>5. QED  BY <1>v, <4>3, <4>4, HorizonNat
    <3>5. t <= MaxTtl /\ t \in Nat  BY CacheAssumption
    <3>6. LateBy(val[r]) + t <= Horizon  BY <3>4, <3>5, HorizonNat DEF Horizon
    <3>7. entry'.ver = val[r] /\ entry'.left = t  BY <3>1
    <3>8. EntryIsRecent'  BY <2>2, <3>6, <3>7 DEF EntryIsRecent
    <3>9. QED  BY <3>3, <3>8
  <2>6. QED  BY <1>1, <2>3, <2>4, <2>5
             DEF GetOrSet, Hit, FallBack, Unlock, UnlockRaises, ReaderDies, Reply
<1>2. ASSUME NEW w \in Writers, NEW kind \in Kinds, CommitWrite(w, kind)
      PROVE  FillsAreRecent' /\ EntryIsRecent'
  <2>1. UNCHANGED <<entry, val, held>> /\ Current' = Current + 1 /\ ~Tick
    <3>1. Len(age') = Len(age) + 1
          BY <1>t, <1>2, AgesGrow DEF CommitWrite, CacheTypeOK
    <3>2. Tick => Len(age') = Len(age)  BY <1>t, AgesAge DEF Tick, CacheTypeOK
    <3>3. QED  BY <1>t, <1>2, <3>1, <3>2 DEF CommitWrite, readerVars, Current
  <2>2. \A v \in 0..Current : LateBy(v)' = LateBy(v)  BY <2>1, LateStep
  <2>3. QED  BY <1>t, <1>v, <2>1, <2>2 DEF FillsAreRecent, EntryIsRecent, Cached
<1>3. ASSUME NEW w \in Writers, DeleteEntry(w) \/ DeleteLock(w) \/ DeleteFails(w)
      PROVE  FillsAreRecent' /\ EntryIsRecent'
  <2>1. UNCHANGED <<age, val, held>> /\ (entry' = Empty \/ entry' = entry)
        BY <1>3 DEF DeleteEntry, DeleteLock, DeleteFails, dbVars, readerVars
  <2>2. \A v : LateBy(v)' = LateBy(v)  BY <2>1 DEF LateBy, Current
  <2>3. QED  BY <1>t, <2>1, <2>2 DEF FillsAreRecent, EntryIsRecent, Cached, Empty
<1>4. CASE Tick
  <2>1. \A v \in 0..Current : LateBy(v)' <= LateBy(v) + 1 /\ LateBy(v)' \in Nat
                              /\ LateBy(v) \in Nat
        BY <1>4, LateStep
  <2>2. FillsAreRecent'
    <3>1. SUFFICES ASSUME NEW r \in Readers, val[r] # Unread
                   PROVE  LateBy(val[r])' <= held'[r]
          BY <1>4 DEF Tick, FillsAreRecent
    <3>2. held'[r] = held[r] + 1  BY <1>4, <3>1 DEF Tick
    <3>3. LateBy(val[r]) <= held[r]  BY <1>t, <3>1 DEF FillsAreRecent
    <3>4. UNCHANGED val  BY <1>4 DEF Tick
    <3>5. QED  BY <1>v, <2>1, <3>1, <3>2, <3>3, <3>4
  <2>3. EntryIsRecent'
    <3>1. CASE entry.left <= 1
          BY <1>4, <3>1 DEF Tick, Empty, EntryIsRecent, Cached
    <3>2. CASE ~(entry.left <= 1)
      <4>1. entry' = [entry EXCEPT !.left = entry.left - 1]
            BY <1>4, <3>2 DEF Tick
      <4>2. entry'.ver = entry.ver /\ entry'.left = entry.left - 1
            BY <1>t, <4>1, Zenon DEF CacheTypeOK
      <4>3. LateBy(entry.ver) + entry.left <= Horizon
            BY <1>t, <1>v, <3>2 DEF EntryIsRecent, Cached
      <4>4. LateBy(entry.ver)' <= LateBy(entry.ver) + 1 /\ LateBy(entry.ver)' \in Nat
            /\ LateBy(entry.ver) \in Nat
            BY <1>v, <2>1, <4>2
      <4>5. QED  BY <1>v, <4>2, <4>3, <4>4, HorizonNat DEF EntryIsRecent
    <3>3. QED  BY <3>1, <3>2
  <2>4. QED  BY <2>2, <2>3
<1>5. CASE UNCHANGED cacheVars
      BY <1>t, <1>5 DEF cacheVars, FillsAreRecent, EntryIsRecent, Cached, LateBy, Current
<1>6. QED  BY <1>1, <1>2, <1>3, <1>4, <1>5 DEF CacheNext

-------------------------------------------------------------------------------
(***************************************************************************)
(* Invalidated writes                                                      *)
(***************************************************************************)

LEMMA SettledStep ==
    CacheInv /\ [CacheNext]_cacheVars => FillsSeeSettled' /\ HitsSeeSettledWrites'
<1> SUFFICES ASSUME CacheInv, [CacheNext]_cacheVars
             PROVE  FillsSeeSettled' /\ HitsSeeSettledWrites'
    OBVIOUS
<1>t. /\ CacheTypeOK /\ VersionsExist /\ StoresRead /\ Current \in Nat
      /\ FillsSeeSettled /\ HitsSeeSettledWrites
      BY LenProperties DEF CacheInv, CacheTypeOK, Current
<1>1. ASSUME NEW r \in Readers, GetOrSet(r) \/ Ask(r) \/ ReaderDies(r)
      PROVE  FillsSeeSettled' /\ HitsSeeSettledWrites'
  <2>1. settled' = settled
        BY <1>1 DEF GetOrSet, Ask, Hit, Miss, FallBack, TakeLock, LockTaken,
           LockRaises, Produce, ProducerRaises, Store, StoreRaises, Unlock,
           UnlockRaises, ReaderDies
  <2>2. CASE Finish(r) /\ UNCHANGED entry
    <3>1. \A q \in Readers : val'[q] # Unread => val'[q] = val[q] /\ passed'[q] = passed[q]
          BY <1>t, <2>2, FinishFacts
    <3>2. QED  BY <1>t, <2>1, <2>2, <3>1 DEF FillsSeeSettled, HitsSeeSettledWrites, Cached
  <2>3. CASE Ask(r) \/ Miss(r) \/ TakeLock(r) \/ LockTaken(r) \/ LockRaises(r)
             \/ Produce(r) \/ ProducerRaises(r) \/ StoreRaises(r)
    <3>1. UNCHANGED <<entry, passed>>
          BY <2>3 DEF Ask, Miss, TakeLock, LockTaken, LockRaises, Produce,
             ProducerRaises, StoreRaises
    <3>2. \A q \in Readers : val'[q] \in {val[q], Current, Unread}
          BY <1>t, <2>3 DEF Ask, Miss, TakeLock, LockTaken, LockRaises, Produce,
             ProducerRaises, StoreRaises, Snapshot, CacheTypeOK
    <3>3. settled <= Current  BY <1>t DEF VersionsExist
    <3>4. FillsSeeSettled'
          BY <1>t, <2>1, <3>1, <3>2, <3>3 DEF FillsSeeSettled, CacheTypeOK
    <3>5. HitsSeeSettledWrites'
          BY <1>t, <2>1, <3>1 DEF HitsSeeSettledWrites, Cached
    <3>6. QED  BY <3>4, <3>5
  <2>4. CASE Store(r)
    <3>1. entry'.ver = val[r] /\ entry'.passed = passed[r]
          BY <2>4 DEF Store
    <3>2. UNCHANGED <<val, passed>> /\ val[r] # Unread
          BY <1>t, <2>4 DEF Store, StoresRead
    <3>3. FillsSeeSettled'  BY <1>t, <2>1, <3>2 DEF FillsSeeSettled
    <3>4. ~passed[r] => val[r] >= settled  BY <1>t, <3>2 DEF FillsSeeSettled
    <3>5. QED  BY <2>1, <3>1, <3>3, <3>4 DEF HitsSeeSettledWrites
  <2>5. QED  BY <1>1, <2>2, <2>3, <2>4
             DEF GetOrSet, Hit, FallBack, Unlock, UnlockRaises, ReaderDies, Reply
<1>2. ASSUME NEW w \in Writers, DeleteEntry(w)
      PROVE  FillsSeeSettled' /\ HitsSeeSettledWrites'
  <2>1. entry' = Empty /\ val' = val
        BY <1>2 DEF DeleteEntry
  <2>2. settled' = settled \/ settled' = wrote[w]
        BY <1>2 DEF DeleteEntry
  <2>3. ASSUME NEW r \in Readers, val[r] # Unread, ~passed'[r]
        PROVE  ~passed[r] /\ val[r] >= wrote[w]
    <3>1. passed'[r] = (passed[r] \/ (val[r] # Unread /\ val[r] < wrote[w]))
          BY <1>2, Zenon DEF DeleteEntry
    <3>2. ~passed[r] /\ ~(val[r] < wrote[w])  BY <2>3, <3>1, Zenon
    <3>3. val[r] \in Int /\ wrote[w] \in Int  BY <1>t DEF CacheTypeOK, Unread
    <3>4. QED  BY <3>2, <3>3
  <2>4. FillsSeeSettled'
        BY <1>t, <2>1, <2>2, <2>3 DEF FillsSeeSettled
  <2>5. HitsSeeSettledWrites'
        BY <2>1 DEF HitsSeeSettledWrites, Cached, Empty
  <2>6. QED  BY <2>4, <2>5
<1>3. ASSUME NEW w \in Writers,
             DeleteLock(w) \/ DeleteFails(w) \/ \E kind \in Kinds : CommitWrite(w, kind)
      PROVE  FillsSeeSettled' /\ HitsSeeSettledWrites'
  <2>1. UNCHANGED <<entry, val, passed, settled>>
        BY <1>3 DEF DeleteLock, DeleteFails, CommitWrite, readerVars
  <2>2. QED  BY <1>t, <2>1 DEF FillsSeeSettled, HitsSeeSettledWrites, Cached
<1>4. CASE Tick
  <2>1. UNCHANGED <<val, passed, settled>>  BY <1>4 DEF Tick
  <2>2. FillsSeeSettled'  BY <1>t, <2>1 DEF FillsSeeSettled
  <2>3. HitsSeeSettledWrites'
    <3>1. CASE entry.left <= 1
          BY <1>4, <3>1 DEF Tick, Empty, HitsSeeSettledWrites, Cached
    <3>2. CASE ~(entry.left <= 1)
      <4>1. entry' = [entry EXCEPT !.left = entry.left - 1]
            BY <1>4, <3>2 DEF Tick
      <4>2. entry'.ver = entry.ver /\ entry'.passed = entry.passed
            BY <1>t, <4>1, Zenon DEF CacheTypeOK
      <4>3. Cached  BY <1>t, <3>2 DEF Cached, CacheTypeOK
      <4>4. QED  BY <1>t, <2>1, <4>2, <4>3 DEF HitsSeeSettledWrites
    <3>3. QED  BY <3>1, <3>2
  <2>4. QED  BY <2>2, <2>3
<1>5. CASE UNCHANGED cacheVars
      BY <1>t, <1>5 DEF cacheVars, FillsSeeSettled, HitsSeeSettledWrites, Cached
<1>6. QED  BY <1>1, <1>2, <1>3, <1>4, <1>5 DEF CacheNext

-------------------------------------------------------------------------------
(***************************************************************************)
(* The lock                                                                *)
(***************************************************************************)

LEMMA LockStep ==
    CacheInv /\ [CacheNext]_cacheVars => LockCovers' /\ SingleFlight'
<1> SUFFICES ASSUME CacheInv, [CacheNext]_cacheVars
             PROVE  LockCovers' /\ SingleFlight'
    OBVIOUS
<1> USE DEF LockCovers, SingleFlight
<1>t. /\ CacheTypeOK /\ LockCovers /\ SingleFlight
      /\ lock \in 0..LockTtl /\ pc \in [Readers -> InFlight \cup {"idle"}]
      BY DEF CacheInv, CacheTypeOK
<1>f. ASSUME pc' = pc PROVE Fillers' = Fillers  BY <1>f DEF Fillers
<1>1. ASSUME NEW r \in Readers,
             Ask(r) \/ Miss(r) \/ LockTaken(r) \/ Produce(r) \/ ProducerRaises(r)
             \/ Store(r) \/ StoreRaises(r) \/ Hit(r) \/ FallBack(r)
      PROVE  LockCovers' /\ SingleFlight'
  <2>1. UNCHANGED <<lock, slipped>>
        BY <1>1 DEF Ask, Miss, LockTaken, Produce, ProducerRaises, Store,
           StoreRaises, Hit, FallBack
  <2>2. Fillers' = Fillers
        BY <1>t, <1>1 DEF Ask, Miss, LockTaken, Produce, ProducerRaises, Store,
           StoreRaises, Hit, FallBack, Reply, Finish, Goto, Fillers
  <2>3. QED  BY <1>t, <2>1, <2>2
<1>2. ASSUME NEW r \in Readers, TakeLock(r) PROVE LockCovers' /\ SingleFlight'
  <2>1. Fillers' = Fillers \cup {r}
        BY <1>t, <1>2 DEF TakeLock, Goto, Fillers
  <2>2. lock = 0 /\ lock' = LockTtl /\ UNCHANGED slipped  BY <1>2 DEF TakeLock
  <2>3. LockTtl > 0  BY CacheAssumption
  <2>4. QED  BY <1>t, <2>1, <2>2, <2>3
<1>3. ASSUME NEW r \in Readers, LockRaises(r) PROVE LockCovers' /\ SingleFlight'
      BY <1>3 DEF LockRaises
<1>4. ASSUME NEW r \in Readers, Unlock(r) \/ UnlockRaises(r) \/ ReaderDies(r)
      PROVE  LockCovers' /\ SingleFlight'
  <2>1. Fillers' = Fillers \ {r}
        BY <1>t, <1>4 DEF Unlock, UnlockRaises, ReaderDies, Reply, Finish, Goto, Fillers
  <2>2. CASE Unlock(r)
    <3>1. slipped' = (Fillers' # {})  BY <2>1, <2>2 DEF Unlock
    <3>2. QED  BY <3>1
  <2>3. CASE UnlockRaises(r) \/ ReaderDies(r)
    <3>1. slipped' = (slipped /\ Fillers' # {}) /\ lock' = lock
          BY <2>1, <2>3 DEF UnlockRaises, ReaderDies, FillEnds
    <3>2. QED  BY <1>t, <2>1, <3>1
  <2>4. QED  BY <1>4, <2>2, <2>3
<1>5. ASSUME NEW w \in Writers, DeleteLock(w) PROVE LockCovers' /\ SingleFlight'
  <2>1. Fillers' = Fillers /\ slipped' = (Fillers # {})
        BY <1>5, <1>f DEF DeleteLock, readerVars
  <2>2. QED  BY <2>1
<1>6. ASSUME NEW w \in Writers,
             DeleteEntry(w) \/ DeleteFails(w) \/ \E kind \in Kinds : CommitWrite(w, kind)
      PROVE  LockCovers' /\ SingleFlight'
  <2>1. UNCHANGED <<pc, lock, slipped>>
        BY <1>6 DEF DeleteEntry, DeleteFails, CommitWrite, readerVars
  <2>2. QED  BY <1>t, <1>f, <2>1
<1>7. CASE Tick
  <2>1. Fillers' = Fillers  BY <1>7, <1>f DEF Tick
  <2>2. slipped' = (slipped \/ (lock = 1 /\ Fillers # {}))  BY <1>7 DEF Tick
  <2>3. lock' = IF lock > 0 THEN lock - 1 ELSE 0  BY <1>7 DEF Tick
  <2>4. LockCovers'
    <3>1. SUFFICES ASSUME ~slipped', Fillers # {} PROVE lock' > 0  BY <2>1
    <3>2. ~slipped /\ lock # 1  BY <2>2, <3>1
    <3>3. lock > 0  BY <1>t, <3>1, <3>2
    <3>4. QED  BY <1>t, <2>3, <3>2, <3>3, HorizonNat
  <2>5. SingleFlight'
    <3>1. ~slipped' => ~slipped  BY <2>2
    <3>2. QED  BY <1>t, <2>1, <3>1
  <2>6. QED  BY <2>4, <2>5
<1>8. CASE UNCHANGED cacheVars
  <2>1. UNCHANGED <<pc, lock, slipped>>  BY <1>8 DEF cacheVars
  <2>2. QED  BY <1>t, <1>f, <2>1
<1>9. QED  BY <1>1, <1>2, <1>3, <1>4, <1>5, <1>6, <1>7, <1>8 DEF CacheNext, GetOrSet

-------------------------------------------------------------------------------
(***************************************************************************)
(* Theorems                                                                *)
(***************************************************************************)

\* get_or_set and invalidate, call by call: the invariant of the cache.
THEOREM CacheInvariant == CacheSpec => []CacheInv
<1>1. CacheInv /\ [CacheNext]_cacheVars => CacheInv'
      BY CacheStepTyped, VersionsStep, AgesStep, SettledStep, LockStep DEF CacheInv
<1>2. QED  BY <1>1, CacheInitTyped, PTL DEF CacheSpec

\* The types of the cached value, its lock and the requests.
THEOREM CacheTypeCorrect == CacheSpec => []CacheTypeOK
<1>1. CacheInv => CacheTypeOK  BY DEF CacheInv
<1>2. QED  BY <1>1, CacheInvariant, PTL

\* services/cache.py, the lock: one fill at a time, unless the lock was lost.
THEOREM OneFillAtATime == CacheSpec => []SingleFlight
<1>1. CacheInv => SingleFlight  BY DEF CacheInv
<1>2. QED  BY <1>1, CacheInvariant, PTL

\* services/cache.py, invalidate: a hit misses an invalidated write only when its
\* fill had read before the invalidation and outlived it.
THEOREM HitsAreSettled == CacheSpec => []HitsSeeSettledWrites
<1>1. CacheInv => HitsSeeSettledWrites  BY DEF CacheInv
<1>2. QED  BY <1>1, CacheInvariant, PTL

\* DATA_ACCESS.md: staleness is bounded by the ttl (and the time of a fill),
\* whatever is lost, late or killed.
THEOREM ReadsKeepThePromise == CacheSpec => ReadsAreRecent
<1>1. CacheInit => BR!PromiseInit
      BY DEF CacheInit, BR!PromiseInit
<1>2. CacheInv /\ [CacheNext]_cacheVars => [BR!PromiseNext]_<<age, answer>>
  <2> SUFFICES ASSUME CacheInv, [CacheNext]_cacheVars
               PROVE  [BR!PromiseNext]_<<age, answer>>
      OBVIOUS
  <2>t. /\ CacheTypeOK /\ VersionsExist /\ FillsAreRecent /\ EntryIsRecent
        /\ Current \in Nat
        BY LenProperties DEF CacheInv, CacheTypeOK, Current
  <2>l. \A v : BR!LateBy(v) = LateBy(v)
        BY DEF BR!LateBy, LateBy, Current
  <2>r. ASSUME NEW v \in 0..Current, LateBy(v) < Horizon, answer' = v, age' = age
        PROVE  BR!PromiseNext
        BY <2>r, <2>l DEF BR!PromiseNext, BR!Return, Current
  <2>1. ASSUME NEW r \in Readers, val[r] # Unread
        PROVE  val[r] \in 0..Current /\ LateBy(val[r]) < Horizon
    <3>1. val[r] \in 0..Current /\ val[r] \in Nat
          BY <2>t, <2>1 DEF CacheTypeOK, VersionsExist
    <3>2. LateBy(val[r]) <= held[r] /\ held[r] \in 0..MaxFill
          BY <2>t, <2>1 DEF FillsAreRecent, CacheTypeOK
    <3>3. LateBy(val[r]) \in 0..Horizon
          BY <2>t, <3>1, LateIsBounded DEF CacheTypeOK
    <3>4. QED  BY <3>1, <3>2, <3>3, HorizonNat
  <2>2. ASSUME NEW r \in Readers
        PROVE  Snapshot(r) \in 0..Current /\ LateBy(Snapshot(r)) < Horizon
        BY <2>t, <2>1, HorizonNat DEF Snapshot, LateBy
  <2>3. ASSUME Cached
        PROVE  entry.ver \in 0..Current /\ LateBy(entry.ver) < Horizon
    <3>1. /\ entry.ver \in 0..Current /\ entry.ver \in Nat /\ entry.left \in Nat
          /\ entry.left > 0
          BY <2>t, <2>3 DEF CacheTypeOK, VersionsExist, Cached
    <3>2. LateBy(entry.ver) \in 0..Horizon
          BY <2>t, <3>1, LateIsBounded DEF CacheTypeOK
    <3>3. LateBy(entry.ver) + entry.left <= Horizon
          BY <2>t, <2>3 DEF EntryIsRecent
    <3>4. QED  BY <3>1, <3>2, <3>3, HorizonNat
  <2>4. ASSUME NEW r \in Readers, GetOrSet(r) \/ Ask(r) \/ ReaderDies(r)
        PROVE  [BR!PromiseNext]_<<age, answer>>
    <3>1. age' = age
          BY <2>4 DEF GetOrSet, Ask, Hit, Miss, FallBack, TakeLock, LockTaken,
             LockRaises, Produce, ProducerRaises, Store, StoreRaises, Unlock,
             UnlockRaises, ReaderDies, dbVars
    <3>2. CASE Hit(r)
      <4>1. Cached /\ answer' = entry.ver  BY <3>2 DEF Hit, Reply
      <4>2. QED  BY <2>3, <2>r, <3>1, <4>1
    <3>3. CASE FallBack(r)
      <4>1. answer' = answer \/ answer' = Snapshot(r)  BY <3>3 DEF FallBack, Reply
      <4>2. QED  BY <2>2, <2>r, <3>1, <4>1
    <3>4. CASE Unlock(r) \/ UnlockRaises(r)
      <4>1. answer' = answer \/ (val[r] # Unread /\ answer' = val[r])
            BY <3>4 DEF Unlock, UnlockRaises, Reply
      <4>2. QED  BY <2>1, <2>r, <3>1, <4>1
    <3>5. CASE ~(Hit(r) \/ FallBack(r) \/ Unlock(r) \/ UnlockRaises(r))
      <4>1. answer' = answer
            BY <2>4, <3>5 DEF GetOrSet, Ask, Miss, TakeLock, LockTaken,
               LockRaises, Produce, ProducerRaises, Store, StoreRaises, ReaderDies
      <4>2. QED  BY <3>1, <4>1
    <3>6. QED  BY <3>2, <3>3, <3>4, <3>5
  <2>5. ASSUME NEW w \in Writers, NEW kind \in Kinds, CommitWrite(w, kind)
        PROVE  [BR!PromiseNext]_<<age, answer>>
        BY <2>5 DEF CommitWrite, readerVars, BR!PromiseNext, BR!Commit
  <2>6. ASSUME NEW w \in Writers, DeleteEntry(w) \/ DeleteLock(w) \/ DeleteFails(w)
        PROVE  [BR!PromiseNext]_<<age, answer>>
        BY <2>6 DEF DeleteEntry, DeleteLock, DeleteFails, dbVars, readerVars
  <2>7. CASE Tick
    <3>1. \A n : BR!Older(n) = Older(n)  BY DEF BR!Older, Older
    <3>2. QED  BY <2>7, <3>1 DEF Tick, BR!PromiseNext, BR!TimePasses
  <2>8. CASE UNCHANGED cacheVars  BY <2>8 DEF cacheVars
  <2>9. QED  BY <2>4, <2>5, <2>6, <2>7, <2>8 DEF CacheNext
<1>3. QED
      BY <1>1, <1>2, CacheInvariant, PTL DEF CacheSpec, ReadsAreRecent, BR!Promise
===============================================================================
