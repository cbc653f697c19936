----------------------------- MODULE AdminProofs ------------------------------
(***************************************************************************)
(* Proofs about what administrators keep, each for any number of actors,   *)
(* rows and limits:                                                        *)
(*   - SettingsStore: its types, and how old the cached settings are;      *)
(*   - Monitoring: ownership of domains, and schedules with their polls;   *)
(*   - PageQuota: scan requests, the audit log and deep audits.            *)
(* The three share no state; their modules are put side by side.           *)
(***************************************************************************)
EXTENDS SettingsStore, Monitoring, PageQuota, SequenceTheorems, FiniteSetTheorems, TLAPS

-------------------------------------------------------------------------------
(***************************************************************************)
(* Settings: the inductive invariant                                       *)
(***************************************************************************)
Holds(r) == pc[r] \in {"hset", "expire"}

\* A call that has loaded the table holds a version that was current then.
LoadsAreRecent ==
    \A r \in Readers :
        IF Holds(r)
        THEN val[r] # Unread /\ val[r] <= Current /\ LateBy(val[r]) <= held[r]
        ELSE val[r] = Unread

\* Before an EXPIRE the hash holds at worst what another call, which had its
\* full time, stored over what this one did.
RenewalsAreRecent ==
    \A r \in Readers :
        pc[r] = "expire" /\ hash.left > 0 => LateBy(hash.ver) <= MaxFill + held[r]

HashIsRecent == hash.left \in 1..Ttl => LateBy(hash.ver) + hash.left <= Horizon

\* A hash without a ttl has a call that will give it one, or lost it.
SomeoneExpires ==
    hash.left = Forever /\ ~lost => \E r \in Readers : pc[r] = "expire"

SettingsInv ==
    /\ SettingsTypeOK /\ hash.ver <= Current
    /\ LoadsAreRecent /\ RenewalsAreRecent /\ HashIsRecent /\ SomeoneExpires

-------------------------------------------------------------------------------
(***************************************************************************)
(* Settings: ages                                                          *)
(***************************************************************************)

LEMMA Times ==
    /\ Ttl \in Nat \ {0} /\ MaxFill \in Nat
    /\ Horizon \in Nat /\ Horizon = Ttl + 2 * MaxFill
    /\ Forever \in Nat /\ Forever = Ttl + 1
BY SettingsAssumption DEF Horizon, Forever

\* A commit appends an age and leaves the others.
LEMMA AgesGrow ==
    ASSUME NEW s \in Seq(0..Horizon)
    PROVE  /\ Append(s, 0) \in Seq(0..Horizon)
           /\ Len(Append(s, 0)) = Len(s) + 1
           /\ \A i \in 1..Len(s) : Append(s, 0)[i] = s[i]
           /\ Append(s, 0)[Len(s) + 1] = 0
           /\ Len(s) \in Nat
BY Times, AppendProperties, LenProperties

\* A tick adds at most one to each age.
LEMMA AgesAge ==
    ASSUME NEW s \in Seq(0..Horizon), NEW t, t = [v \in 1..Len(s) |-> Older(s[v])]
    PROVE  /\ t \in Seq(0..Horizon)
           /\ Len(t) = Len(s)
           /\ \A i \in 1..Len(s) : t[i] <= s[i] + 1
<1>1. /\ Len(s) \in Nat
      /\ \A i \in 1..Len(s) : s[i] \in 0..Horizon
      BY LenProperties, ElementOfSeq
<1>2. \A i \in 1..Len(s) : Older(s[i]) \in 0..Horizon /\ Older(s[i]) <= s[i] + 1
      BY <1>1, Times DEF Older
<1>3. t \in [1..Len(s) -> 0..Horizon]  BY <1>2
<1>4. t \in Seq(0..Horizon) /\ Len(t) = Len(s)
      BY <1>1, <1>3, SeqDef, LenProperties
<1>5. QED  BY <1>2, <1>4

\* How late a version is.
LEMMA LateIsBounded ==
    ASSUME age \in Seq(0..Horizon), NEW v \in Nat
    PROVE  LateBy(v) \in 0..Horizon /\ Current \in Nat
<1>1. Current \in Nat  BY LenProperties DEF Current
<1>2. CASE v < Current
  <2>1. v + 1 \in 1..Len(age)  BY <1>1, <1>2 DEF Current
  <2>2. age[v + 1] \in 0..Horizon  BY <2>1, ElementOfSeq
  <2>3. QED  BY <1>1, <1>2, <2>2 DEF LateBy
<1>3. CASE ~(v < Current)  BY <1>1, <1>3, Times DEF LateBy
<1>4. QED  BY <1>2, <1>3

\* Only commits and ticks change the ages, and only ticks make a version later.
LEMMA LateStep ==
    ASSUME SettingsTypeOK, NEW v \in 0..Current,
           \/ age' = age
           \/ age' = Append(age, 0)
           \/ age' = [u \in 1..Len(age) |-> Older(age[u])]
    PROVE  /\ LateBy(v)' \in Nat /\ LateBy(v) \in Nat
           /\ LateBy(v)' <= LateBy(v) + 1
           /\ age' = Append(age, 0) => LateBy(v)' = LateBy(v)
<1>t. /\ age \in Seq(0..Horizon) /\ Current \in Nat /\ v \in Nat
      /\ LateBy(v) \in 0..Horizon
      BY LenProperties, LateIsBounded DEF SettingsTypeOK, Current
<1>1. CASE age' = age
  <2>1. age' # Append(age, 0)
    <3>1. Len(Append(age, 0)) = Len(age) + 1 /\ Len(age) \in Nat  BY <1>t, AgesGrow
    <3>2. QED  BY <1>1, <3>1
  <2>2. QED  BY <1>t, <1>1, <2>1, Times DEF LateBy, Current
<1>2. CASE age' = Append(age, 0)
  <2>1. CASE v < Current
    <3>1. v + 1 \in 1..Len(age)  BY <1>t, <2>1 DEF Current
    <3>2. age'[v + 1] = age[v + 1] /\ Len(age') = Len(age) + 1
          BY <1>t, <1>2, <3>1, AgesGrow
    <3>3. QED  BY <1>t, <1>2, <2>1, <3>2, Times DEF LateBy, Current
  <2>2. CASE ~(v < Current)
    <3>1. v + 1 = Len(age) + 1  BY <1>t, <2>2 DEF Current
    <3>2. age'[v + 1] = 0 /\ Len(age') = Len(age) + 1
          BY <1>t, <1>2, <3>1, AgesGrow
    <3>3. QED  BY <1>t, <1>2, <2>2, <3>1, <3>2 DEF LateBy, Current
  <2>3. QED  BY <2>1, <2>2
<1>3. CASE age' = [u \in 1..Len(age) |-> Older(age[u])]
  <2>1. /\ age' \in Seq(0..Horizon) /\ Len(age') = Len(age)
        /\ \A i \in 1..Len(age) : age'[i] <= age[i] + 1
        BY <1>t, <1>3, AgesAge
  <2>2. age' # Append(age, 0)
    <3>1. Len(Append(age, 0)) = Len(age) + 1 /\ Len(age) \in Nat  BY <1>t, AgesGrow
    <3>2. QED  BY <2>1, <3>1
  <2>3. CASE v < Current
    <3>1. v + 1 \in 1..Len(age)  BY <1>t, <2>3 DEF Current
    <3>2. age'[v + 1] \in 0..Horizon /\ age'[v + 1] <= age[v + 1] + 1
          BY <2>1, <3>1, ElementOfSeq
    <3>3. QED  BY <1>t, <2>1, <2>2, <2>3, <3>2, Times DEF LateBy, Current
  <2>4. CASE ~(v < Current)
        BY <1>t, <2>1, <2>2, <2>4 DEF LateBy, Current
  <2>5. QED  BY <2>3, <2>4
<1>4. QED  BY <1>1, <1>2, <1>3

-------------------------------------------------------------------------------
(***************************************************************************)
(* Settings: the initial state and the types                               *)
(***************************************************************************)
LEMMA SettingsInitially == SettingsInit => SettingsInv
<1> SUFFICES ASSUME SettingsInit PROVE SettingsInv  OBVIOUS
<1>1. SettingsTypeOK
  <2>1. age \in Seq(0..Horizon)  BY EmptySeq DEF SettingsInit
  <2>2. hash \in [ver : Nat, left : 0..Forever]  BY Times DEF SettingsInit, NoHash
  <2>3. held \in [Readers -> 0..MaxFill]  BY Times DEF SettingsInit
  <2>4. /\ pc \in [Readers -> {"idle", "get", "load", "hset", "expire"}]
        /\ val \in [Readers -> Nat \cup {Unread}]
        /\ updates \in [Writers -> Nat]
        BY DEF SettingsInit
  <2>5. deleting \subseteq Writers /\ answer \in Nat /\ lost \in BOOLEAN
        BY DEF SettingsInit
  <2>6. QED  BY <2>1, <2>2, <2>3, <2>4, <2>5 DEF SettingsTypeOK
<1>2. hash.ver <= Current /\ hash.left = 0
      BY EmptySeq DEF SettingsInit, NoHash, Current
<1>3. LoadsAreRecent  BY DEF SettingsInit, LoadsAreRecent, Holds
<1>4. RenewalsAreRecent /\ HashIsRecent /\ SomeoneExpires
      BY <1>2, Times DEF RenewalsAreRecent, HashIsRecent, SomeoneExpires
<1>5. QED  BY <1>1, <1>2, <1>3, <1>4 DEF SettingsInv

\* Redis' bookkeeping of a ttl.
LEMMA TickedHash ==
    ASSUME SettingsTypeOK, Tick
    PROVE  \/ hash.left = Forever /\ hash' = hash
           \/ hash'.left = 0 /\ hash' = NoHash
           \/ /\ hash.left \in 2..Ttl
              /\ hash' \in [ver : Nat, left : 0..Forever]
              /\ hash'.left = hash.left - 1 /\ hash'.ver = hash.ver
<1>1. hash.left \in 0..Forever /\ hash \in [ver : Nat, left : 0..Forever]
      BY DEF SettingsTypeOK
<1>2. CASE hash.left = Forever  BY <1>2, Times DEF Tick
<1>3. CASE hash.left # Forever /\ hash.left <= 1
      BY <1>3, Times DEF Tick, NoHash
<1>4. CASE hash.left # Forever /\ ~(hash.left <= 1)
  <2>1. hash' = [hash EXCEPT !.left = hash.left - 1]  BY <1>4, Times DEF Tick
  <2>2. hash.left - 1 \in 0..Forever /\ hash.left \in 2..Ttl  BY <1>1, <1>4, Times
  <2>3. QED  BY <1>1, <2>1, <2>2, Zenon
<1>5. QED  BY <1>2, <1>3, <1>4

LEMMA SettingsStepTyped ==
    SettingsInv /\ [SettingsNext]_settingsVars => SettingsTypeOK'
<1> SUFFICES ASSUME SettingsInv, [SettingsNext]_settingsVars PROVE SettingsTypeOK'
    OBVIOUS
<1> USE Times DEF SettingsTypeOK
<1>t. SettingsTypeOK /\ LoadsAreRecent /\ Current \in Nat
      BY LenProperties DEF SettingsInv, Current
<1>1. ASSUME NEW r \in Readers, Read(r) PROVE SettingsTypeOK'
      BY <1>t, <1>1 DEF Read, Goto
<1>2. ASSUME NEW r \in Readers, Hit(r) PROVE SettingsTypeOK'
      BY <1>t, <1>2 DEF Hit, Reply, Finish, Goto
<1>3. ASSUME NEW r \in Readers, Miss(r) PROVE SettingsTypeOK'
      BY <1>t, <1>3 DEF Miss, Goto
<1>4. ASSUME NEW r \in Readers, Load(r) PROVE SettingsTypeOK'
  <2>1. CASE Current = 0
    <3>1. Finish(r) /\ answer' = 0 /\ UNCHANGED <<age, hash, updates, deleting, lost>>
          BY <1>4, <2>1 DEF Load, Reply
    <3>2. QED  BY <1>t, <3>1 DEF Finish, Goto
  <2>2. CASE Current # 0
        BY <1>t, <1>4, <2>2 DEF Load, Goto
  <2>3. QED  BY <2>1, <2>2
<1>5. ASSUME NEW r \in Readers, LoadRaises(r) PROVE SettingsTypeOK'
      BY <1>t, <1>5 DEF LoadRaises, Finish, Goto
<1>6. ASSUME NEW r \in Readers, HSet(r) PROVE SettingsTypeOK'
  <2>1. val[r] \in Nat  BY <1>t, <1>6 DEF HSet, LoadsAreRecent, Holds
  <2>2. hash' \in [ver : Nat, left : 0..Forever]
        BY <1>t, <1>6, <2>1 DEF HSet
  <2>3. QED  BY <1>t, <1>6, <2>2 DEF HSet, Goto
<1>7. ASSUME NEW r \in Readers, HSetRaises(r) \/ ExpireRaises(r) \/ ReaderDies(r)
      PROVE  SettingsTypeOK'
  <2>1. Finish(r) /\ UNCHANGED <<age, hash, updates, deleting>>
        BY <1>7 DEF HSetRaises, ExpireRaises, ReaderDies, Reply
  <2>2. answer' \in Nat
        BY <1>t, <1>7 DEF HSetRaises, ExpireRaises, ReaderDies, Reply,
           LoadsAreRecent, Holds
  <2>3. lost' \in BOOLEAN
        BY <1>t, <1>7 DEF HSetRaises, ExpireRaises, ReaderDies
  <2>4. QED  BY <1>t, <2>1, <2>2, <2>3 DEF Finish, Goto
<1>8. ASSUME NEW r \in Readers, Expire(r) PROVE SettingsTypeOK'
  <2>1. hash' = hash \/ hash' = [hash EXCEPT !.left = Ttl]  BY <1>8 DEF Expire
  <2>2. hash' \in [ver : Nat, left : 0..Forever]
        BY <1>t, <2>1
  <2>3. answer' \in Nat  BY <1>t, <1>8 DEF Expire, Reply, LoadsAreRecent, Holds
  <2>4. Finish(r) /\ lost' \in BOOLEAN /\ UNCHANGED <<age, updates, deleting>>
        BY <1>8 DEF Expire, Reply
  <2>5. QED  BY <1>t, <2>2, <2>3, <2>4 DEF Finish, Goto
<1>9. ASSUME NEW w \in Writers, NEW n \in 1..MaxWrites, Patch(w, n)
      PROVE  SettingsTypeOK'
      BY <1>t, <1>9, SettingsAssumption DEF Patch
<1>10. ASSUME NEW w \in Writers, SetValue(w) PROVE SettingsTypeOK'
  <2>1. age' \in Seq(0..Horizon)  BY <1>t, <1>10, AgesGrow DEF SetValue
  <2>2. updates' \in [Writers -> Nat]  BY <1>t, <1>10 DEF SetValue
  <2>3. deleting' \subseteq Writers  BY <1>t, <1>10 DEF SetValue
  <2>4. QED  BY <1>t, <1>10, <2>1, <2>2, <2>3 DEF SetValue
<1>11. ASSUME NEW w \in Writers, Invalidate(w) PROVE SettingsTypeOK'
  <2>1. hash' \in [ver : Nat, left : 0..Forever]  BY <1>11 DEF Invalidate, NoHash
  <2>2. deleting' \subseteq Writers /\ lost' \in BOOLEAN
        BY <1>t, <1>11 DEF Invalidate
  <2>3. UNCHANGED <<age, pc, val, held, updates, answer>>  BY <1>11 DEF Invalidate
  <2>4. QED  BY <1>t, <2>1, <2>2, <2>3
<1>12. ASSUME NEW w \in Writers, InvalidateRaises(w) \/ PatchDies(w)
       PROVE  SettingsTypeOK'
  <2>1. updates' \in [Writers -> Nat] /\ deleting' \subseteq Writers
    <3>1. CASE InvalidateRaises(w)  BY <1>t, <3>1 DEF InvalidateRaises
    <3>2. CASE PatchDies(w)  BY <1>t, <3>2 DEF PatchDies
    <3>3. QED  BY <1>12, <3>1, <3>2
  <2>2. UNCHANGED <<age, hash, pc, val, held, answer, lost>>
        BY <1>12 DEF InvalidateRaises, PatchDies
  <2>3. QED  BY <1>t, <2>1, <2>2
<1>13. CASE Tick
  <2>1. age' \in Seq(0..Horizon)  BY <1>t, <1>13, AgesAge DEF Tick
  <2>2. hash' \in [ver : Nat, left : 0..Forever]
        BY <1>t, <1>13, TickedHash DEF NoHash
  <2>3. held' \in [Readers -> 0..MaxFill]
    <3>1. \A r \in Readers : (IF val[r] = Unread THEN 0 ELSE held[r] + 1) \in 0..MaxFill
          BY <1>t, <1>13 DEF Tick
    <3>2. QED  BY <1>13, <3>1 DEF Tick
  <2>4. UNCHANGED <<pc, val, updates, deleting, answer, lost>>  BY <1>13 DEF Tick
  <2>5. QED  BY <1>t, <2>1, <2>2, <2>3, <2>4
<1>14. CASE UNCHANGED settingsVars  BY <1>t, <1>14 DEF settingsVars
<1>15. QED
       BY <1>1, <1>2, <1>3, <1>4, <1>5, <1>6, <1>7, <1>8, <1>9, <1>10, <1>11,
          <1>12, <1>13, <1>14
       DEF SettingsNext, Get

-------------------------------------------------------------------------------
(***************************************************************************)
(* Settings: the invariant                                                 *)
(***************************************************************************)

\* A call that finishes holds nothing; the others are untouched.
LEMMA FinishFacts ==
    ASSUME SettingsTypeOK, NEW r \in Readers, Finish(r)
    PROVE  /\ val'[r] = Unread /\ pc'[r] = "idle"
           /\ \A q \in Readers \ {r} :
                 val'[q] = val[q] /\ held'[q] = held[q] /\ pc'[q] = pc[q]
BY DEF Finish, Goto, SettingsTypeOK

\* A call that ends, the hash and the ages left alone.
LEMMA EndedCall ==
    ASSUME SettingsInv, NEW r \in Readers, Finish(r), UNCHANGED <<age, hash>>,
           pc[r] = "expire" /\ hash.left = Forever => lost',
           ~lost' => ~lost
    PROVE  /\ hash.ver <= Current /\ LoadsAreRecent' /\ RenewalsAreRecent'
           /\ HashIsRecent' /\ SomeoneExpires'
<1>t. /\ SettingsTypeOK /\ hash.ver <= Current /\ LoadsAreRecent
      /\ RenewalsAreRecent /\ HashIsRecent /\ SomeoneExpires
      BY DEF SettingsInv
<1>a. \A v : LateBy(v)' = LateBy(v)  BY DEF LateBy, Current
<1>f. /\ val'[r] = Unread /\ pc'[r] = "idle"
      /\ \A q \in Readers \ {r} :
            val'[q] = val[q] /\ held'[q] = held[q] /\ pc'[q] = pc[q]
      BY <1>t, FinishFacts
<1>1. LoadsAreRecent'  BY <1>t, <1>a, <1>f DEF LoadsAreRecent, Holds, Current
<1>2. RenewalsAreRecent'  BY <1>t, <1>a, <1>f DEF RenewalsAreRecent
<1>3. HashIsRecent'  BY <1>t, <1>a DEF HashIsRecent
<1>4. SomeoneExpires'
  <2>1. SUFFICES ASSUME hash.left = Forever, ~lost'
                 PROVE  \E q \in Readers : pc'[q] = "expire"
        BY DEF SomeoneExpires
  <2>2. PICK q \in Readers : pc[q] = "expire"  BY <1>t, <2>1 DEF SomeoneExpires
  <2>3. q # r  BY <2>1, <2>2
  <2>4. QED  BY <1>f, <2>2, <2>3
<1>5. QED  BY <1>t, <1>1, <1>2, <1>3, <1>4

LEMMA SettingsStep == SettingsInv /\ [SettingsNext]_settingsVars => SettingsInv'
<1> SUFFICES ASSUME SettingsInv, [SettingsNext]_settingsVars PROVE SettingsInv'
    OBVIOUS
<1> DEFINE Rest == /\ hash.ver <= Current /\ LoadsAreRecent
                   /\ RenewalsAreRecent /\ HashIsRecent /\ SomeoneExpires
<1>t. SettingsTypeOK /\ Rest /\ Current \in Nat
      BY LenProperties DEF SettingsInv, SettingsTypeOK, Current
<1>v. /\ hash.ver \in 0..Current /\ hash.left \in 0..Forever
      /\ \A r \in Readers : held[r] \in 0..MaxFill
      /\ \A r \in Readers : Holds(r) => val[r] \in 0..Current
      BY <1>t DEF SettingsTypeOK, LoadsAreRecent
<1>s. LateBy(Current) = 0  BY <1>t DEF LateBy
<1>a. ASSUME age' = age
      PROVE  (\A v : LateBy(v)' = LateBy(v)) /\ Current' = Current
      BY <1>a DEF LateBy, Current
<1>n. \A v \in 0..Current : LateBy(v) \in Nat
  <2>1. SUFFICES ASSUME NEW v \in 0..Current PROVE LateBy(v) \in Nat
        OBVIOUS
  <2>2. v \in Nat /\ age \in Seq(0..Horizon)  BY <1>t DEF SettingsTypeOK
  <2>3. LateBy(v) \in 0..Horizon  BY <2>2, LateIsBounded
  <2>4. QED  BY <2>3, Times
<1>1. ASSUME NEW r \in Readers, Read(r) \/ Miss(r) PROVE Rest'
  <2>1. UNCHANGED <<age, hash, val, held, lost>>  BY <1>1 DEF Read, Miss
  <2>2. \A q \in Readers :
           /\ Holds(q)' <=> Holds(q)
           /\ pc'[q] = "expire" <=> pc[q] = "expire"
        BY <1>t, <1>1 DEF Read, Miss, Goto, Holds, SettingsTypeOK
  <2>3. LoadsAreRecent'  BY <1>t, <1>a, <2>1, <2>2 DEF LoadsAreRecent
  <2>4. RenewalsAreRecent' /\ HashIsRecent' /\ SomeoneExpires'
        BY <1>t, <1>a, <2>1, <2>2 DEF RenewalsAreRecent, HashIsRecent, SomeoneExpires
  <2>5. QED  BY <1>t, <1>a, <2>1, <2>3, <2>4
<1>2. ASSUME NEW r \in Readers,
             Hit(r) \/ LoadRaises(r) \/ HSetRaises(r) \/ ExpireRaises(r) \/ ReaderDies(r)
             \/ (Load(r) /\ Current = 0)
      PROVE  Rest'
  <2>1. Finish(r) /\ UNCHANGED <<age, hash>>
        BY <1>2 DEF Hit, LoadRaises, HSetRaises, ExpireRaises, ReaderDies, Load, Reply
  <2>2. pc[r] = "expire" /\ hash.left = Forever => lost'
        BY <1>2 DEF Hit, LoadRaises, HSetRaises, ExpireRaises, ReaderDies, Load
  <2>3. CASE ~ExpireRaises(r)
    <3>1. ~lost' => ~lost
          BY <1>2, <2>3 DEF Hit, LoadRaises, HSetRaises, ReaderDies, Load
    <3>2. QED  BY <1>a, <2>1, <2>2, <3>1, EndedCall
  <2>4. CASE ExpireRaises(r)
    <3>1. lost' = (hash.left = Forever)  BY <2>4 DEF ExpireRaises
    <3>2. CASE hash.left = Forever  BY <1>a, <2>1, <2>2, <3>1, <3>2, EndedCall
    <3>3. CASE hash.left # Forever
      <4>f. /\ val'[r] = Unread /\ pc'[r] = "idle"
            /\ \A q \in Readers \ {r} :
                  val'[q] = val[q] /\ held'[q] = held[q] /\ pc'[q] = pc[q]
            BY <1>t, <2>1, FinishFacts
      <4>1. LoadsAreRecent'
            BY <1>t, <1>a, <2>1, <4>f DEF LoadsAreRecent, Holds
      <4>2. RenewalsAreRecent'  BY <1>t, <1>a, <2>1, <4>f DEF RenewalsAreRecent
      <4>3. HashIsRecent' /\ SomeoneExpires'
            BY <1>t, <1>a, <2>1, <3>3 DEF HashIsRecent, SomeoneExpires
      <4>4. QED  BY <1>t, <1>a, <2>1, <4>1, <4>2, <4>3
    <3>4. QED  BY <3>2, <3>3
  <2>5. QED  BY <2>3, <2>4
<1>3. ASSUME NEW r \in Readers, Load(r), Current # 0 PROVE Rest'
  <2>1. UNCHANGED <<age, hash, held, lost>>  BY <1>3 DEF Load
  <2>2. /\ pc[r] = "load" /\ pc' = [pc EXCEPT ![r] = "hset"]
        /\ val' = [val EXCEPT ![r] = Current]
        BY <1>3 DEF Load, Goto
  <2>3. LoadsAreRecent'
        BY <1>t, <1>a, <1>s, <1>v, <2>1, <2>2
        DEF LoadsAreRecent, Holds, SettingsTypeOK, Unread
  <2>4. \A q \in Readers : pc'[q] = "expire" <=> pc[q] = "expire"
        BY <1>t, <2>2 DEF SettingsTypeOK
  <2>5. RenewalsAreRecent' /\ HashIsRecent' /\ SomeoneExpires'
        BY <1>t, <1>a, <2>1, <2>4 DEF RenewalsAreRecent, HashIsRecent, SomeoneExpires
  <2>6. QED  BY <1>t, <1>a, <2>1, <2>3, <2>5
<1>4. ASSUME NEW r \in Readers, HSet(r) PROVE Rest'
  <2>1. /\ UNCHANGED <<age, val, held, lost>>
        /\ pc[r] = "hset" /\ pc' = [pc EXCEPT ![r] = "expire"]
        /\ hash'.ver = val[r]
        /\ hash'.left = IF hash.left = 0 THEN Forever ELSE hash.left
        BY <1>4 DEF HSet, Goto
  <2>2. Holds(r)  BY <2>1 DEF Holds
  <2>3. val[r] \in 0..Current /\ LateBy(val[r]) <= MaxFill /\ LateBy(val[r]) \in Nat
        BY <1>t, <1>v, <1>n, <2>2, Times DEF LoadsAreRecent
  <2>4. \A q \in Readers : Holds(q)' <=> Holds(q)
        BY <1>t, <2>1 DEF Holds, SettingsTypeOK
  <2>5. LoadsAreRecent'  BY <1>t, <1>a, <2>1, <2>4 DEF LoadsAreRecent
  <2>6. RenewalsAreRecent'
        BY <1>v, <1>a, <2>1, <2>3, Times DEF RenewalsAreRecent
  <2>7. HashIsRecent'
        BY <1>v, <1>a, <2>1, <2>3, Times DEF HashIsRecent
  <2>8. SomeoneExpires'  BY <1>t, <2>1 DEF SomeoneExpires, SettingsTypeOK
  <2>9. QED  BY <1>t, <1>a, <2>1, <2>3, <2>5, <2>6, <2>7, <2>8
<1>5. ASSUME NEW r \in Readers, Expire(r) PROVE Rest'
  <2>1. Finish(r) /\ age' = age /\ lost' = FALSE /\ pc[r] = "expire"
        BY <1>5 DEF Expire, Reply
  <2>2. \/ hash.left = 0 /\ hash' = hash
        \/ hash.left > 0 /\ hash'.left = Ttl /\ hash'.ver = hash.ver
        BY <1>t, <1>v, <1>5 DEF Expire, SettingsTypeOK
  <2>f. /\ val'[r] = Unread /\ pc'[r] = "idle"
        /\ \A q \in Readers \ {r} :
              val'[q] = val[q] /\ held'[q] = held[q] /\ pc'[q] = pc[q]
        BY <1>t, <2>1, FinishFacts
  <2>3. LoadsAreRecent'
        BY <1>t, <1>a, <2>1, <2>f DEF LoadsAreRecent, Holds
  <2>4. RenewalsAreRecent'
        BY <1>t, <1>a, <2>1, <2>2, <2>f DEF RenewalsAreRecent
  <2>5. HashIsRecent'
    <3>1. CASE hash.left = 0  BY <2>2, <3>1 DEF HashIsRecent
    <3>2. CASE hash.left > 0
      <4>1. LateBy(hash.ver) <= MaxFill + held[r] /\ LateBy(hash.ver) \in Nat
            BY <1>t, <1>n, <1>v, <2>1, <3>2 DEF RenewalsAreRecent
      <4>2. LateBy(hash.ver) + Ttl <= Horizon  BY <1>v, <4>1, Times
      <4>3. QED  BY <1>a, <2>1, <2>2, <3>2, <4>2 DEF HashIsRecent
    <3>3. QED  BY <1>v, <3>1, <3>2
  <2>6. SomeoneExpires'  BY <2>2, Times DEF SomeoneExpires
  <2>7. QED  BY <1>t, <1>a, <2>1, <2>2, <2>3, <2>4, <2>5, <2>6
<1>6. ASSUME NEW w \in Writers, SetValue(w) PROVE Rest'
  <2>1. age' = Append(age, 0) /\ UNCHANGED <<hash, pc, val, held, lost>>
        BY <1>6 DEF SetValue
  <2>2. Current' = Current + 1
        BY <1>t, <2>1, AgesGrow DEF Current, SettingsTypeOK
  <2>3. \A v \in 0..Current : LateBy(v)' = LateBy(v)
        BY <1>t, <2>1, LateStep
  <2>4. LoadsAreRecent'
        BY <1>t, <1>v, <2>1, <2>2, <2>3 DEF LoadsAreRecent, Holds
  <2>5. RenewalsAreRecent' /\ HashIsRecent' /\ SomeoneExpires'
        BY <1>t, <1>v, <2>1, <2>3 DEF RenewalsAreRecent, HashIsRecent, SomeoneExpires
  <2>6. QED  BY <1>t, <1>v, <2>1, <2>2, <2>4, <2>5
<1>7. ASSUME NEW w \in Writers, Invalidate(w) PROVE Rest'
  <2>1. hash' = NoHash /\ UNCHANGED <<age, pc, val, held>>  BY <1>7 DEF Invalidate
  <2>2. hash'.left = 0 /\ hash'.ver = 0  BY <2>1 DEF NoHash
  <2>3. LoadsAreRecent'  BY <1>t, <1>a, <2>1 DEF LoadsAreRecent, Holds
  <2>4. RenewalsAreRecent' /\ HashIsRecent' /\ SomeoneExpires'
        BY <2>2, Times DEF RenewalsAreRecent, HashIsRecent, SomeoneExpires
  <2>5. QED  BY <1>t, <1>a, <2>1, <2>2, <2>3, <2>4
<1>8. ASSUME Tick PROVE Rest'
  <2>1. \A v \in 0..Current : LateBy(v)' <= LateBy(v) + 1 /\ LateBy(v)' \in Nat
        BY <1>t, <1>8, LateStep DEF Tick
  <2>2. Current' = Current
        BY <1>t, <1>8, AgesAge DEF Tick, Current, SettingsTypeOK
  <2>3. UNCHANGED <<pc, val, lost>>  BY <1>8 DEF Tick
  <2>4. \A r \in Readers : Holds(r) => held'[r] = held[r] + 1
        BY <1>t, <1>8 DEF Tick, LoadsAreRecent
  <2>5. LoadsAreRecent'
    <3>1. SUFFICES ASSUME NEW r \in Readers, Holds(r)
                   PROVE  LateBy(val[r])' <= held'[r]
          BY <1>t, <2>2, <2>3 DEF LoadsAreRecent, Holds
    <3>2. LateBy(val[r]) <= held[r]  BY <1>t, <3>1 DEF LoadsAreRecent
    <3>3. LateBy(val[r])' <= LateBy(val[r]) + 1 /\ LateBy(val[r])' \in Nat
          BY <1>v, <2>1, <2>3, <3>1
    <3>4. LateBy(val[r]) \in Nat  BY <1>n, <1>v, <3>1
    <3>5. QED  BY <1>v, <2>4, <3>1, <3>2, <3>3, <3>4
  <2>6. /\ hash' = hash \/ hash'.ver = 0 \/ hash'.ver = hash.ver
        /\ hash'.left > 0 => hash'.ver = hash.ver /\ hash.left > 0
        BY <1>t, <1>8, TickedHash, Times DEF NoHash
  <2>7. RenewalsAreRecent'
    <3>1. SUFFICES ASSUME NEW r \in Readers, pc[r] = "expire", hash'.left > 0
                   PROVE  LateBy(hash.ver)' <= MaxFill + held'[r]
          BY <2>3, <2>6 DEF RenewalsAreRecent
    <3>2. LateBy(hash.ver) <= MaxFill + held[r]
          BY <1>t, <2>6, <3>1 DEF RenewalsAreRecent
    <3>3. /\ LateBy(hash.ver)' <= LateBy(hash.ver) + 1 /\ LateBy(hash.ver)' \in Nat
          /\ LateBy(hash.ver) \in Nat
          BY <1>n, <1>v, <2>1, <2>6, <3>1
    <3>4. held'[r] = held[r] + 1  BY <2>4, <3>1 DEF Holds
    <3>5. QED  BY <1>v, <3>2, <3>3, <3>4, Times
  <2>8. HashIsRecent'
    <3>1. SUFFICES ASSUME hash'.left \in 1..Ttl
                   PROVE  LateBy(hash.ver)' + hash'.left <= Horizon
          BY <2>6, Times DEF HashIsRecent
    <3>2. hash.left \in 2..Ttl /\ hash'.left = hash.left - 1 /\ hash'.ver = hash.ver
          BY <1>t, <1>8, <3>1, TickedHash, Times
    <3>3. LateBy(hash.ver) + hash.left <= Horizon  BY <1>t, <3>2, Times DEF HashIsRecent
    <3>4. /\ LateBy(hash.ver)' <= LateBy(hash.ver) + 1 /\ LateBy(hash.ver)' \in Nat
          /\ LateBy(hash.ver) \in Nat
          BY <1>n, <1>v, <2>1, <3>2
    <3>5. QED  BY <1>v, <3>2, <3>3, <3>4, Times
  <2>9. SomeoneExpires'
    <3>1. hash'.left = Forever => hash.left = Forever
          BY <1>t, <1>8, TickedHash, Times
    <3>2. QED  BY <1>t, <2>3, <3>1 DEF SomeoneExpires
  <2>10. hash'.ver <= Current'  BY <1>t, <1>v, <2>2, <2>6
  <2>11. QED  BY <2>5, <2>7, <2>8, <2>9, <2>10
<1>9. ASSUME \/ UNCHANGED settingsVars
             \/ \E w \in Writers, n \in 1..MaxWrites : Patch(w, n)
             \/ \E w \in Writers : InvalidateRaises(w) \/ PatchDies(w)
      PROVE  Rest'
  <2>1. UNCHANGED <<age, hash, pc, val, held, lost>>
        BY <1>9 DEF settingsVars, Patch, InvalidateRaises, PatchDies
  <2>2. LoadsAreRecent'  BY <1>t, <1>a, <2>1 DEF LoadsAreRecent, Holds
  <2>3. RenewalsAreRecent' /\ HashIsRecent' /\ SomeoneExpires'
        BY <1>t, <1>a, <2>1 DEF RenewalsAreRecent, HashIsRecent, SomeoneExpires
  <2>4. hash'.ver <= Current'  BY <1>t, <1>a, <2>1
  <2>5. QED  BY <2>2, <2>3, <2>4
<1> HIDE DEF Rest
<1>r. ASSUME NEW r \in Readers, Read(r) \/ Get(r) \/ ReaderDies(r) PROVE Rest'
      BY <1>1, <1>2, <1>3, <1>4, <1>5, <1>r, Zenon DEF Get
<1>w. ASSUME NEW w \in Writers,
             SetValue(w) \/ Invalidate(w) \/ InvalidateRaises(w) \/ PatchDies(w)
      PROVE  Rest'
      BY <1>6, <1>7, <1>9, <1>w, Zenon
<1>10. Rest'  BY <1>r, <1>w, <1>8, <1>9, Zenon DEF SettingsNext
<1> USE DEF Rest
<1>11. QED  BY <1>10, SettingsStepTyped DEF SettingsInv

-------------------------------------------------------------------------------
(***************************************************************************)
(* Settings: theorems                                                      *)
(***************************************************************************)

\* services/settings_store.py, call by call: the invariant of the hash.
THEOREM SettingsInvariant == SettingsSpec => []SettingsInv
BY SettingsInitially, SettingsStep, PTL DEF SettingsSpec

\* The types of the hash, the calls and the requests.
THEOREM SettingsTypeCorrect == SettingsSpec => []SettingsTypeOK
<1>1. SettingsInv => SettingsTypeOK  BY DEF SettingsInv
<1>2. QED  BY <1>1, SettingsInvariant, PTL

\* set_value against _cached: what the hash holds is recent, or an EXPIRE was
\* lost.
THEOREM SettingsStayRecent == SettingsSpec => []SettingsAreRecent
<1>1. SettingsInv => SettingsAreRecent
  <2> SUFFICES ASSUME SettingsInv, hash.left > 0, ~lost
               PROVE  LateBy(hash.ver) < Horizon
      BY DEF SettingsAreRecent
  <2>t. /\ SettingsTypeOK /\ hash.left \in 0..Forever /\ hash.ver \in Nat
        /\ age \in Seq(0..Horizon)
        BY DEF SettingsInv, SettingsTypeOK
  <2>1. LateBy(hash.ver) \in 0..Horizon  BY <2>t, LateIsBounded
  <2>2. CASE hash.left = Forever
    <3>1. PICK r \in Readers : pc[r] = "expire"
          BY <2>2 DEF SettingsInv, SomeoneExpires
    <3>2. LateBy(hash.ver) <= MaxFill + held[r]
          BY <3>1 DEF SettingsInv, RenewalsAreRecent
    <3>3. held[r] \in 0..MaxFill  BY <2>t DEF SettingsTypeOK
    <3>4. QED  BY <2>1, <3>2, <3>3, Times
  <2>3. CASE hash.left # Forever
    <3>1. hash.left \in 1..Ttl  BY <2>t, <2>3, Times
    <3>2. LateBy(hash.ver) + hash.left <= Horizon
          BY <3>1 DEF SettingsInv, HashIsRecent
    <3>3. QED  BY <2>1, <3>1, <3>2, Times
  <2>4. QED  BY <2>2, <2>3
<1>2. QED  BY <1>1, SettingsInvariant, PTL

-------------------------------------------------------------------------------
(***************************************************************************)
(* Monitoring: rows and sessions                                           *)
(***************************************************************************)

\* A row and no row differ.
LEMMA RowShape ==
    ASSUME MonitoringTypeOK, NEW s \in Monitors
    PROVE  /\ schedule[s] # NoRow => schedule[s] \in ScheduleRow
           /\ schedule[s].live => schedule[s] # NoRow
BY DEF MonitoringTypeOK, NoRow

LEMMA RowFields ==
    ASSUME NEW row \in ScheduleRow
    PROVE  /\ row.site \in Sites /\ row.cadence \in Cadences
           /\ row.cadence \in Nat /\ row.cadence > 0
           /\ row.next \in Nat /\ row.live \in BOOLEAN
           /\ row.last \in Nat \cup {Never} /\ row.last \in Int
<1>1. /\ row.site \in Sites /\ row.cadence \in Cadences /\ row.next \in Nat
      /\ row.last \in Nat \cup {Never} /\ row.live \in BOOLEAN
      BY DEF ScheduleRow
<1>2. Cadences \subseteq Nat \ {0}  BY MonitoringAssumption
<1>3. \A c \in Nat \ {0} : c \in Nat /\ c > 0  OBVIOUS
<1>6. row.cadence \in Nat \ {0}  BY <1>1, <1>2
<1>7. row.cadence \in Nat /\ row.cadence > 0  BY <1>3, <1>6
<1>4. row.last \in Int  BY <1>1 DEF Never
<1>5. QED  BY <1>1, <1>7, <1>4

LEMMA RowsAreRows ==
    ASSUME NEW d, NEW c, NEW n, NEW l, NEW b
    PROVE  [site |-> d, cadence |-> c, next |-> n, last |-> l, live |-> b] # NoRow
BY DEF NoRow

LEMMA RowsStayRows ==
    ASSUME NEW row \in ScheduleRow
    PROVE  /\ row # NoRow
           /\ [row EXCEPT !.live = FALSE] \in ScheduleRow
           /\ \A n \in Nat, l \in Nat :
                 /\ [row EXCEPT !.next = n] \in ScheduleRow
                 /\ [row EXCEPT !.last = l, !.next = n] \in ScheduleRow
<1>1. [row EXCEPT !.live = FALSE] \in ScheduleRow  BY DEF ScheduleRow
<1>2. ASSUME NEW n \in Nat, NEW l \in Nat
      PROVE  /\ [row EXCEPT !.next = n] \in ScheduleRow
             /\ [row EXCEPT !.last = l, !.next = n] \in ScheduleRow
      BY DEF ScheduleRow
<1>3. row = [site |-> row.site, cadence |-> row.cadence, next |-> row.next,
             last |-> row.last, live |-> row.live]
      BY DEF ScheduleRow
<1>4. row # NoRow  BY <1>3, RowsAreRows
<1>5. QED  BY <1>1, <1>2, <1>4

LEMMA SessionShape ==
    ASSUME MonitoringTypeOK, NEW p \in Pollers, poll[p] # Asleep
    PROVE  /\ poll[p] \in Session
           /\ poll[p].at \in Nat /\ poll[p].due \subseteq Monitors
           /\ poll[p].skipped \subseteq Monitors /\ poll[p].runs \subseteq Monitors
           /\ poll[p].known \in [Sites -> VerifyStatus \cup {"unread"}]
           /\ InSession(p) \subseteq Monitors
BY DEF MonitoringTypeOK, Session, InSession, Handled

LEMMA SessionsAreSessions ==
    ASSUME NEW n, NEW d, NEW k, NEW r, NEW f
    PROVE  [at |-> n, due |-> d, skipped |-> k, runs |-> r, known |-> f] # Asleep
BY DEF Asleep

LEMMA ChecksAreChecks ==
    ASSUME NEW d, NEW r, NEW m
    PROVE  [site |-> d, row |-> r, how |-> m] # Idle
BY DEF Idle

LEMMA CheckShape ==
    ASSUME MonitoringTypeOK, NEW v \in Checks, check[v] # Idle
    PROVE  /\ check[v] \in Verification
           /\ check[v].site \in Sites /\ check[v].row \in DomainRow
           /\ check[v].how \in VerifyMethods
BY DEF MonitoringTypeOK, Verification

-------------------------------------------------------------------------------
(***************************************************************************)
(* Monitoring: what a step leaves alone                                    *)
(***************************************************************************)
LEMMA OwnershipFrame ==
    ASSUME OwnershipHolds, UNCHANGED <<register, lastCheck, passed, audited>>,
           crossed \subseteq crossed'
    PROVE  OwnershipHolds'
BY DEF OwnershipHolds, Passed

LEMMA ChecksFrame ==
    ASSUME ChecksHoldRows, UNCHANGED <<register, check, crossed>>
    PROVE  ChecksHoldRows'
BY DEF ChecksHoldRows

LEMMA SessionsFrame ==
    ASSUME MonitoringTypeOK, SessionsHoldRows, UNCHANGED <<schedule, poll>>,
           day <= day', day' \in Nat, Passed \subseteq Passed'
    PROVE  SessionsHoldRows'
<1>1. SUFFICES ASSUME NEW p \in Pollers, poll[p] # Asleep
               PROVE  /\ poll[p].at <= day'
                      /\ \A s \in InSession(p) : schedule[s] # NoRow
                      /\ \A s \in poll[p].runs : schedule[s].site \in Passed'
                      /\ \A d \in Sites : poll[p].known[d] = "verified" => d \in Passed'
      BY DEF SessionsHoldRows, InSession, Handled
<1>2. poll[p].at \in Nat /\ day \in Nat
      BY <1>1, SessionShape DEF MonitoringTypeOK
<1>3. poll[p].at <= day  BY <1>1 DEF SessionsHoldRows
<1>4. poll[p].at <= day'  BY <1>2, <1>3
<1>5. QED  BY <1>1, <1>4 DEF SessionsHoldRows

LEMMA PollerFrame ==
    ASSUME OnePoller, UNCHANGED <<schedule, poll, fresh, doubled>>
    PROVE  OnePoller'
BY DEF OnePoller, OnlySession, InSession, Handled, ClocksAhead

-------------------------------------------------------------------------------
(***************************************************************************)
(* Monitoring: the ownership checks                                        *)
(***************************************************************************)
LEMMA OpenCheckKeeps ==
    ASSUME MonitoringInv, NEW v \in Checks, NEW d \in Sites, NEW m \in VerifyMethods,
           OpenCheck(v, d, m)
    PROVE  MonitoringInv'
<1>. USE DEF MonitoringInv
<1>1. /\ check[v] = Idle
      /\ check' = [check EXCEPT ![v] = [site |-> d, row |-> register[d], how |-> m]]
      /\ crossed \subseteq crossed' /\ crossed' \subseteq crossed \cup {d}
      /\ d \notin crossed' =>
            \A w \in Checks : check[w] # Idle => check[w].site # d
      /\ UNCHANGED <<day, register, schedule, poll, fresh, others, lastCheck,
                     passed, audited, doubled>>
      BY DEF OpenCheck
<1>2. [site |-> d, row |-> register[d], how |-> m] \in Verification
      BY DEF MonitoringTypeOK, Verification
<1>3. MonitoringTypeOK'
      BY <1>1, <1>2 DEF MonitoringTypeOK
<1>4. OwnershipHolds'  BY <1>1, OwnershipFrame
<1>5. ChecksHoldRows'
  <2>1. SUFFICES ASSUME NEW w \in Checks, check'[w] # Idle, check'[w].site \notin crossed'
                 PROVE  /\ check'[w].row = register[check'[w].site]
                        /\ \A x \in Checks :
                              check'[x] # Idle /\ check'[x].site = check'[w].site => x = w
        BY <1>1 DEF ChecksHoldRows
  <2>2. /\ check'[v].site = d /\ check'[v].row = register[d]
        /\ \A x \in Checks : x # v => check'[x] = check[x]
        BY <1>1 DEF MonitoringTypeOK
  <2>3. CASE w = v
        BY <2>1, <2>2, <2>3, <1>1
  <2>4. CASE w # v
    <3>1. check[w] # Idle /\ check[w].site = check'[w].site /\ check[w].site \notin crossed
          BY <2>1, <2>2, <2>4, <1>1
    <3>2. check[w].site # d
          BY <2>1, <2>2, <2>4, <3>1, <1>1
    <3>3. QED  BY <2>2, <2>4, <3>1, <3>2 DEF ChecksHoldRows
  <2>5. QED  BY <2>3, <2>4
<1>6. SessionsHoldRows'
      BY <1>1, <1>3, SessionsFrame DEF MonitoringTypeOK, Passed
<1>7. OnePoller'  BY <1>1, PollerFrame
<1>8. QED  BY <1>3, <1>4, <1>5, <1>6, <1>7

\* What a check stores, when nobody else has stored anything meanwhile.
LEMMA VerdictIsStored ==
    ASSUME MonitoringTypeOK, NEW d \in Sites, NEW l \in DomainRow,
           NEW m \in VerifyMethods, NEW verified \in BOOLEAN, StoreVerdict(d, l, m, verified)
    PROVE  /\ register' \in [Sites -> DomainRow]
           /\ \A e \in Sites : e # d => register'[e] = register[e]
           /\ l = register[d] =>
                 register'[d] = [status |-> IF verified THEN "verified" ELSE "failed", how |-> m]
           /\ register'[d].status = "verified" => verified \/ register[d].status = "verified"
<1>. DEFINE verdict == IF verified THEN "verified" ELSE "failed"
            status  == IF verdict = l.status THEN register[d].status ELSE verdict
            how     == IF m = l.how THEN register[d].how ELSE m
<1>1. /\ register \in [Sites -> DomainRow] /\ register[d] \in DomainRow
      /\ register[d].status \in VerifyStatus
      /\ register[d].how \in VerifyMethods \cup {"none"}
      BY DEF MonitoringTypeOK, DomainRow
<1>2. register' = [register EXCEPT ![d].status = status, ![d].how = how]
      BY DEF StoreVerdict, WrittenTo
<1>3. verdict \in VerifyStatus /\ status \in VerifyStatus /\ how \in VerifyMethods \cup {"none"}
      BY <1>1 DEF VerifyStatus
<1>4. /\ l = register[d] => status = verdict /\ how = m
      /\ status = "verified" => verified \/ register[d].status = "verified"
      OBVIOUS
<1>. HIDE DEF status, how
<1>5. /\ register'[d] = [register[d] EXCEPT !.status = status, !.how = how]
      /\ \A e \in Sites : e # d => register'[e] = register[e]
      BY <1>1, <1>2
<1>6. register'[d] = [status |-> status, how |-> how]
      BY <1>1, <1>5 DEF DomainRow
<1>7. register'[d] \in DomainRow  BY <1>3, <1>6 DEF DomainRow
<1>8. register' \in [Sites -> DomainRow]  BY <1>1, <1>2, <1>3 DEF DomainRow
<1>9. QED  BY <1>4, <1>5, <1>6, <1>8

LEMMA CloseCheckKeeps ==
    ASSUME MonitoringInv, NEW v \in Checks, CloseCheck(v)
    PROVE  MonitoringInv'
<1>. DEFINE d == check[v].site
            m == check[v].how
<1>. USE DEF MonitoringInv
<1>1. PICK verified \in BOOLEAN :
          /\ StoreVerdict(d, check[v].row, m, verified)
          /\ lastCheck' = [lastCheck EXCEPT
                ![d] = [status |-> IF verified THEN "verified" ELSE "failed", how |-> m]]
          /\ passed' = IF verified THEN [passed EXCEPT ![d] = @ \cup {m}] ELSE passed
      BY DEF CloseCheck, Answers
<1>2. /\ check[v] # Idle
      /\ check' = [check EXCEPT ![v] = Idle]
      /\ UNCHANGED <<day, schedule, poll, fresh, others, audited, crossed, doubled>>
      BY DEF CloseCheck
<1>3. d \in Sites /\ check[v].row \in DomainRow /\ m \in VerifyMethods
      BY <1>2, CheckShape
<1>4. /\ register' \in [Sites -> DomainRow]
      /\ \A e \in Sites : e # d => register'[e] = register[e]
      /\ check[v].row = register[d] =>
            register'[d] = [status |-> IF verified THEN "verified" ELSE "failed", how |-> m]
      /\ register'[d].status = "verified" => verified \/ register[d].status = "verified"
      BY <1>1, <1>3, VerdictIsStored
<1>5. [status |-> IF verified THEN "verified" ELSE "failed", how |-> m] \in DomainRow
      BY <1>3 DEF DomainRow, VerifyStatus
<1>6. /\ passed' \in [Sites -> SUBSET VerifyMethods]
      /\ \A e \in Sites : passed[e] \subseteq passed'[e]
      /\ verified => m \in passed'[d]
      BY <1>1, <1>3 DEF MonitoringTypeOK
<1>13. Passed \subseteq Passed' /\ (verified => d \in Passed')
      BY <1>3, <1>6 DEF Passed
<1>. HIDE DEF d, m
<1>7. MonitoringTypeOK'
      BY <1>1, <1>2, <1>3, <1>4, <1>5, <1>6 DEF MonitoringTypeOK
<1>8. OwnershipHolds'
  <2>1. ASSUME NEW e \in Sites, e \notin crossed'
        PROVE  /\ register'[e] = lastCheck'[e]
               /\ register'[e].status = "verified" => register'[e].how \in passed'[e]
    <3>1. /\ e \notin crossed /\ register[e] = lastCheck[e]
          /\ register[e].status = "verified" => register[e].how \in passed[e]
          BY <2>1, <1>2 DEF OwnershipHolds
    <3>2. CASE e # d
          BY <3>1, <3>2, <1>1, <1>4, <1>6, <2>1 DEF MonitoringTypeOK
    <3>3. CASE e = d
      <4>1. check[v].row = register[d]
            BY <3>1, <3>3, <1>2 DEF ChecksHoldRows, d
      <4>2. QED  BY <4>1, <3>3, <1>1, <1>3, <1>4, <1>6 DEF MonitoringTypeOK
    <3>4. QED  BY <3>2, <3>3
  <2>2. ASSUME NEW e \in Sites, register'[e].status = "verified"
        PROVE  e \in Passed'
    <3>1. CASE e # d
          BY <2>2, <3>1, <1>4, <1>13 DEF OwnershipHolds
    <3>2. CASE e = d
          BY <2>2, <3>2, <1>4, <1>13 DEF OwnershipHolds
    <3>3. QED  BY <3>1, <3>2
  <2>3. audited' \subseteq Passed'  BY <1>2, <1>13 DEF OwnershipHolds
  <2>4. QED  BY <2>1, <2>2, <2>3 DEF OwnershipHolds
<1>9. ChecksHoldRows'
  <2>1. SUFFICES ASSUME NEW w \in Checks, check'[w] # Idle, check'[w].site \notin crossed'
                 PROVE  /\ check'[w].row = register'[check'[w].site]
                        /\ \A x \in Checks :
                              check'[x] # Idle /\ check'[x].site = check'[w].site => x = w
        BY DEF ChecksHoldRows
  <2>2. w # v /\ check'[w] = check[w] /\ check[w] # Idle /\ check[w].site \notin crossed
        BY <2>1, <1>2 DEF MonitoringTypeOK
  <2>3. \A x \in Checks : check'[x] # Idle => x # v /\ check'[x] = check[x]
        BY <1>2 DEF MonitoringTypeOK
  <2>4. /\ check[w].row = register[check[w].site]
        /\ \A x \in Checks : check[x] # Idle /\ check[x].site = check[w].site => x = w
        BY <2>2 DEF ChecksHoldRows
  <2>5. check[w].site # d  BY <2>2, <2>4, <1>2 DEF d
  <2>6. check[w].site \in Sites  BY <2>2, CheckShape
  <2>7. register'[check[w].site] = register[check[w].site]  BY <2>5, <2>6, <1>4
  <2>8. QED  BY <2>2, <2>3, <2>4, <2>7
<1>10. SessionsHoldRows'
      BY <1>2, <1>13, SessionsFrame DEF MonitoringTypeOK
<1>11. OnePoller'  BY <1>2, PollerFrame
<1>12. QED  BY <1>7, <1>8, <1>9, <1>10, <1>11

LEMMA CheckBreaksKeeps ==
    ASSUME MonitoringInv, NEW v \in Checks, CheckBreaks(v)
    PROVE  MonitoringInv'
<1>. USE DEF MonitoringInv
<1>1. /\ check' = [check EXCEPT ![v] = Idle]
      /\ UNCHANGED <<day, register, schedule, poll, fresh, others, lastCheck,
                     passed, audited, crossed, doubled>>
      BY DEF CheckBreaks
<1>2. MonitoringTypeOK'  BY <1>1 DEF MonitoringTypeOK
<1>3. OwnershipHolds'  BY <1>1, OwnershipFrame
<1>4. \A x \in Checks : check'[x] # Idle => check'[x] = check[x] /\ check[x] # Idle
      BY <1>1 DEF MonitoringTypeOK
<1>5. ChecksHoldRows'  BY <1>1, <1>4 DEF ChecksHoldRows
<1>6. SessionsHoldRows'  BY <1>1, SessionsFrame DEF MonitoringTypeOK, Passed
<1>7. OnePoller'  BY <1>1, PollerFrame
<1>8. QED  BY <1>2, <1>3, <1>5, <1>6, <1>7

-------------------------------------------------------------------------------
(***************************************************************************)
(* Monitoring: schedules                                                   *)
(***************************************************************************)
LEMMA CreateScheduleKeeps ==
    ASSUME MonitoringInv, NEW s \in Monitors, NEW d \in Sites, NEW c \in Cadences,
           CreateSchedule(s, d, c)
    PROVE  MonitoringInv'
<1>. DEFINE row == [site |-> d, cadence |-> c, next |-> day, last |-> Never, live |-> TRUE]
<1>. USE DEF MonitoringInv
<1>1. /\ schedule[s] = NoRow
      /\ schedule' = [schedule EXCEPT ![s] = row]
      /\ UNCHANGED <<day, register, poll, check, fresh, others, lastCheck, passed,
                     audited, crossed, doubled>>
      BY DEF CreateSchedule
<1>2. row \in ScheduleRow /\ row.last = Never /\ day \in Nat
      BY DEF MonitoringTypeOK, ScheduleRow
<1>3. /\ schedule'[s] = row
      /\ \A t \in Monitors : t # s => schedule'[t] = schedule[t]
      BY <1>1 DEF MonitoringTypeOK
<1>. HIDE DEF row
<1>4. MonitoringTypeOK'  BY <1>1, <1>2 DEF MonitoringTypeOK
<1>5. OwnershipHolds'  BY <1>1, OwnershipFrame
<1>6. ChecksHoldRows'  BY <1>1, ChecksFrame
<1>7. ASSUME NEW p \in Pollers, poll[p] # Asleep, NEW t \in InSession(p)
      PROVE  t \in Monitors /\ schedule[t] # NoRow /\ schedule'[t] = schedule[t]
      BY <1>1, <1>3, <1>7, SessionShape DEF SessionsHoldRows
<1>8. SessionsHoldRows'
      BY <1>1, <1>7 DEF SessionsHoldRows, InSession, Handled, Passed
<1>9. OnePoller'
  <2>1. SUFFICES ASSUME ~doubled
                 PROVE  OnlySession' /\ ClocksAhead' /\ \A e \in Sites : fresh[e] <= 1
        BY <1>1 DEF OnePoller
  <2>2. OnlySession'
        BY <2>1, <1>1, <1>7 DEF OnePoller, OnlySession, InSession, Handled
  <2>3. ClocksAhead'
        BY <2>1, <1>1, <1>2, <1>3 DEF OnePoller, ClocksAhead
  <2>4. QED  BY <2>1, <2>2, <2>3 DEF OnePoller
<1>10. QED  BY <1>4, <1>5, <1>6, <1>8, <1>9

LEMMA DeleteScheduleKeeps ==
    ASSUME MonitoringInv, NEW s \in Monitors, DeleteSchedule(s)
    PROVE  MonitoringInv'
<1>. USE DEF MonitoringInv
<1>1. /\ schedule[s] # NoRow /\ schedule[s] \in ScheduleRow
      /\ schedule' = [schedule EXCEPT ![s].live = FALSE]
      /\ UNCHANGED <<day, register, poll, check, fresh, others, lastCheck, passed,
                     audited, crossed, doubled>>
      BY RowShape DEF DeleteSchedule
<1>2. [schedule[s] EXCEPT !.live = FALSE] \in ScheduleRow
      BY <1>1, RowsStayRows
<1>3. /\ \A t \in Monitors : t # s => schedule'[t] = schedule[t]
      /\ schedule'[s] = [schedule[s] EXCEPT !.live = FALSE]
      BY <1>1 DEF MonitoringTypeOK
<1>4. /\ schedule'[s].site = schedule[s].site /\ schedule'[s].next = schedule[s].next
      /\ schedule'[s].last = schedule[s].last
      /\ schedule'[s].cadence = schedule[s].cadence
      BY <1>1, <1>3 DEF ScheduleRow
<1>5. schedule'[s] # NoRow  BY <1>2, <1>3, RowsStayRows
<1>6. MonitoringTypeOK'  BY <1>1, <1>2, <1>3 DEF MonitoringTypeOK
<1>7. OwnershipHolds'  BY <1>1, OwnershipFrame
<1>8. ChecksHoldRows'  BY <1>1, ChecksFrame
<1>9. ASSUME NEW t \in Monitors
      PROVE  /\ schedule[t] # NoRow <=> schedule'[t] # NoRow
             /\ schedule'[t].site = schedule[t].site /\ schedule'[t].next = schedule[t].next
             /\ schedule'[t].last = schedule[t].last
             /\ schedule'[t].cadence = schedule[t].cadence
  <2>1. CASE t = s  BY <2>1, <1>1, <1>4, <1>5
  <2>2. CASE t # s  BY <2>2, <1>3
  <2>3. QED  BY <2>1, <2>2
<1>10. \A p \in Pollers : poll[p] # Asleep =>
          InSession(p) \subseteq Monitors /\ poll[p].runs \subseteq Monitors
      BY SessionShape
<1>11. SessionsHoldRows'
      BY <1>1, <1>9, <1>10 DEF SessionsHoldRows, InSession, Handled, Passed
<1>12. OnePoller'
      BY <1>1, <1>9, <1>10 DEF OnePoller, OnlySession, ClocksAhead, InSession, Handled
<1>13. QED  BY <1>6, <1>7, <1>8, <1>11, <1>12

-------------------------------------------------------------------------------
(***************************************************************************)
(* Monitoring: the scheduler's polls                                       *)
(***************************************************************************)
LEMMA StartPollKeeps ==
    ASSUME MonitoringInv, NEW p \in Pollers, StartPoll(p)
    PROVE  MonitoringInv'
<1>. DEFINE new == [at |-> day, due |-> Due, skipped |-> {}, runs |-> {},
                    known |-> [d \in Sites |-> "unread"]]
<1>. USE DEF MonitoringInv
<1>1. /\ poll[p] = Asleep
      /\ poll' = [poll EXCEPT ![p] = new]
      /\ doubled' = (doubled \/ \E q \in Pollers : poll[q] # Asleep)
      /\ UNCHANGED <<day, register, schedule, check, fresh, others, lastCheck,
                     passed, audited, crossed>>
      BY DEF StartPoll
<1>2. /\ new \in Session
      /\ new.at = day /\ new.due = Due /\ new.skipped = {} /\ new.runs = {}
      /\ \A d \in Sites : new.known[d] = "unread"
      BY DEF MonitoringTypeOK, Session, Due
<1>3. \A s \in Due : s \in Monitors /\ schedule[s] # NoRow /\ schedule[s].next <= day
      BY RowShape DEF Due
<1>. HIDE DEF new
<1>4. /\ poll'[p] = new
      /\ \A q \in Pollers : q # p => poll'[q] = poll[q]
      BY <1>1 DEF MonitoringTypeOK
<1>5. MonitoringTypeOK'  BY <1>1, <1>2 DEF MonitoringTypeOK
<1>6. OwnershipHolds'  BY <1>1, OwnershipFrame
<1>7. ChecksHoldRows'  BY <1>1, ChecksFrame
<1>8. SessionsHoldRows'
  <2>1. SUFFICES ASSUME NEW q \in Pollers, poll'[q] # Asleep
                 PROVE  /\ poll'[q].at <= day
                        /\ \A s \in poll'[q].due \cup poll'[q].runs \cup poll'[q].skipped :
                              schedule[s] # NoRow
                        /\ \A s \in poll'[q].runs : schedule[s].site \in Passed
                        /\ \A d \in Sites : poll'[q].known[d] = "verified" => d \in Passed
        BY <1>1 DEF SessionsHoldRows, InSession, Handled, Passed
  <2>2. CASE q = p  BY <2>2, <1>2, <1>3, <1>4 DEF MonitoringTypeOK
  <2>3. CASE q # p
        BY <2>1, <2>3, <1>4 DEF SessionsHoldRows, InSession, Handled
  <2>4. QED  BY <2>2, <2>3
<1>9. OnePoller'
  <2>1. SUFFICES ASSUME ~doubled'
                 PROVE  OnlySession' /\ ClocksAhead' /\ \A d \in Sites : fresh[d] <= 1
        BY <1>1 DEF OnePoller
  <2>2. ~doubled /\ \A q \in Pollers : poll[q] = Asleep  BY <2>1, <1>1
  <2>3. ClocksAhead' /\ \A d \in Sites : fresh[d] <= 1
        BY <2>2, <1>1 DEF OnePoller, ClocksAhead
  <2>4. OnlySession'
    <3>1. \A q \in Pollers : poll'[q] # Asleep => q = p  BY <2>2, <1>4
    <3>2. QED  BY <3>1, <1>1, <1>2, <1>3, <1>4 DEF OnlySession, InSession, Handled
  <2>5. QED  BY <2>3, <2>4
<1>10. QED  BY <1>5, <1>6, <1>7, <1>8, <1>9

\* A turn of the loop only moves one schedule within the session.
LEMMA TurnInSession ==
    ASSUME MonitoringInv, NEW p \in Pollers, NEW s \in Monitors, Turn(p, s)
    PROVE  /\ poll[p] # Asleep /\ schedule[s] # NoRow /\ schedule[s].site \in Sites
           /\ \A q \in Pollers : q # p => poll'[q] = poll[q]
           /\ poll'[p] \in Session /\ poll'[p] # Asleep
           /\ poll'[p].at = poll[p].at
           /\ InSession(p)' = InSession(p)
           /\ poll'[p].runs = IF MayRun(p, schedule[s].site)
                             THEN poll[p].runs \cup {s} ELSE poll[p].runs
           /\ s \in InSession(p)
           /\ \A e \in Sites : poll'[p].known[e] =
                 IF e = schedule[s].site THEN StatusOf(p, e) ELSE "unread"
<1>. DEFINE d     == schedule[s].site
            old   == poll[p]
            known == [e \in Sites |-> IF e = d THEN StatusOf(p, d) ELSE "unread"]
            runs  == IF MayRun(p, d) THEN old.runs \cup {s} ELSE old.runs
            skips == IF MayRun(p, d) THEN old.skipped ELSE old.skipped \cup {s}
            new   == [at |-> old.at, due |-> old.due \ {s}, skipped |-> skips,
                      runs |-> runs, known |-> known]
<1>1. old # Asleep /\ s \in old.due  BY DEF Turn
<1>2. /\ old \in Session /\ old.at \in Nat /\ old.due \subseteq Monitors
      /\ old.skipped \subseteq Monitors /\ old.runs \subseteq Monitors
      /\ old.known \in [Sites -> VerifyStatus \cup {"unread"}]
      BY <1>1, SessionShape DEF MonitoringInv
<1>3. s \in InSession(p) /\ schedule[s] # NoRow
      BY <1>1 DEF MonitoringInv, SessionsHoldRows, InSession
<1>4. d \in Sites
      BY <1>3, RowShape, RowFields DEF MonitoringInv
<1>5. StatusOf(p, d) \in VerifyStatus \cup {"unread"}
      BY <1>2, <1>4 DEF StatusOf, MonitoringInv, MonitoringTypeOK, DomainRow
<1>6. /\ known \in [Sites -> VerifyStatus \cup {"unread"}]
      /\ runs \subseteq Monitors /\ skips \subseteq Monitors
      /\ old.due \ {s} \subseteq Monitors
      /\ (old.due \ {s}) \cup runs \cup skips = old.due \cup old.runs \cup old.skipped
      BY <1>1, <1>2, <1>4, <1>5
<1>7. poll' = [poll EXCEPT ![p] = new]  BY DEF Turn
<1>8. poll \in [Pollers -> Session \cup {Asleep}]
      BY DEF MonitoringInv, MonitoringTypeOK
<1>9. poll'[p] = new /\ \A q \in Pollers : q # p => poll'[q] = poll[q]
  <2>. HIDE DEF new
  <2>1. QED  BY <1>7, <1>8
<1>10. /\ new \in Session /\ new # Asleep
       /\ new.at = old.at /\ new.due = old.due \ {s} /\ new.runs = runs
       /\ new.skipped = skips /\ new.known = known
  <2>. HIDE DEF known, runs, skips
  <2>1. QED  BY <1>2, <1>6, SessionsAreSessions DEF Session
<1>. HIDE DEF known, new, runs, skips
<1>11. InSession(p)' = InSession(p)
       BY <1>6, <1>9, <1>10 DEF InSession, Handled
<1>12. QED  BY <1>1, <1>3, <1>4, <1>9, <1>10, <1>11 DEF known, runs

LEMMA TurnKeeps ==
    ASSUME MonitoringInv, NEW p \in Pollers, NEW s \in Monitors, Turn(p, s)
    PROVE  MonitoringInv'
<1>. DEFINE d == schedule[s].site
<1>1. UNCHANGED <<day, register, schedule, check, fresh, others, lastCheck,
                  passed, audited, crossed, doubled>>
      BY DEF Turn
<1>2. /\ poll[p] # Asleep /\ schedule[s] # NoRow /\ d \in Sites
      /\ \A q \in Pollers : q # p => poll'[q] = poll[q]
      /\ poll'[p] \in Session /\ poll'[p] # Asleep
      /\ poll'[p].at = poll[p].at
      /\ InSession(p)' = InSession(p)
      /\ poll'[p].runs = IF MayRun(p, d) THEN poll[p].runs \cup {s} ELSE poll[p].runs
      /\ s \in InSession(p)
      /\ \A e \in Sites : poll'[p].known[e] = IF e = d THEN StatusOf(p, e) ELSE "unread"
      BY TurnInSession
<1>3. \A q \in Pollers : poll'[q] # Asleep <=> poll[q] # Asleep  BY <1>2
<1>4. \A q \in Pollers : InSession(q)' = InSession(q)
      BY <1>2 DEF InSession, Handled
<1>5. StatusOf(p, d) = "verified" => d \in Passed
      BY <1>2 DEF StatusOf, MonitoringInv, SessionsHoldRows, OwnershipHolds
<1>. HIDE DEF d
<1>. USE DEF MonitoringInv
<1>6. MonitoringTypeOK'
  <2>1. poll' \in [Pollers -> Session \cup {Asleep}]
    <3>1. \A q \in Pollers : poll'[q] \in Session \cup {Asleep}
          BY <1>2 DEF MonitoringTypeOK
    <3>2. \E f : poll' = [poll EXCEPT ![p] = f]  BY DEF Turn
    <3>3. QED  BY <3>1, <3>2 DEF MonitoringTypeOK
  <2>2. QED  BY <1>1, <2>1 DEF MonitoringTypeOK
<1>7. OwnershipHolds'  BY <1>1, OwnershipFrame
<1>8. ChecksHoldRows'  BY <1>1, ChecksFrame
<1>9. SessionsHoldRows'
  <2>1. SUFFICES ASSUME NEW q \in Pollers, poll[q] # Asleep
                 PROVE  /\ poll'[q].at <= day
                        /\ \A t \in InSession(q) : schedule[t] # NoRow
                        /\ \A t \in poll'[q].runs : schedule[t].site \in Passed
                        /\ \A e \in Sites : poll'[q].known[e] = "verified" => e \in Passed
        BY <1>1, <1>3, <1>4 DEF SessionsHoldRows, Passed
  <2>2. /\ poll[q].at <= day
        /\ \A t \in InSession(q) : schedule[t] # NoRow
        /\ \A t \in poll[q].runs : schedule[t].site \in Passed
        /\ \A e \in Sites : poll[q].known[e] = "verified" => e \in Passed
        BY <2>1 DEF SessionsHoldRows
  <2>3. CASE q # p  BY <2>2, <2>3, <1>2
  <2>4. CASE q = p
    <3>1. \A e \in Sites : poll'[q].known[e] = "verified" => e \in Passed
          BY <2>4, <1>2, <1>5
    <3>2. \A t \in poll'[q].runs : schedule[t].site \in Passed
          BY <2>2, <2>4, <1>2, <1>5 DEF MayRun, d
    <3>3. QED  BY <2>2, <2>4, <1>2, <3>1, <3>2
  <2>5. QED  BY <2>3, <2>4
<1>10. OnePoller'
  <2>1. SUFFICES ASSUME ~doubled
                 PROVE  OnlySession' /\ ClocksAhead' /\ \A e \in Sites : fresh[e] <= 1
        BY <1>1 DEF OnePoller
  <2>2. OnlySession /\ ClocksAhead' /\ \A e \in Sites : fresh[e] <= 1
        BY <2>1, <1>1 DEF OnePoller, ClocksAhead
  <2>3. /\ \A q \in Pollers : poll[q] # Asleep => q = p
        /\ \A t \in InSession(p) : schedule[t].next <= poll[p].at
        /\ \A t, u \in poll[p].runs : schedule[t].site = schedule[u].site => t = u
        /\ \A t \in poll[p].runs : fresh[schedule[t].site] = 0
        BY <1>2, <2>2 DEF OnlySession
  <2>4. fresh[d] \in Nat  BY <1>2 DEF MonitoringTypeOK
  <2>5. MayRun(p, d) =>
           fresh[d] = 0 /\ \A t \in poll[p].runs : schedule[t].site # d
        BY <2>4 DEF MayRun, HasActiveRun
  <2>6. \A t, u \in poll'[p].runs : schedule[t].site = schedule[u].site => t = u
        BY <2>3, <2>5, <1>2 DEF d
  <2>7. \A t \in poll'[p].runs : fresh[schedule[t].site] = 0
        BY <2>3, <2>5, <1>2 DEF d
  <2>8. OnlySession'
        BY <1>1, <1>2, <1>3, <1>4, <2>3, <2>6, <2>7 DEF OnlySession
  <2>9. QED  BY <2>2, <2>8
<1>11. QED  BY <1>6, <1>7, <1>8, <1>9, <1>10

\* What a commit makes of a schedule: only a run's last moves, to the time of
\* the poll, and the next is then a cadence later.
LEMMA AdvancedRow ==
    ASSUME MonitoringTypeOK, NEW p \in Pollers, poll[p] # Asleep, NEW s \in Monitors,
           s \in Handled(p) => schedule[s].live
    PROVE  /\ Advanced(s, p) \in ScheduleRow \cup {NoRow}
           /\ Advanced(s, p) # NoRow <=> schedule[s] # NoRow
           /\ Advanced(s, p).site = schedule[s].site
           /\ Advanced(s, p).cadence = schedule[s].cadence
           /\ s \in poll[p].runs => Advanced(s, p).last = poll[p].at
           /\ s \notin poll[p].runs => Advanced(s, p).last = schedule[s].last
           /\ s \in Handled(p) =>
                 Advanced(s, p).next = poll[p].at + schedule[s].cadence
           /\ s \notin Handled(p) => Advanced(s, p) = schedule[s]
<1>. DEFINE row == schedule[s]
            now == poll[p].at
<1>1. now \in Nat  BY SessionShape
<1>2. row \in ScheduleRow \cup {NoRow}  BY DEF MonitoringTypeOK
<1>3. CASE s \notin Handled(p)
      BY <1>2, <1>3 DEF Advanced, Handled
<1>4. CASE s \in Handled(p)
  <2>1. row \in ScheduleRow /\ row # NoRow  BY <1>4, RowShape
  <2>2. row.cadence \in Nat  BY <2>1, RowFields
  <2>3. now + row.cadence \in Nat
        BY <1>1, <2>2
  <2>4. CASE s \in poll[p].runs
    <3>1. Advanced(s, p) = [row EXCEPT !.last = now, !.next = now + row.cadence]
          BY <1>1, <2>2, <2>4 DEF Advanced, NextRun
    <3>2. Advanced(s, p) \in ScheduleRow  BY <3>1, <2>1, <2>3, <1>1, RowsStayRows
    <3>3. Advanced(s, p) # NoRow  BY <3>2, RowsStayRows
    <3>4. /\ Advanced(s, p).site = row.site /\ Advanced(s, p).cadence = row.cadence
          /\ Advanced(s, p).last = now /\ Advanced(s, p).next = now + row.cadence
          BY <3>1, <2>1 DEF ScheduleRow
    <3>5. QED  BY <1>4, <2>1, <2>3, <2>4, <3>2, <3>3, <3>4
  <2>5. CASE s \notin poll[p].runs
    <3>1. Advanced(s, p) = [row EXCEPT !.next = now + row.cadence]
          BY <1>1, <1>4, <2>2, <2>5 DEF Advanced, NextRun, Handled
    <3>2. Advanced(s, p) \in ScheduleRow  BY <3>1, <2>1, <2>3, <1>1, RowsStayRows
    <3>3. Advanced(s, p) # NoRow  BY <3>2, RowsStayRows
    <3>4. /\ Advanced(s, p).site = row.site /\ Advanced(s, p).cadence = row.cadence
          /\ Advanced(s, p).last = row.last /\ Advanced(s, p).next = now + row.cadence
          BY <3>1, <2>1 DEF ScheduleRow
    <3>5. QED  BY <1>4, <2>1, <2>3, <2>5, <3>2, <3>3, <3>4
  <2>6. QED  BY <2>4, <2>5
<1>5. QED  BY <1>3, <1>4

LEMMA CommitPollKeeps ==
    ASSUME MonitoringInv, NEW p \in Pollers, CommitPoll(p)
    PROVE  MonitoringInv'
<1>. USE DEF MonitoringInv
<1>1. /\ poll[p] # Asleep
      /\ \A s \in Handled(p) : schedule[s].live
      /\ schedule' = [s \in Monitors |-> Advanced(s, p)]
      /\ fresh' = [d \in Sites |->
            IF RunsOf(p, d) = {} THEN fresh[d] ELSE fresh[d] + Cardinality(RunsOf(p, d))]
      /\ audited' = audited \cup {d \in Sites : RunsOf(p, d) # {}}
      /\ poll' = [poll EXCEPT ![p] = Asleep]
      /\ UNCHANGED <<day, register, check, others, lastCheck, passed, crossed, doubled>>
      BY DEF CommitPoll
<1>2. /\ poll[p].at \in Nat /\ poll[p].runs \subseteq Monitors
      /\ Handled(p) \subseteq Monitors /\ InSession(p) \subseteq Monitors
      BY <1>1, SessionShape DEF InSession
<1>3. ASSUME NEW s \in Monitors
      PROVE  /\ schedule'[s] \in ScheduleRow \cup {NoRow}
             /\ schedule'[s] # NoRow <=> schedule[s] # NoRow
             /\ schedule'[s].site = schedule[s].site
             /\ schedule'[s].cadence = schedule[s].cadence
             /\ s \in poll[p].runs => schedule'[s].last = poll[p].at
             /\ s \notin poll[p].runs => schedule'[s].last = schedule[s].last
             /\ s \in Handled(p) => schedule'[s].next = poll[p].at + schedule[s].cadence
             /\ s \notin Handled(p) => schedule'[s] = schedule[s]
      BY <1>1, AdvancedRow
<1>4. /\ poll'[p] = Asleep
      /\ \A q \in Pollers : q # p => poll'[q] = poll[q]
      BY <1>1 DEF MonitoringTypeOK
<1>5. ASSUME NEW d \in Sites
      PROVE  /\ IsFiniteSet(RunsOf(p, d)) /\ Cardinality(RunsOf(p, d)) \in Nat
             /\ fresh[d] \in Nat /\ fresh'[d] \in Nat
             /\ RunsOf(p, d) = {} => fresh'[d] = fresh[d]
             /\ RunsOf(p, d) # {} => fresh'[d] = fresh[d] + Cardinality(RunsOf(p, d))
  <2>1. RunsOf(p, d) \subseteq Monitors  BY <1>2 DEF RunsOf
  <2>2. IsFiniteSet(RunsOf(p, d))  BY <2>1, MonitoringAssumption, FS_Subset
  <2>3. Cardinality(RunsOf(p, d)) \in Nat  BY <2>2, FS_CardinalityType
  <2>4. fresh[d] \in Nat  BY DEF MonitoringTypeOK
  <2>5. QED  BY <1>1, <2>2, <2>3, <2>4
<1>6. MonitoringTypeOK'
  <2>1. schedule' \in [Monitors -> ScheduleRow \cup {NoRow}]  BY <1>1, <1>3
  <2>2. fresh' \in [Sites -> Nat]
    <3>1. fresh' = [d \in Sites |-> fresh'[d]]  BY <1>1
    <3>2. QED  BY <3>1, <1>5
  <2>3. QED  BY <1>1, <2>1, <2>2 DEF MonitoringTypeOK
<1>7. OwnershipHolds'
  <2>1. \A d \in Sites : RunsOf(p, d) # {} => d \in Passed
        BY <1>1 DEF SessionsHoldRows, RunsOf
  <2>2. audited' \subseteq Passed  BY <2>1, <1>1 DEF OwnershipHolds
  <2>3. QED  BY <2>2, <1>1 DEF OwnershipHolds, Passed
<1>8. ChecksHoldRows'  BY <1>1, ChecksFrame
<1>9. SessionsHoldRows'
  <2>1. SUFFICES ASSUME NEW q \in Pollers, poll'[q] # Asleep
                 PROVE  /\ poll'[q].at <= day
                        /\ \A s \in poll'[q].due \cup poll'[q].runs \cup poll'[q].skipped :
                              schedule'[s] # NoRow
                        /\ \A s \in poll'[q].runs : schedule'[s].site \in Passed
                        /\ \A d \in Sites : poll'[q].known[d] = "verified" => d \in Passed
        BY <1>1 DEF SessionsHoldRows, InSession, Handled, Passed
  <2>2. poll'[q] = poll[q] /\ poll[q] # Asleep  BY <2>1, <1>4
  <2>3. poll[q].due \cup poll[q].runs \cup poll[q].skipped \subseteq Monitors
        BY <2>2, SessionShape
  <2>4. QED  BY <2>2, <2>3, <1>3 DEF SessionsHoldRows, InSession, Handled
<1>10. OnePoller'
  <2>1. SUFFICES ASSUME ~doubled
                 PROVE  OnlySession' /\ ClocksAhead' /\ \A d \in Sites : fresh'[d] <= 1
        BY <1>1 DEF OnePoller
  <2>2. /\ \A q \in Pollers : poll[q] # Asleep => q = p
        /\ \A s \in InSession(p) : schedule[s].next <= poll[p].at
        /\ \A s, t \in poll[p].runs : schedule[s].site = schedule[t].site => s = t
        /\ \A s \in poll[p].runs : fresh[schedule[s].site] = 0
        BY <2>1, <1>1 DEF OnePoller, OnlySession
  <2>3. OnlySession'
    <3>1. \A q \in Pollers : poll'[q] = Asleep  BY <2>2, <1>4
    <3>2. QED  BY <3>1 DEF OnlySession
  <2>4. ClocksAhead'
    <3>1. SUFFICES ASSUME NEW s \in Monitors, schedule'[s] # NoRow,
                          schedule'[s].last # Never
                   PROVE  schedule'[s].next >= schedule'[s].last + schedule'[s].cadence
          BY DEF ClocksAhead
    <3>2. schedule[s] \in ScheduleRow /\ schedule[s] # NoRow
          BY <3>1, <1>3, RowShape
    <3>3. /\ schedule[s].cadence \in Nat /\ schedule[s].next \in Nat
          /\ schedule[s].last \in Int
          BY <3>2, RowFields
    <3>4. schedule[s].last # Never =>
             schedule[s].next >= schedule[s].last + schedule[s].cadence
          BY <2>1, <3>2 DEF OnePoller, ClocksAhead
    <3>5. CASE s \in poll[p].runs
          BY <3>3, <3>5, <1>2, <1>3 DEF Handled
    <3>6. CASE s \notin poll[p].runs /\ s \in Handled(p)
      <4>1. schedule[s].next <= poll[p].at  BY <3>6, <2>2 DEF InSession
      <4>2. /\ schedule'[s].next = poll[p].at + schedule[s].cadence
            /\ schedule'[s].last = schedule[s].last
            /\ schedule'[s].cadence = schedule[s].cadence
            BY <3>6, <1>3
      <4>3. QED  BY <4>1, <4>2, <3>1, <3>3, <3>4, <1>2
    <3>7. CASE s \notin Handled(p)
          BY <3>1, <3>4, <3>7, <1>3
    <3>8. QED  BY <3>5, <3>6, <3>7
  <2>5. ASSUME NEW d \in Sites  PROVE fresh'[d] <= 1
    <3>1. CASE RunsOf(p, d) = {}
          BY <2>1, <3>1, <1>5 DEF OnePoller
    <3>2. CASE RunsOf(p, d) # {}
      <4>1. PICK s \in RunsOf(p, d) : TRUE  BY <3>2
      <4>2. RunsOf(p, d) = {s} /\ fresh[d] = 0
            BY <4>1, <2>2 DEF RunsOf
      <4>3. Cardinality(RunsOf(p, d)) = 1  BY <4>2, FS_Singleton
      <4>4. fresh'[d] = fresh[d] + Cardinality(RunsOf(p, d))  BY <3>2, <1>5
      <4>5. fresh'[d] = 0 + 1  BY <4>2, <4>3, <4>4
      <4>6. QED  BY <4>5
    <3>3. QED  BY <3>1, <3>2
  <2>6. QED  BY <2>3, <2>4, <2>5
<1>11. QED  BY <1>6, <1>7, <1>8, <1>9, <1>10

LEMMA PollBreaksKeeps ==
    ASSUME MonitoringInv, NEW p \in Pollers, PollBreaks(p)
    PROVE  MonitoringInv'
<1>. USE DEF MonitoringInv
<1>1. /\ poll' = [poll EXCEPT ![p] = Asleep]
      /\ UNCHANGED <<day, register, schedule, check, fresh, others, lastCheck,
                     passed, audited, crossed, doubled>>
      BY DEF PollBreaks
<1>2. \A q \in Pollers : poll'[q] # Asleep => poll'[q] = poll[q] /\ poll[q] # Asleep
      BY <1>1 DEF MonitoringTypeOK
<1>3. MonitoringTypeOK'  BY <1>1 DEF MonitoringTypeOK
<1>4. OwnershipHolds'  BY <1>1, OwnershipFrame
<1>5. ChecksHoldRows'  BY <1>1, ChecksFrame
<1>6. SessionsHoldRows'
      BY <1>1, <1>2 DEF SessionsHoldRows, InSession, Handled, Passed
<1>7. OnePoller'
      BY <1>1, <1>2 DEF OnePoller, OnlySession, ClocksAhead, InSession, Handled
<1>8. QED  BY <1>3, <1>4, <1>5, <1>6, <1>7

-------------------------------------------------------------------------------
(***************************************************************************)
(* Monitoring: the theorems                                                *)
(***************************************************************************)
LEMMA SurroundingsKeep ==
    ASSUME MonitoringInv,
           \/ NextDay \/ \E d \in Sites : AuditEnds(d) \/ OtherAudit(d)
           \/ UNCHANGED monitoringVars
    PROVE  MonitoringInv'
<1>. USE DEF MonitoringInv
<1>1. /\ UNCHANGED <<register, schedule, poll, check, lastCheck, passed, audited,
                     crossed, doubled>>
      /\ day' \in 0..LastDay /\ day <= day' /\ day \in Nat /\ day' \in Nat
      /\ others' \subseteq Sites
      BY MonitoringAssumption
      DEF NextDay, AuditEnds, OtherAudit, monitoringVars, MonitoringTypeOK
<1>2. /\ fresh' \in [Sites -> Nat]
      /\ \A d \in Sites : fresh'[d] <= fresh[d]
      BY DEF NextDay, AuditEnds, OtherAudit, monitoringVars, MonitoringTypeOK
<1>3. MonitoringTypeOK'  BY <1>1, <1>2 DEF MonitoringTypeOK
<1>4. OwnershipHolds'  BY <1>1, OwnershipFrame
<1>5. ChecksHoldRows'  BY <1>1, ChecksFrame
<1>6. SessionsHoldRows'  BY <1>1, SessionsFrame DEF Passed
<1>7. OnePoller'
  <2>1. SUFFICES ASSUME ~doubled
                 PROVE  OnlySession' /\ ClocksAhead' /\ \A d \in Sites : fresh'[d] <= 1
        BY <1>1 DEF OnePoller
  <2>2. \A d \in Sites : fresh'[d] \in Nat /\ fresh[d] \in Nat
        BY <1>2 DEF MonitoringTypeOK
  <2>3. \A d \in Sites : fresh'[d] <= 1  BY <2>1, <2>2, <1>2 DEF OnePoller
  <2>4. ClocksAhead'  BY <2>1, <1>1 DEF OnePoller, ClocksAhead
  <2>5. \A d \in Sites : fresh[d] = 0 => fresh'[d] = 0  BY <2>2, <1>2
  <2>6. ASSUME NEW p \in Pollers, poll[p] # Asleep, NEW s \in poll[p].runs
        PROVE  schedule[s].site \in Sites
        BY <2>6, SessionShape, RowShape, RowFields
        DEF SessionsHoldRows, InSession, Handled
  <2>7. OnlySession'
        BY <2>1, <2>5, <2>6, <1>1 DEF OnePoller, OnlySession, InSession, Handled
  <2>8. QED  BY <2>3, <2>4, <2>7
<1>8. QED  BY <1>3, <1>4, <1>5, <1>6, <1>7

\* The inductive invariant of the register, the schedules and their polls.
THEOREM MonitoringInvariant == MonitoringSpec => []MonitoringInv
<1>1. MonitoringInit => MonitoringInv
  <2>1. SUFFICES ASSUME MonitoringInit PROVE MonitoringInv  OBVIOUS
  <2>2. NewDomain \in DomainRow BY DEF NewDomain, DomainRow, VerifyStatus
  <2>3. NewDomain.status = "pending"  BY DEF NewDomain
  <2>9. 0 \in 0..LastDay  BY MonitoringAssumption
  <2>4. MonitoringTypeOK
        BY <2>1, <2>2, <2>9 DEF MonitoringInit, MonitoringTypeOK
  <2>5. OwnershipHolds  BY <2>1, <2>3 DEF MonitoringInit, OwnershipHolds
  <2>6. ChecksHoldRows /\ SessionsHoldRows
        BY <2>1 DEF MonitoringInit, ChecksHoldRows, SessionsHoldRows
  <2>7. OnePoller
        BY <2>1 DEF MonitoringInit, OnePoller, OnlySession, ClocksAhead
  <2>8. QED  BY <2>4, <2>5, <2>6, <2>7 DEF MonitoringInv
<1>2. MonitoringInv /\ [MonitoringNext]_monitoringVars => MonitoringInv'
  <2>1. SUFFICES ASSUME MonitoringInv, [MonitoringNext]_monitoringVars
                 PROVE  MonitoringInv'
        OBVIOUS
  <2>2. CASE \E v \in Checks :
                \/ \E d \in Sites, m \in VerifyMethods : OpenCheck(v, d, m)
                \/ CloseCheck(v) \/ CheckBreaks(v)
        BY <2>1, <2>2, OpenCheckKeeps, CloseCheckKeeps, CheckBreaksKeeps
  <2>3. CASE \E s \in Monitors :
                \/ \E d \in Sites, c \in Cadences : CreateSchedule(s, d, c)
                \/ DeleteSchedule(s)
        BY <2>1, <2>3, CreateScheduleKeeps, DeleteScheduleKeeps
  <2>4. CASE \E p \in Pollers :
                \/ StartPoll(p) \/ CommitPoll(p) \/ PollBreaks(p)
                \/ \E s \in Monitors : Turn(p, s)
        BY <2>1, <2>4, StartPollKeeps, CommitPollKeeps, PollBreaksKeeps, TurnKeeps
  <2>5. CASE \/ NextDay \/ \E d \in Sites : AuditEnds(d) \/ OtherAudit(d)
             \/ UNCHANGED monitoringVars
        BY <2>1, <2>5, SurroundingsKeep
  <2>6. QED  BY <2>1, <2>2, <2>3, <2>4, <2>5 DEF MonitoringNext
<1>3. QED  BY <1>1, <1>2, PTL DEF MonitoringSpec

\* Every row, session and count of monitoring has its type.
THEOREM MonitoringTypeCorrect == MonitoringSpec => []MonitoringTypeOK
<1>1. MonitoringInv => MonitoringTypeOK  BY DEF MonitoringInv
<1>2. QED  BY <1>1, MonitoringInvariant, PTL

\* verify_domain and enqueue_due: a domain whose checks did not overlap shows what
\* the last one answered, and the method it is verified by has passed; whatever
\* overlapped, it is verified or audited on a schedule only after a check of it had
\* passed.  sso_mapping passes every time: what is proved of it is that it was asked.
THEOREM OwnershipIsChecked == MonitoringSpec => []OwnershipHolds
<1>1. MonitoringInv => OwnershipHolds  BY DEF MonitoringInv
<1>2. QED  BY <1>1, MonitoringInvariant, PTL

\* _has_active_run: a domain never has two scheduled audits of one scheduler.
THEOREM ScheduledAuditsAreAlone == MonitoringSpec => []OneScheduledAudit
<1>1. MonitoringInv => OneScheduledAudit
      BY DEF MonitoringInv, OnePoller, OneScheduledAudit
<1>2. QED  BY <1>1, MonitoringInvariant, PTL

\* A step that keeps a schedule's last run is no matter.
LEMMA CadenceFrame ==
    ASSUME \A s \in Monitors : schedule[s] # NoRow => schedule'[s].last = schedule[s].last
    PROVE  ~doubled' =>
              \A s \in Monitors :
                  LET row == schedule[s]  new == schedule'[s] IN
                  /\ row # NoRow /\ new.last # row.last /\ row.last # Never
                  => new.last - row.last >= row.cadence
OBVIOUS

\* next_run: the runs of a schedule are a cadence apart.
THEOREM RunsKeepTheirCadence == MonitoringSpec => CadenceKept
<1>. DEFINE Step == ~doubled' =>
                \A s \in Monitors :
                    LET row == schedule[s]  new == schedule'[s] IN
                    /\ row # NoRow /\ new.last # row.last /\ row.last # Never
                    => new.last - row.last >= row.cadence
<1>1. MonitoringInv /\ [MonitoringNext]_monitoringVars => Step
  <2>1. SUFFICES ASSUME MonitoringInv, [MonitoringNext]_monitoringVars PROVE Step
        OBVIOUS
  <2>2. ASSUME UNCHANGED schedule  PROVE Step
        BY <2>2
  <2>3. CASE \E s \in Monitors, d \in Sites, c \in Cadences : CreateSchedule(s, d, c)
    <3>1. \A s \in Monitors : schedule[s] # NoRow => schedule'[s].last = schedule[s].last
          BY <2>1, <2>3 DEF CreateSchedule, MonitoringInv, MonitoringTypeOK
    <3>2. QED  BY <3>1, CadenceFrame
  <2>4. CASE \E s \in Monitors : DeleteSchedule(s)
    <3>1. PICK s \in Monitors : DeleteSchedule(s)  BY <2>4
    <3>2. schedule[s] \in ScheduleRow
          BY <2>1, <3>1, RowShape DEF DeleteSchedule, MonitoringInv
    <3>3. [schedule[s] EXCEPT !.live = FALSE].last = schedule[s].last
          BY <3>2 DEF ScheduleRow
    <3>4. schedule' = [schedule EXCEPT ![s] = [schedule[s] EXCEPT !.live = FALSE]]
          BY <3>1 DEF DeleteSchedule
    <3>5. schedule'[s].last = schedule[s].last
          BY <2>1, <3>3, <3>4 DEF MonitoringInv, MonitoringTypeOK
    <3>6. \A t \in Monitors : schedule[t] # NoRow => schedule'[t].last = schedule[t].last
          BY <2>1, <3>4, <3>5 DEF MonitoringInv, MonitoringTypeOK
    <3>7. QED  BY <3>6, CadenceFrame
  <2>5. CASE \E p \in Pollers : CommitPoll(p)
    <3>1. PICK p \in Pollers : CommitPoll(p)  BY <2>5
    <3>2. /\ poll[p] # Asleep /\ doubled' = doubled
          /\ \A s \in Handled(p) : schedule[s].live
          /\ schedule' = [s \in Monitors |-> Advanced(s, p)]
          BY <3>1 DEF CommitPoll
    <3>3. SUFFICES ASSUME ~doubled, NEW s \in Monitors, schedule[s] # NoRow,
                          schedule'[s].last # schedule[s].last, schedule[s].last # Never
                   PROVE  schedule'[s].last - schedule[s].last >= schedule[s].cadence
          BY <3>2
    <3>4. s \in poll[p].runs /\ schedule'[s].last = poll[p].at
          BY <2>1, <3>2, <3>3, AdvancedRow DEF MonitoringInv
    <3>5. schedule[s].next <= poll[p].at
          BY <2>1, <3>2, <3>3, <3>4
          DEF MonitoringInv, OnePoller, OnlySession, InSession, Handled
    <3>6. schedule[s].next >= schedule[s].last + schedule[s].cadence
          BY <2>1, <3>3 DEF MonitoringInv, OnePoller, ClocksAhead
    <3>7. /\ schedule[s].next \in Nat /\ schedule[s].last \in Int
          /\ schedule[s].cadence \in Nat
          BY <2>1, <3>3, RowShape, RowFields DEF MonitoringInv
    <3>8. poll[p].at \in Nat  BY <2>1, <3>2, SessionShape DEF MonitoringInv
    <3>9. QED  BY <3>4, <3>5, <3>6, <3>7, <3>8
  <2>6. QED
        BY <2>1, <2>2, <2>3, <2>4, <2>5
        DEF MonitoringNext, monitoringVars, OpenCheck, CloseCheck, CheckBreaks,
            StartPoll, Turn, PollBreaks, NextDay, AuditEnds, OtherAudit
<1>2. QED  BY <1>1, MonitoringInvariant, PTL DEF MonitoringSpec, CadenceKept

-------------------------------------------------------------------------------
(***************************************************************************)
(* Page quota: rows and the trail                                          *)
(***************************************************************************)
LEMMA AskShape ==
    ASSUME NEW row \in AskRow
    PROVE  /\ row.pages \in Depths /\ row.pages \in Nat /\ row.pages > 0
           /\ row.status \in Decisions \cup {"pending"}
           /\ row.by \in Admins \cup {"nobody"}
           /\ row # NoAsk
<1>1. /\ row.pages \in Depths /\ row.status \in Decisions \cup {"pending"}
      /\ row.by \in Admins \cup {"nobody"}
      BY DEF AskRow
<1>2. \A n \in Depths : n \in Nat /\ n > 0  BY QuotaAssumption
<1>3. NoAsk.pages = 0  BY DEF NoAsk
<1>4. row # NoAsk  BY <1>1, <1>2, <1>3
<1>5. QED  BY <1>1, <1>2, <1>4

LEMMA DeskShape ==
    ASSUME QuotaTypeOK, NEW a \in Admins, desk[a] # Away
    PROVE  /\ desk[a] \in Loaded /\ desk[a].ask \in Asks /\ desk[a].row \in AskRow
           /\ ask[desk[a].ask] \in AskRow \cup {NoAsk}
BY DEF QuotaTypeOK, Loaded

LEMMA DesksAreDesks ==
    ASSUME NEW r \in Asks, NEW row \in AskRow
    PROVE  [ask |-> r, row |-> row] \in Loaded /\ [ask |-> r, row |-> row] # Away
BY DEF Loaded, Away

LEMMA AdmittedShape ==
    ASSUME QuotaTypeOK, NEW u \in Submissions, submission[u] # NotYet
    PROVE  /\ submission[u] \in Admitted /\ submission[u].depth \in Depths
           /\ submission[u].limit \in Nat /\ submission[u].upTo \in Nat
BY DEF QuotaTypeOK, Admitted

LEMMA TrailShape ==
    ASSUME QuotaTypeOK
    PROVE  /\ trail \in Seq(Decided) /\ Len(trail) \in Nat
           /\ \A i \in 1..Len(trail) :
                 /\ trail[i] \in Decided
                 /\ trail[i].ask \in Asks /\ trail[i].status \in Decisions
                 /\ trail[i].by \in Admins /\ trail[i].pages \in Depths
<1>1. trail \in Seq(Decided)  BY DEF QuotaTypeOK
<1>2. Len(trail) \in Nat  BY <1>1, LenProperties
<1>3. \A i \in 1..Len(trail) : trail[i] \in Decided  BY <1>1, ElementOfSeq
<1>4. QED  BY <1>1, <1>2, <1>3 DEF Decided

\* What is on a trail stays where it is, and stays the last of its request among
\* the first n entries.
Grown(t, g, e) ==
    /\ g \in Seq(Decided) /\ Len(g) = Len(t) + 1 /\ Len(t) \in Nat
    /\ \A i \in 1..Len(t) : g[i] = t[i]
    /\ g[Len(t) + 1] = e
    /\ \A r : \A n \in 0..Len(t) :
          /\ DecisionsOf(g, r, n) = DecisionsOf(t, r, n)
          /\ \A i : IsLast(g, i, r, n) <=> IsLast(t, i, r, n)

LEMMA TrailGrows ==
    ASSUME NEW t \in Seq(Decided), NEW e \in Decided
    PROVE  Grown(t, Append(t, e), e)
<1>. DEFINE g == Append(t, e)
<1>1. /\ g \in Seq(Decided) /\ Len(g) = Len(t) + 1 /\ Len(t) \in Nat
      /\ \A i \in 1..Len(t) : g[i] = t[i]
      /\ g[Len(t) + 1] = e
      BY AppendProperties, LenProperties
<1>. HIDE DEF g
<1>2. ASSUME NEW r, NEW n \in 0..Len(t)
      PROVE  DecisionsOf(g, r, n) = DecisionsOf(t, r, n)
  <2>1. \A i \in 1..n : i \in 1..Len(t)  BY <1>1, <1>2
  <2>2. \A i \in 1..n : g[i] = t[i]  BY <1>1, <2>1
  <2>3. QED  BY <2>2 DEF DecisionsOf
<1>3. ASSUME NEW r, NEW n \in 0..Len(t), NEW i
      PROVE  IsLast(g, i, r, n) <=> IsLast(t, i, r, n)
      BY <1>2, <1>3 DEF IsLast
<1>4. QED  BY <1>1, <1>2, <1>3 DEF Grown, g

\* A new entry is the last of its request, and changes no other's.
Newest(t, g, e) ==
    /\ \A i : IsLast(g, i, e.ask, Len(g)) <=> i = Len(t) + 1
    /\ DecisionsOf(g, e.ask, Len(g)) # {}
    /\ \A r : r # e.ask =>
          /\ DecisionsOf(g, r, Len(g)) = DecisionsOf(t, r, Len(t))
          /\ \A i : IsLast(g, i, r, Len(g)) <=> IsLast(t, i, r, Len(t))

LEMMA NewestIsLast ==
    ASSUME NEW t \in Seq(Decided), NEW e \in Decided
    PROVE  Newest(t, Append(t, e), e)
<1>. DEFINE N == Len(t)
            g == Append(t, e)
<1>1. /\ Len(g) = N + 1 /\ N \in Nat
      /\ \A i \in 1..N : g[i] = t[i]
      /\ g[N + 1] = e
      BY TrailGrows DEF Grown
<1>. HIDE DEF N, g
<1>2. N + 1 \in DecisionsOf(g, e.ask, N + 1) /\ \A j \in 1..(N + 1) : j <= N + 1
      BY <1>1 DEF DecisionsOf
<1>3. ASSUME NEW i  PROVE IsLast(g, i, e.ask, N + 1) <=> i = N + 1
  <2>1. \A j \in 1..(N + 1) : N + 1 <= j => j = N + 1  BY <1>1
  <2>2. DecisionsOf(g, e.ask, N + 1) \subseteq 1..(N + 1)  BY DEF DecisionsOf
  <2>3. QED  BY <1>2, <2>1, <2>2 DEF IsLast
<1>4. ASSUME NEW r, r # e.ask
      PROVE  DecisionsOf(g, r, N + 1) = DecisionsOf(t, r, N)
  <2>1. \A i : i \in 1..(N + 1) <=> i \in 1..N \/ i = N + 1  BY <1>1
  <2>2. QED  BY <1>1, <1>4, <2>1 DEF DecisionsOf
<1>5. ASSUME NEW r, r # e.ask, NEW i
      PROVE  IsLast(g, i, r, N + 1) <=> IsLast(t, i, r, N)
      BY <1>4, <1>5 DEF IsLast
<1>6. QED  BY <1>1, <1>2, <1>3, <1>4, <1>5 DEF Newest, N, g

-------------------------------------------------------------------------------
(***************************************************************************)
(* Page quota: what a step leaves alone                                    *)
(***************************************************************************)
LEMMA DesksFrame ==
    ASSUME DesksHoldRows, UNCHANGED <<ask, desk, collided>>
    PROVE  DesksHoldRows'
BY DEF DesksHoldRows

LEMMA TrailFrame ==
    ASSUME TrailMatchesRow, RowsAreOnTrail, TrailIsOfRows, UNCHANGED <<ask, trail>>,
           collided \subseteq collided'
    PROVE  TrailMatchesRow' /\ RowsAreOnTrail' /\ TrailIsOfRows'
<1>1. TrailMatchesRow'
      BY DEF TrailMatchesRow
<1>2. RowsAreOnTrail'
      BY DEF RowsAreOnTrail
<1>3. TrailIsOfRows'
      BY DEF TrailIsOfRows
<1>4. QED  BY <1>1, <1>2, <1>3

LEMMA SubmissionsFrame ==
    ASSUME AdmittedEarlier, DeepAuditsWereApproved, UNCHANGED <<trail, submission>>,
           collided \subseteq collided'
    PROVE  AdmittedEarlier' /\ DeepAuditsWereApproved'
<1>1. AdmittedEarlier'  BY DEF AdmittedEarlier
<1>2. DeepAuditsWereApproved'  BY DEF DeepAuditsWereApproved
<1>3. QED  BY <1>1, <1>2

-------------------------------------------------------------------------------
(***************************************************************************)
(* Page quota: requests                                                    *)
(***************************************************************************)
LEMMA CreateRequestKeeps ==
    ASSUME QuotaInv, NEW r \in Asks, NEW n \in Depths, CreateRequest(r, n)
    PROVE  QuotaInv'
<1>. DEFINE new == [pages |-> n, status |-> "pending", by |-> "nobody"]
<1>. USE DEF QuotaInv
<1>1. /\ ask[r] = NoAsk
      /\ ask' = [ask EXCEPT ![r] = new]
      /\ UNCHANGED <<freePages, trail, desk, submission, collided>>
      BY DEF CreateRequest
<1>2. new \in AskRow /\ new.status = "pending" /\ new.pages = n
      BY DEF AskRow
<1>. HIDE DEF new
<1>3. new # NoAsk  BY <1>2, AskShape
<1>4. /\ ask'[r] = new
      /\ \A q \in Asks : q # r => ask'[q] = ask[q]
      BY <1>1 DEF QuotaTypeOK
<1>5. QuotaTypeOK'
      BY <1>1, <1>2 DEF QuotaTypeOK
<1>6. \A i \in 1..Len(trail) : trail[i].ask \in Asks /\ trail[i].ask # r
      BY <1>1, TrailShape DEF TrailIsOfRows
<1>7. DesksHoldRows'
  <2>1. \A a \in Admins : desk[a] # Away => desk[a].ask \in Asks /\ desk[a].ask # r
        BY <1>1, DeskShape DEF DesksHoldRows
  <2>2. QED  BY <1>1, <1>4, <2>1 DEF DesksHoldRows
<1>8. DecisionsOf(trail, r, Len(trail)) = {} /\ \A i : ~IsLast(trail, i, r, Len(trail))
      BY <1>6 DEF DecisionsOf, IsLast
<1>9. TrailMatchesRow'
  <2>1. SUFFICES ASSUME NEW q \in Asks \ collided
                 PROVE  /\ ask'[q] = NoAsk \/ ask'[q].status = "pending" <=>
                              DecisionsOf(trail, q, Len(trail)) = {}
                        /\ \A i \in 1..Len(trail) : IsLast(trail, i, q, Len(trail)) =>
                              ask'[q] = [pages |-> trail[i].pages,
                                         status |-> trail[i].status, by |-> trail[i].by]
    <3>1. trail' = trail /\ collided' = collided  BY <1>1
    <3>2. QED  BY <3>1, Zenon DEF TrailMatchesRow
  <2>2. CASE q = r  BY <2>2, <1>2, <1>4, <1>8
  <2>3. CASE q # r  BY <2>3, <1>4 DEF TrailMatchesRow
  <2>4. QED  BY <2>2, <2>3
<1>10. RowsAreOnTrail'
  <2>1. \A q \in Asks : ask'[q] # NoAsk /\ ask'[q].status = "approved" =>
            q # r /\ ask'[q] = ask[q]
        BY <1>2, <1>4
  <2>2. QED  BY <2>1, <1>1 DEF RowsAreOnTrail
<1>11. TrailIsOfRows'
      BY <1>1, <1>4, <1>6 DEF TrailIsOfRows
<1>12. AdmittedEarlier' /\ DeepAuditsWereApproved'
      BY <1>1, SubmissionsFrame
<1>13. QED  BY <1>5, <1>7, <1>9, <1>10, <1>11, <1>12

LEMMA OpenRequestKeeps ==
    ASSUME QuotaInv, NEW a \in Admins, NEW r \in Asks, OpenRequest(a, r)
    PROVE  QuotaInv'
<1>. DEFINE new == [ask |-> r, row |-> ask[r]]
<1>. USE DEF QuotaInv
<1>1. /\ desk[a] = Away /\ ask[r] # NoAsk
      /\ desk' = [desk EXCEPT ![a] = new]
      /\ collided \subseteq collided' /\ collided' \subseteq collided \cup {r}
      /\ UNCHANGED <<freePages, ask, trail, submission>>
      BY DEF OpenRequest
<1>2. r \notin collided' => \A b \in Admins : desk[b] # Away => desk[b].ask # r
      BY DEF OpenRequest
<1>3. ask[r] \in AskRow  BY <1>1 DEF QuotaTypeOK
<1>4. new \in Loaded /\ new # Away /\ new.ask = r /\ new.row = ask[r]
      BY <1>3, DesksAreDesks
<1>. HIDE DEF new
<1>5. /\ desk'[a] = new
      /\ \A b \in Admins : b # a => desk'[b] = desk[b]
      BY <1>1 DEF QuotaTypeOK
<1>6. QuotaTypeOK'  BY <1>1, <1>4 DEF QuotaTypeOK
<1>7. DesksHoldRows'
  <2>1. SUFFICES ASSUME NEW b \in Admins, desk'[b] # Away
                 PROVE  /\ ask[desk'[b].ask] # NoAsk
                        /\ desk'[b].ask \notin collided' =>
                              /\ desk'[b].row = ask[desk'[b].ask]
                              /\ \A c \in Admins :
                                    desk'[c] # Away /\ desk'[c].ask = desk'[b].ask => c = b
        BY <1>1 DEF DesksHoldRows
  <2>2. CASE b = a
    <3>1. r \notin collided' =>
             \A c \in Admins : desk'[c] # Away /\ desk'[c].ask = r => c = a
          BY <1>2, <1>5
    <3>2. QED  BY <2>2, <3>1, <1>1, <1>4, <1>5
  <2>3. CASE b # a
    <3>1. desk'[b] = desk[b] /\ desk[b] # Away  BY <2>1, <2>3, <1>5
    <3>2. desk[b].ask \notin collided' => desk[b].ask # r
          BY <1>2, <3>1
    <3>3. ASSUME NEW c \in Admins, desk'[c] # Away, desk'[c].ask = desk[b].ask
          PROVE  IF c = a THEN desk[b].ask = r ELSE desk'[c] = desk[c]
          BY <3>3, <1>4, <1>5
    <3>4. QED  BY <3>1, <3>2, <3>3, <1>1 DEF DesksHoldRows
  <2>4. QED  BY <2>2, <2>3
<1>8. TrailMatchesRow' /\ RowsAreOnTrail' /\ TrailIsOfRows'
      BY <1>1, TrailFrame
<1>9. AdmittedEarlier' /\ DeepAuditsWereApproved'
      BY <1>1, SubmissionsFrame
<1>10. QED  BY <1>6, <1>7, <1>8, <1>9

LEMMA DecisionBreaksKeeps ==
    ASSUME QuotaInv, NEW a \in Admins, DecisionBreaks(a)
    PROVE  QuotaInv'
<1>. USE DEF QuotaInv
<1>1. /\ desk' = [desk EXCEPT ![a] = Away]
      /\ UNCHANGED <<freePages, ask, trail, submission, collided>>
      BY DEF DecisionBreaks
<1>2. QuotaTypeOK'  BY <1>1 DEF QuotaTypeOK
<1>3. \A b \in Admins : desk'[b] # Away => desk'[b] = desk[b] /\ desk[b] # Away
      BY <1>1 DEF QuotaTypeOK
<1>4. DesksHoldRows'  BY <1>1, <1>3 DEF DesksHoldRows
<1>5. TrailMatchesRow' /\ RowsAreOnTrail' /\ TrailIsOfRows'
      BY <1>1, TrailFrame
<1>6. AdmittedEarlier' /\ DeepAuditsWereApproved'
      BY <1>1, SubmissionsFrame
<1>7. QED  BY <1>2, <1>4, <1>5, <1>6

\* What a decision stores, when no other was open meanwhile; and otherwise it is
\* approved only if it was or the decision says so.
Stored(l, row, verdict, a) ==
    LET new == Authored(l, row, verdict, a) IN
    /\ new \in AskRow /\ new.pages = row.pages
    /\ l = row => new = [pages |-> row.pages, status |-> verdict, by |-> a]
    /\ new.status = "approved" =>
          verdict = "approved" \/ (row.status = "approved" /\ l # row)

LEMMA DecisionIsStored ==
    ASSUME NEW l \in AskRow, NEW row \in AskRow, NEW verdict \in Decisions, NEW a \in Admins
    PROVE  Stored(l, row, verdict, a)
<1>. DEFINE status == IF verdict = l.status THEN row.status ELSE verdict
            by     == IF a = l.by THEN row.by ELSE a
<1>1. /\ row.status \in Decisions \cup {"pending"}
      /\ row.by \in Admins \cup {"nobody"} /\ row.pages \in Depths
      BY DEF AskRow
<1>2. Authored(l, row, verdict, a) = [row EXCEPT !.status = status, !.by = by]
      BY DEF Authored, Rewritten
<1>3. /\ status \in Decisions \cup {"pending"} /\ by \in Admins \cup {"nobody"}
      BY <1>1
<1>4. l = row => status = verdict /\ by = a
      OBVIOUS
<1>5. status = "approved" => verdict = "approved" \/ (row.status = "approved" /\ l # row)
      BY <1>4
<1>. HIDE DEF status, by
<1>6. Authored(l, row, verdict, a) = [pages |-> row.pages, status |-> status, by |-> by]
      BY <1>2 DEF AskRow
<1>7. Authored(l, row, verdict, a) \in AskRow  BY <1>1, <1>3, <1>6 DEF AskRow
<1>8. QED  BY <1>4, <1>5, <1>6, <1>7 DEF Stored

LEMMA DecideRequestKeeps ==
    ASSUME QuotaInv, NEW a \in Admins, NEW verdict \in Decisions, DecideRequest(a, verdict)
    PROVE  QuotaInv'
<1>. DEFINE r   == desk[a].ask
            l   == desk[a].row
            e   == [ask |-> r, status |-> verdict, by |-> a, pages |-> ask[r].pages]
            new == Authored(l, ask[r], verdict, a)
<1>. USE DEF QuotaInv
<1>1. /\ desk[a] # Away
      /\ ask' = [ask EXCEPT ![r] = new]
      /\ trail' = Append(trail, e)
      /\ desk' = [desk EXCEPT ![a] = Away]
      /\ UNCHANGED <<freePages, submission, collided>>
      BY DEF DecideRequest
<1>2. /\ r \in Asks /\ l \in AskRow /\ ask[r] \in AskRow
      /\ r \notin collided => l = ask[r]
      BY <1>1, DeskShape DEF DesksHoldRows
<1>18. /\ new \in AskRow /\ new.pages = ask[r].pages
       /\ l = ask[r] => new = [pages |-> ask[r].pages, status |-> verdict, by |-> a]
       /\ new.status = "approved" =>
             verdict = "approved" \/ (ask[r].status = "approved" /\ l # ask[r])
  <2>1. Stored(l, ask[r], verdict, a)  BY <1>2, DecisionIsStored
  <2>2. QED  BY <2>1 DEF Stored
<1>3. /\ new \in AskRow /\ new # NoAsk /\ new.pages = ask[r].pages
      /\ r \notin collided =>
            new = [pages |-> ask[r].pages, status |-> verdict, by |-> a]
      /\ new.status = "approved" =>
            verdict = "approved" \/ (ask[r].status = "approved" /\ r \in collided)
      BY <1>2, <1>18, AskShape
<1>4. /\ e \in Decided /\ e.ask = r /\ e.status = verdict /\ e.by = a
      /\ e.pages = ask[r].pages
      BY <1>2, AskShape DEF Decided
<1>. HIDE DEF r, l, e, new
<1>5. /\ ask'[r] = new
      /\ \A q \in Asks : q # r => ask'[q] = ask[q]
      BY <1>1, <1>2 DEF QuotaTypeOK
<1>6. trail \in Seq(Decided)  BY DEF QuotaTypeOK
<1>19. Grown(trail, trail', e)  BY <1>1, <1>4, <1>6, TrailGrows
<1>20. Newest(trail, trail', e)  BY <1>1, <1>4, <1>6, NewestIsLast
<1>7. /\ trail' \in Seq(Decided) /\ Len(trail') = Len(trail) + 1 /\ Len(trail) \in Nat
      /\ \A i \in 1..Len(trail) : trail'[i] = trail[i]
      /\ trail'[Len(trail) + 1] = e
      /\ \A q : \A n \in 0..Len(trail) :
            /\ DecisionsOf(trail', q, n) = DecisionsOf(trail, q, n)
            /\ \A i : IsLast(trail', i, q, n) <=> IsLast(trail, i, q, n)
      BY <1>19 DEF Grown
<1>8. /\ \A i : IsLast(trail', i, r, Len(trail')) <=> i = Len(trail) + 1
      /\ DecisionsOf(trail', r, Len(trail')) # {}
      /\ \A q : q # r =>
            /\ DecisionsOf(trail', q, Len(trail')) = DecisionsOf(trail, q, Len(trail))
            /\ \A i : IsLast(trail', i, q, Len(trail')) <=> IsLast(trail, i, q, Len(trail))
      BY <1>4, <1>20 DEF Newest
<1>9. \A i : i \in 1..Len(trail') <=> i \in 1..Len(trail) \/ i = Len(trail) + 1
      BY <1>7
<1>10. QuotaTypeOK'  BY <1>1, <1>3, <1>7 DEF QuotaTypeOK
<1>11. DesksHoldRows'
  <2>1. SUFFICES ASSUME NEW b \in Admins, desk'[b] # Away
                 PROVE  /\ ask'[desk'[b].ask] # NoAsk
                        /\ desk'[b].ask \notin collided =>
                              /\ desk'[b].row = ask'[desk'[b].ask]
                              /\ \A c \in Admins :
                                    desk'[c] # Away /\ desk'[c].ask = desk'[b].ask => c = b
        BY <1>1 DEF DesksHoldRows
  <2>2. \A c \in Admins : desk'[c] # Away => c # a /\ desk'[c] = desk[c] /\ desk[c] # Away
        BY <1>1 DEF QuotaTypeOK
  <2>3. b # a /\ desk'[b] = desk[b] /\ desk[b] # Away /\ desk[b].ask \in Asks
        BY <2>1, <2>2, DeskShape
  <2>4. desk[b].ask \notin collided => desk[b].ask # r
        BY <2>3, <1>1 DEF DesksHoldRows, r
  <2>5. CASE desk[b].ask = r
        BY <2>3, <2>4, <2>5, <1>3, <1>5
  <2>6. CASE desk[b].ask # r
        BY <2>2, <2>3, <2>6, <1>5 DEF DesksHoldRows
  <2>7. QED  BY <2>5, <2>6
<1>12. TrailMatchesRow'
  <2>1. SUFFICES ASSUME NEW q \in Asks \ collided
                 PROVE  /\ ask'[q] = NoAsk \/ ask'[q].status = "pending" <=>
                              DecisionsOf(trail', q, Len(trail')) = {}
                        /\ \A i \in 1..Len(trail') : IsLast(trail', i, q, Len(trail')) =>
                              ask'[q] = [pages |-> trail'[i].pages,
                                         status |-> trail'[i].status, by |-> trail'[i].by]
        BY <1>1 DEF TrailMatchesRow
  <2>2. CASE q = r
    <3>1. ask'[q] = [pages |-> ask[r].pages, status |-> verdict, by |-> a]
          BY <2>1, <2>2, <1>3, <1>5
    <3>2. ask'[q].status # "pending" /\ ask'[q] # NoAsk
          BY <3>1, <2>2, <1>3, <1>5 DEF Decisions
    <3>3. QED  BY <3>1, <3>2, <2>2, <1>4, <1>7, <1>8
  <2>3. CASE q # r
    <3>1. \A i : IsLast(trail, i, q, Len(trail)) => i \in 1..Len(trail)
          BY DEF IsLast, DecisionsOf
    <3>2. /\ ask'[q] = ask[q]
          /\ DecisionsOf(trail', q, Len(trail')) = DecisionsOf(trail, q, Len(trail))
          /\ \A i : IsLast(trail', i, q, Len(trail')) =>
                i \in 1..Len(trail) /\ IsLast(trail, i, q, Len(trail)) /\ trail'[i] = trail[i]
          BY <2>1, <2>3, <3>1, <1>5, <1>7, <1>8
    <3>3. /\ ask[q] = NoAsk \/ ask[q].status = "pending" <=>
                DecisionsOf(trail, q, Len(trail)) = {}
          /\ \A i \in 1..Len(trail) : IsLast(trail, i, q, Len(trail)) =>
                ask[q] = [pages |-> trail[i].pages,
                          status |-> trail[i].status, by |-> trail[i].by]
          BY <2>1 DEF TrailMatchesRow
    <3>4. QED  BY <3>2, <3>3
  <2>4. QED  BY <2>2, <2>3
<1>13. RowsAreOnTrail'
  <2>1. SUFFICES ASSUME NEW q \in Asks, ask'[q] # NoAsk, ask'[q].status = "approved"
                 PROVE  \E i \in 1..Len(trail') :
                            /\ trail'[i].ask = q /\ trail'[i].status = "approved"
                            /\ trail'[i].pages = ask'[q].pages
                            /\ q \in collided \/ IsLast(trail', i, q, Len(trail'))
        BY <1>1 DEF RowsAreOnTrail
  <2>2. CASE q = r /\ verdict = "approved"
        BY <2>2, <1>3, <1>4, <1>5, <1>7, <1>8, <1>9
  <2>3. CASE q = r /\ verdict # "approved"
    <3>1. ask[r].status = "approved" /\ r \in collided
          BY <2>1, <2>3, <1>3, <1>5
    <3>2. PICK i \in 1..Len(trail) :
              trail[i].ask = r /\ trail[i].status = "approved" /\ trail[i].pages = ask[r].pages
          BY <3>1, <1>2, AskShape DEF RowsAreOnTrail
    <3>3. QED  BY <2>3, <3>1, <3>2, <1>3, <1>5, <1>7, <1>9
  <2>4. CASE q # r
    <3>1. ask'[q] = ask[q]  BY <2>4, <1>5
    <3>2. PICK i \in 1..Len(trail) :
              /\ trail[i].ask = q /\ trail[i].status = "approved"
              /\ trail[i].pages = ask[q].pages
              /\ q \in collided \/ IsLast(trail, i, q, Len(trail))
          BY <2>1, <3>1 DEF RowsAreOnTrail
    <3>3. QED  BY <2>4, <3>1, <3>2, <1>7, <1>8, <1>9
  <2>5. QED  BY <2>2, <2>3, <2>4
<1>14. TrailIsOfRows'
  <2>1. SUFFICES ASSUME NEW i \in 1..Len(trail')
                 PROVE  /\ ask'[trail'[i].ask] # NoAsk
                        /\ trail'[i].pages = ask'[trail'[i].ask].pages
        BY DEF TrailIsOfRows
  <2>2. CASE i = Len(trail) + 1
        BY <2>2, <1>3, <1>4, <1>5, <1>7
  <2>3. CASE i \in 1..Len(trail)
    <3>1. trail'[i] = trail[i] /\ trail[i].ask \in Asks  BY <2>3, <1>7, TrailShape
    <3>2. ask[trail[i].ask] # NoAsk /\ trail[i].pages = ask[trail[i].ask].pages
          BY <2>3 DEF TrailIsOfRows
    <3>3. CASE trail[i].ask = r  BY <3>1, <3>2, <3>3, <1>3, <1>5
    <3>4. CASE trail[i].ask # r  BY <3>1, <3>2, <3>4, <1>5
    <3>5. QED  BY <3>3, <3>4
  <2>4. QED  BY <2>1, <2>2, <2>3, <1>9
<1>15. AdmittedEarlier'
      BY <1>1, <1>7 DEF AdmittedEarlier
<1>16. DeepAuditsWereApproved'
  <2>1. SUFFICES ASSUME NEW u \in Submissions, submission[u] # NotYet,
                        submission[u].depth > submission[u].limit
                 PROVE  \E i \in 1..submission[u].upTo :
                            /\ trail'[i].status = "approved"
                            /\ trail'[i].pages >= submission[u].depth
                            /\ \/ trail'[i].ask \in collided
                               \/ IsLast(trail', i, trail'[i].ask, submission[u].upTo)
        BY <1>1 DEF DeepAuditsWereApproved
  <2>2. submission[u].upTo \in 0..Len(trail)  BY <2>1 DEF AdmittedEarlier
  <2>3. PICK i \in 1..submission[u].upTo :
            /\ trail[i].status = "approved" /\ trail[i].pages >= submission[u].depth
            /\ trail[i].ask \in collided \/ IsLast(trail, i, trail[i].ask, submission[u].upTo)
        BY <2>1 DEF DeepAuditsWereApproved
  <2>4. i \in 1..Len(trail)  BY <2>2, <2>3, <1>7
  <2>5. trail'[i] = trail[i]  BY <2>4, <1>7
  <2>6. IsLast(trail', i, trail[i].ask, submission[u].upTo)
           <=> IsLast(trail, i, trail[i].ask, submission[u].upTo)
        BY <2>2, <1>7
  <2>7. QED  BY <2>3, <2>5, <2>6
<1>17. QED  BY <1>10, <1>11, <1>12, <1>13, <1>14, <1>15, <1>16

-------------------------------------------------------------------------------
(***************************************************************************)
(* Page quota: submissions                                                 *)
(***************************************************************************)
LEMMA AdmitKeeps ==
    ASSUME QuotaInv, NEW u \in Submissions, NEW n \in Depths, Admit(u, n)
    PROVE  QuotaInv'
<1>. DEFINE new == [depth |-> n, limit |-> freePages, upTo |-> Len(trail)]
<1>. USE DEF QuotaInv
<1>1. /\ n <= freePages \/ ApprovedPages(n)
      /\ submission' = [submission EXCEPT ![u] = new]
      /\ UNCHANGED <<freePages, ask, trail, desk, collided>>
      BY DEF Admit
<1>2. Len(trail) \in Nat /\ freePages \in Nat /\ n \in Nat
      BY TrailShape, QuotaAssumption DEF QuotaTypeOK
<1>3. /\ new \in Admitted /\ new.depth = n /\ new.limit = freePages
      /\ new.upTo = Len(trail)
      BY <1>2 DEF Admitted
<1>. HIDE DEF new
<1>4. /\ submission'[u] = new
      /\ \A v \in Submissions : v # u => submission'[v] = submission[v]
      BY <1>1 DEF QuotaTypeOK
<1>5. QuotaTypeOK'  BY <1>1, <1>3 DEF QuotaTypeOK
<1>6. DesksHoldRows'  BY <1>1, DesksFrame
<1>7. TrailMatchesRow' /\ RowsAreOnTrail' /\ TrailIsOfRows'
      BY <1>1, TrailFrame
<1>8. AdmittedEarlier'
  <2>1. Len(trail) \in 0..Len(trail)  BY <1>2
  <2>2. QED  BY <2>1, <1>1, <1>3, <1>4 DEF AdmittedEarlier
<1>9. n > freePages =>
         \E i \in 1..Len(trail) :
             /\ trail[i].status = "approved" /\ trail[i].pages >= n
             /\ trail[i].ask \in collided \/ IsLast(trail, i, trail[i].ask, Len(trail))
  <2>1. SUFFICES ASSUME n > freePages
                 PROVE  \E i \in 1..Len(trail) :
                            /\ trail[i].status = "approved" /\ trail[i].pages >= n
                            /\ \/ trail[i].ask \in collided
                               \/ IsLast(trail, i, trail[i].ask, Len(trail))
        OBVIOUS
  <2>2. ~(n <= freePages)  BY <2>1, <1>2
  <2>3. PICK r \in Asks : /\ ask[r] # NoAsk /\ ask[r].status = "approved"
                          /\ ask[r].pages >= n
        BY <2>2, <1>1 DEF ApprovedPages
  <2>4. PICK i \in 1..Len(trail) :
            /\ trail[i].ask = r /\ trail[i].status = "approved"
            /\ trail[i].pages = ask[r].pages
            /\ r \in collided \/ IsLast(trail, i, r, Len(trail))
        BY <2>3 DEF RowsAreOnTrail
  <2>5. QED  BY <2>3, <2>4
<1>10. DeepAuditsWereApproved'
  <2>1. SUFFICES ASSUME NEW v \in Submissions, submission'[v] # NotYet,
                        submission'[v].depth > submission'[v].limit
                 PROVE  \E i \in 1..submission'[v].upTo :
                            /\ trail[i].status = "approved"
                            /\ trail[i].pages >= submission'[v].depth
                            /\ \/ trail[i].ask \in collided
                               \/ IsLast(trail, i, trail[i].ask, submission'[v].upTo)
        BY <1>1 DEF DeepAuditsWereApproved
  <2>2. CASE v = u  BY <2>1, <2>2, <1>3, <1>4, <1>9
  <2>3. CASE v # u  BY <2>1, <2>3, <1>4 DEF DeepAuditsWereApproved
  <2>4. QED  BY <2>2, <2>3
<1>11. QED  BY <1>5, <1>6, <1>7, <1>8, <1>10

LEMMA OthersKeepQuota ==
    ASSUME QuotaInv,
           \/ \E n \in Depths : SetFreePages(n)
           \/ UNCHANGED quotaVars
    PROVE  QuotaInv'
<1>. USE DEF QuotaInv
<1>1. /\ UNCHANGED <<ask, trail, desk, submission, collided>>
      /\ freePages' \in Nat
      BY QuotaAssumption DEF SetFreePages, quotaVars, QuotaTypeOK
<1>2. QuotaTypeOK'  BY <1>1 DEF QuotaTypeOK
<1>3. DesksHoldRows'  BY <1>1, DesksFrame
<1>4. TrailMatchesRow' /\ RowsAreOnTrail' /\ TrailIsOfRows'
      BY <1>1, TrailFrame
<1>5. AdmittedEarlier' /\ DeepAuditsWereApproved'
      BY <1>1, SubmissionsFrame
<1>6. QED  BY <1>2, <1>3, <1>4, <1>5

-------------------------------------------------------------------------------
(***************************************************************************)
(* Page quota: the theorems                                                *)
(***************************************************************************)

\* The inductive invariant of the requests, the log and the submissions.
THEOREM QuotaInvariant == QuotaSpec => []QuotaInv
<1>1. QuotaInit => QuotaInv
  <2>1. SUFFICES ASSUME QuotaInit PROVE QuotaInv  OBVIOUS
  <2>2. /\ trail = <<>> /\ Len(trail) = 0 /\ trail \in Seq(Decided)
        BY <2>1, EmptySeq DEF QuotaInit
  <2>3. QuotaTypeOK
        BY <2>1, <2>2, QuotaAssumption DEF QuotaInit, QuotaTypeOK
  <2>4. DesksHoldRows /\ AdmittedEarlier /\ DeepAuditsWereApproved /\ RowsAreOnTrail
        BY <2>1 DEF QuotaInit, DesksHoldRows, AdmittedEarlier, DeepAuditsWereApproved,
                    RowsAreOnTrail
  <2>5. \A i : i \notin 1..Len(trail)  BY <2>2
  <2>6. TrailMatchesRow /\ TrailIsOfRows
        BY <2>1, <2>5 DEF QuotaInit, TrailMatchesRow, TrailIsOfRows, DecisionsOf
  <2>7. QED  BY <2>3, <2>4, <2>6 DEF QuotaInv
<1>2. QuotaInv /\ [QuotaNext]_quotaVars => QuotaInv'
  <2>1. SUFFICES ASSUME QuotaInv, [QuotaNext]_quotaVars PROVE QuotaInv'  OBVIOUS
  <2>2. CASE \E r \in Asks, n \in Depths : CreateRequest(r, n)
        BY <2>1, <2>2, CreateRequestKeeps
  <2>3. CASE \E a \in Admins :
                \/ \E r \in Asks : OpenRequest(a, r)
                \/ \E verdict \in Decisions : DecideRequest(a, verdict)
                \/ DecisionBreaks(a)
        BY <2>1, <2>3, OpenRequestKeeps, DecideRequestKeeps, DecisionBreaksKeeps
  <2>4. CASE \E u \in Submissions, n \in Depths : Admit(u, n)
        BY <2>1, <2>4, AdmitKeeps
  <2>5. CASE \E n \in Depths : SetFreePages(n)
        BY <2>1, <2>5, OthersKeepQuota
  <2>6. CASE QuotaNext
    <3>1. \/ \E n \in Depths : SetFreePages(n)
          \/ \E r \in Asks, n \in Depths : CreateRequest(r, n)
          \/ \E a \in Admins :
                \/ \E r \in Asks : OpenRequest(a, r)
                \/ \E verdict \in Decisions : DecideRequest(a, verdict)
                \/ DecisionBreaks(a)
          \/ \E u \in Submissions, n \in Depths : Admit(u, n)
          BY <2>6, Zenon DEF QuotaNext
    <3>2. QED  BY <3>1, <2>2, <2>3, <2>4, <2>5, Zenon
  <2>7. CASE UNCHANGED quotaVars  BY <2>1, <2>7, OthersKeepQuota
  <2>8. QED  BY <2>1, <2>6, <2>7
<1>3. QED  BY <1>1, <1>2, PTL DEF QuotaSpec

\* Every row, log entry and session of the quota has its type.
THEOREM QuotaTypeCorrect == QuotaSpec => []QuotaTypeOK
<1>1. QuotaInv => QuotaTypeOK  BY DEF QuotaInv
<1>2. QED  BY <1>1, QuotaInvariant, PTL

\* audit_log.record in decide_request: a request shows what the log says of it.
THEOREM DecisionsAreTraceable == QuotaSpec => []TrailMatchesRow
<1>1. QuotaInv => TrailMatchesRow  BY DEF QuotaInv
<1>2. QED  BY <1>1, QuotaInvariant, PTL

\* submit_audit: audits beyond the limit rest on a logged approval.
THEOREM DeepAuditsRestOnApproval == QuotaSpec => []DeepAuditsWereApproved
<1>1. QuotaInv => DeepAuditsWereApproved  BY DEF QuotaInv
<1>2. QED  BY <1>1, QuotaInvariant, PTL
===============================================================================
