--------------------------- MODULE PublicScanProofs ---------------------------
(***************************************************************************)
(* Proofs about PublicScan, for any number of requests, scans and any free *)
(* limit: its types, the two limits, and the order in which scans are      *)
(* served.                                                                 *)
(***************************************************************************)
EXTENDS PublicScan, SequenceTheorems, TLAPS

-------------------------------------------------------------------------------
(***************************************************************************)
(* The inductive invariant: the limits                                     *)
(***************************************************************************)

\* What was let through is counted, or its request is about to count it.
FreeIsCounted ==
    ~hasty => /\ freely <= Free
              /\ \/ freely <= hits.n
                 \/ freely <= hits.n + 1 /\ \E q \in Requests : pc[q] = "hit"

\* A challenge that is still there and that nobody is about to burn was not used.
CaptchaIsBurnt ==
    ~shared => /\ passed <= 1
               /\ challenge /\ (\A q \in Requests : pc[q] # "burn") => passed = 0

-------------------------------------------------------------------------------
(***************************************************************************)
(* The inductive invariant: the scans                                      *)
(***************************************************************************)
InStream(t) == \E i \in 1..Len(stream) : stream[i] = t

AtXadd(t) == \E q \in Requests : pc[q] = "xadd" /\ scan[q] = t

\* No scan is in two hands.
ScansApart ==
    /\ \A p, q \in Requests : scan[p] # 0 /\ scan[p] = scan[q] => p = q
    /\ \A q \in Requests : scan[q] # 0 => ~InStream(scan[q]) /\ scan[q] # wscan
    /\ \A i, j \in 1..Len(stream) : stream[i] = stream[j] => i = j
    /\ wscan # 0 => ~InStream(wscan)

\* A waiting scan has somebody who brings it on, or was abandoned.
ScansHeld ==
    /\ \A q \in Requests : pc[q] = "xadd" => scan[q] \in Waiting
    /\ \A t \in Waiting : t \in abandoned \/ t = wscan \/ InStream(t) \/ AtXadd(t)

\* A request that nobody overlapped has the newest scan,
NewestUntangled ==
    \A q \in Requests : scan[q] # 0 => scan[q] \in tangled \/ scan[q] = Len(status)

\* so the stream is in the order of created_at.
StreamInOrder ==
    /\ \A i, j \in 1..Len(stream) : i < j => stream[j] \in tangled \/ stream[i] <= stream[j]
    /\ \A i \in 1..Len(stream) : stream[i] \in tangled \/ wscan <= stream[i]

ScansInv == ScansApart /\ ScansHeld /\ NewestUntangled /\ StreamInOrder

PublicInv == PublicTypeOK /\ FreeIsCounted /\ CaptchaIsBurnt /\ ScansInv

-------------------------------------------------------------------------------
(***************************************************************************)
(* Sequences                                                               *)
(***************************************************************************)

Statuses == {"none", "queued", "running", "completed", "failed"}

\* A sequence is one over any set that holds its elements.
LEMMA SeqOver ==
    ASSUME NEW S, NEW T, NEW s \in Seq(S), \A i \in 1..Len(s) : s[i] \in T
    PROVE  s \in Seq(T)
<1>1. Len(s) \in Nat /\ s \in [1..Len(s) -> S]  BY LenProperties
<1>2. s \in [1..Len(s) -> T]  BY <1>1
<1>3. QED  BY <1>1, <1>2, SeqDef

LEMMA SeqAppend ==
    ASSUME NEW S, NEW s \in Seq(S), NEW e \in S
    PROVE  /\ Len(s) \in Nat
           /\ Append(s, e) \in Seq(S)
           /\ Len(Append(s, e)) = Len(s) + 1
           /\ \A i \in 1..Len(s) : Append(s, e)[i] = s[i]
           /\ Append(s, e)[Len(s) + 1] = e
BY AppendProperties, LenProperties

LEMMA SeqTail ==
    ASSUME NEW S, NEW s \in Seq(S), s # <<>>
    PROVE  /\ Len(s) \in Nat \ {0}
           /\ Tail(s) \in Seq(S)
           /\ Len(Tail(s)) = Len(s) - 1
           /\ \A i \in 1..Len(Tail(s)) : Tail(s)[i] = s[i + 1]
           /\ Head(s) = s[1] /\ Head(s) \in S
<1>1. Len(s) \in Nat \ {0}  BY LenProperties, EmptySeq
<1>2. Head(s) = s[1] /\ Tail(s) \in Seq(S) /\ Len(Tail(s)) = Len(s) - 1
      /\ \A i \in 1..Len(Tail(s)) : Tail(s)[i] = s[i + 1]
      BY <1>1, HeadTailProperties
<1>3. s[1] \in S  BY <1>1, ElementOfSeq
<1>4. QED  BY <1>1, <1>2, <1>3

\* A status is overwritten.
LEMMA SeqExcept ==
    ASSUME NEW S, NEW s \in Seq(S), NEW i \in 1..Len(s), NEW e \in S
    PROVE  /\ [s EXCEPT ![i] = e] \in Seq(S)
           /\ Len([s EXCEPT ![i] = e]) = Len(s)
           /\ \A j \in 1..Len(s) : [s EXCEPT ![i] = e][j] = IF j = i THEN e ELSE s[j]
BY ExceptSeq, LenProperties

-------------------------------------------------------------------------------
(***************************************************************************)
(* The limits                                                              *)
(***************************************************************************)
LimitTypes ==
    /\ hits \in [n : Nat, ttl : BOOLEAN]
    /\ challenge \in BOOLEAN
    /\ pc \in [Requests -> Places]
    /\ freely \in Nat /\ passed \in Nat
    /\ hasty \in BOOLEAN /\ shared \in BOOLEAN

LimitsInv == LimitTypes /\ FreeIsCounted /\ CaptchaIsBurnt

LEMMA FreeNat == Free \in Nat /\ MaxScans \in Nat
BY PublicScanAssumption

LEMMA GotoFacts ==
    ASSUME pc \in [Requests -> Places], NEW q \in Requests, NEW place \in Places,
           Goto(q, place)
    PROVE  /\ pc' \in [Requests -> Places]
           /\ pc'[q] = place /\ \A p \in Requests \ {q} : pc'[p] = pc[p]
BY Zenon DEF Goto

LEMMA NoCountFacts == NoCount \in [n : Nat, ttl : BOOLEAN] /\ NoCount.n = 0
<1>1. NoCount.n = 0 /\ 0 \in Nat /\ FALSE \in BOOLEAN  BY DEF NoCount
<1>2. NoCount \in [n : Nat, ttl : BOOLEAN]  BY <1>1, Zenon DEF NoCount
<1>3. QED  BY <1>1, <1>2

LEMMA TtlFacts ==
    ASSUME NEW r \in [n : Nat, ttl : BOOLEAN], NEW b \in BOOLEAN
    PROVE  /\ [r EXCEPT !.ttl = b] \in [n : Nat, ttl : BOOLEAN]
           /\ [r EXCEPT !.ttl = b].n = r.n
BY Zenon

\* A request moves between places where no limit is in use.
LEMMA LimitsUntouched ==
    ASSUME LimitsInv, NEW q \in Requests, NEW place \in Places, Goto(q, place),
           UNCHANGED limitVars, pc[q] \notin {"hit", "burn"}
    PROVE  LimitsInv'
<1>1. /\ pc' \in [Requests -> Places]
      /\ pc'[q] = place /\ \A p \in Requests \ {q} : pc'[p] = pc[p]
      BY GotoFacts DEF LimitsInv, LimitTypes
<1>2. LimitTypes'  BY <1>1 DEF LimitsInv, LimitTypes, limitVars
<1>3. /\ (\E p \in Requests : pc[p] = "hit") => \E p \in Requests : pc'[p] = "hit"
      /\ (\E p \in Requests : pc[p] = "burn") => \E p \in Requests : pc'[p] = "burn"
      BY <1>1
<1>4. FreeIsCounted'  BY <1>3 DEF LimitsInv, FreeIsCounted, limitVars
<1>5. CaptchaIsBurnt'  BY <1>3 DEF LimitsInv, CaptchaIsBurnt, limitVars
<1>6. QED  BY <1>2, <1>4, <1>5 DEF LimitsInv

LEMMA LimitsStep ==
    ASSUME LimitsInv, [PublicNext]_scanVars
    PROVE  LimitsInv'
<1>t. /\ hits \in [n : Nat, ttl : BOOLEAN] /\ hits.n \in Nat
      /\ challenge \in BOOLEAN /\ pc \in [Requests -> Places]
      /\ freely \in Nat /\ passed \in Nat /\ hasty \in BOOLEAN /\ shared \in BOOLEAN
      /\ FreeIsCounted /\ CaptchaIsBurnt /\ Free \in Nat
      BY FreeNat DEF LimitsInv, LimitTypes
<1>p. {"idle", "count", "captcha", "burn", "hit", "window", "insert", "xadd"} = Places
      BY DEF Places
<1>1. ASSUME NEW q \in Requests, Begin(q) PROVE LimitsInv'
      BY <1>1, <1>p, LimitsUntouched DEF Begin
<1>2. ASSUME NEW q \in Requests, CountFree(q) PROVE LimitsInv'
  <2>1. /\ hits.n < Free /\ Goto(q, "hit")
        /\ hasty' = (hasty \/ Others(q, {"hit"}) # {})
        /\ freely' = IF hasty' THEN 0 ELSE freely + 1
        /\ UNCHANGED <<hits, challenge, passed, shared>> /\ pc[q] = "count"
        BY <1>2 DEF CountFree
  <2>2. /\ pc' \in [Requests -> Places]
        /\ pc'[q] = "hit" /\ \A p \in Requests \ {q} : pc'[p] = pc[p]
        BY <1>t, <1>p, <2>1, GotoFacts
  <2>3. LimitTypes'  BY <1>t, <2>1, <2>2 DEF LimitTypes
  <2>4. CaptchaIsBurnt'  BY <1>t, <2>1, <2>2 DEF CaptchaIsBurnt
  <2>5. ~hasty' => ~hasty /\ \A p \in Requests : pc[p] # "hit"
        BY <2>1 DEF Others
  <2>6. FreeIsCounted'  BY <1>t, <2>1, <2>2, <2>5 DEF FreeIsCounted
  <2>7. QED  BY <2>3, <2>4, <2>6 DEF LimitsInv
<1>3. ASSUME NEW q \in Requests, CountFull(q) PROVE LimitsInv'
      BY <1>3, <1>p, LimitsUntouched DEF CountFull
<1>4. ASSUME NEW q \in Requests, CountRaises(q) PROVE LimitsInv'
  <2>1. /\ pc[q] = "count" /\ Goto(q, "hit") /\ hasty' = TRUE /\ freely' = 0
        /\ UNCHANGED <<hits, challenge, passed, shared>>
        BY <1>4 DEF CountRaises
  <2>2. /\ pc' \in [Requests -> Places]
        /\ pc'[q] = "hit" /\ \A p \in Requests \ {q} : pc'[p] = pc[p]
        BY <1>t, <1>p, <2>1, GotoFacts
  <2>3. LimitTypes'  BY <1>t, <2>1, <2>2 DEF LimitTypes
  <2>4. CaptchaIsBurnt' /\ FreeIsCounted'
        BY <1>t, <2>1, <2>2 DEF CaptchaIsBurnt, FreeIsCounted
  <2>5. QED  BY <2>3, <2>4 DEF LimitsInv
<1>5. ASSUME IssueCaptcha PROVE LimitsInv'
  <2>1. /\ challenge' = TRUE /\ passed' = 0
        /\ shared' = (\E q \in Requests : pc[q] = "burn")
        /\ UNCHANGED <<hits, freely, hasty, pc>>
        BY <1>5 DEF IssueCaptcha, requestVars
  <2>2. LimitTypes'  BY <1>t, <2>1 DEF LimitTypes
  <2>3. CaptchaIsBurnt' /\ FreeIsCounted'
        BY <1>t, <2>1 DEF CaptchaIsBurnt, FreeIsCounted
  <2>4. QED  BY <2>2, <2>3 DEF LimitsInv
<1>6. ASSUME NEW q \in Requests, SolveCaptcha(q) PROVE LimitsInv'
  <2>1. /\ pc[q] = "captcha" /\ challenge /\ Goto(q, "burn")
        /\ shared' = (shared \/ Others(q, {"burn"}) # {})
        /\ passed' = IF shared' THEN 0 ELSE passed + 1
        /\ UNCHANGED <<hits, challenge, freely, hasty>>
        BY <1>6 DEF SolveCaptcha
  <2>2. /\ pc' \in [Requests -> Places]
        /\ pc'[q] = "burn" /\ \A p \in Requests \ {q} : pc'[p] = pc[p]
        BY <1>t, <1>p, <2>1, GotoFacts
  <2>3. LimitTypes'  BY <1>t, <2>1, <2>2 DEF LimitTypes
  <2>4. FreeIsCounted'  BY <1>t, <2>1, <2>2 DEF FreeIsCounted
  <2>5. ~shared' => ~shared /\ \A p \in Requests : pc[p] # "burn"
        BY <2>1 DEF Others
  <2>6. CaptchaIsBurnt'  BY <1>t, <2>1, <2>2, <2>5 DEF CaptchaIsBurnt
  <2>7. QED  BY <2>3, <2>4, <2>6 DEF LimitsInv
<1>7. ASSUME NEW q \in Requests, MissCaptcha(q) PROVE LimitsInv'
  <2>1. /\ pc[q] = "captcha" /\ challenge' \in {challenge, FALSE} /\ Goto(q, "idle")
        /\ UNCHANGED <<hits, freely, hasty, passed, shared>>
        BY <1>7 DEF MissCaptcha, Ends
  <2>2. /\ pc' \in [Requests -> Places]
        /\ pc'[q] = "idle" /\ \A p \in Requests \ {q} : pc'[p] = pc[p]
        BY <1>t, <1>p, <2>1, GotoFacts
  <2>3. LimitTypes'  BY <1>t, <2>1, <2>2 DEF LimitTypes
  <2>4. CaptchaIsBurnt'  BY <1>t, <2>1, <2>2 DEF CaptchaIsBurnt
  <2>5. FreeIsCounted'  BY <1>t, <2>1, <2>2 DEF FreeIsCounted
  <2>6. QED  BY <2>3, <2>4, <2>5 DEF LimitsInv
<1>8. ASSUME NEW q \in Requests, BurnCaptcha(q) PROVE LimitsInv'
  <2>1. /\ pc[q] = "burn" /\ challenge' = FALSE /\ Goto(q, "hit")
        /\ UNCHANGED <<hits, freely, hasty, passed, shared>>
        BY <1>8 DEF BurnCaptcha
  <2>2. /\ pc' \in [Requests -> Places]
        /\ pc'[q] = "hit" /\ \A p \in Requests \ {q} : pc'[p] = pc[p]
        BY <1>t, <1>p, <2>1, GotoFacts
  <2>3. LimitTypes'  BY <1>t, <2>1, <2>2 DEF LimitTypes
  <2>4. CaptchaIsBurnt' /\ FreeIsCounted'
        BY <1>t, <2>1, <2>2 DEF CaptchaIsBurnt, FreeIsCounted
  <2>5. QED  BY <2>3, <2>4 DEF LimitsInv
<1>9. ASSUME NEW q \in Requests, BurnRaises(q) PROVE LimitsInv'
  <2>1. /\ pc[q] = "burn" /\ shared' = TRUE /\ passed' = 0 /\ Goto(q, "idle")
        /\ UNCHANGED <<hits, challenge, freely, hasty>>
        BY <1>9 DEF BurnRaises, Ends
  <2>2. /\ pc' \in [Requests -> Places]
        /\ pc'[q] = "idle" /\ \A p \in Requests \ {q} : pc'[p] = pc[p]
        BY <1>t, <1>p, <2>1, GotoFacts
  <2>3. LimitTypes'  BY <1>t, <2>1, <2>2 DEF LimitTypes
  <2>4. CaptchaIsBurnt' /\ FreeIsCounted'
        BY <1>t, <2>1, <2>2 DEF CaptchaIsBurnt, FreeIsCounted
  <2>5. QED  BY <2>3, <2>4 DEF LimitsInv
<1>10. ASSUME NEW q \in Requests, Hit(q) PROVE LimitsInv'
  <2>1. /\ pc[q] = "hit" /\ hits' = [hits EXCEPT !.n = hits.n + 1]
        /\ Goto(q, IF hits.n = 0 THEN "window" ELSE "insert")
        /\ UNCHANGED <<challenge, freely, hasty, passed, shared>>
        BY <1>10 DEF Hit
  <2>2. PICK place \in {"window", "insert"} : Goto(q, place)  BY <2>1
  <2>3. /\ pc' \in [Requests -> Places]
        /\ pc'[q] = place /\ \A p \in Requests \ {q} : pc'[p] = pc[p]
        BY <1>t, <1>p, <2>2, GotoFacts
  <2>4. hits' \in [n : Nat, ttl : BOOLEAN] /\ hits'.n = hits.n + 1  BY <1>t, <2>1
  <2>5. LimitTypes'  BY <1>t, <2>1, <2>3, <2>4 DEF LimitTypes
  <2>6. CaptchaIsBurnt'  BY <1>t, <2>1, <2>3 DEF CaptchaIsBurnt
  <2>7. FreeIsCounted'  BY <1>t, <2>1, <2>4 DEF FreeIsCounted
  <2>8. QED  BY <2>5, <2>6, <2>7 DEF LimitsInv
<1>11. ASSUME NEW q \in Requests, Window(q) PROVE LimitsInv'
  <2>1. /\ pc[q] = "window" /\ hits' = [hits EXCEPT !.ttl = (hits.n > 0)]
        /\ Goto(q, "insert")
        /\ UNCHANGED <<challenge, freely, hasty, passed, shared>>
        BY <1>11 DEF Window
  <2>2. /\ pc' \in [Requests -> Places]
        /\ pc'[q] = "insert" /\ \A p \in Requests \ {q} : pc'[p] = pc[p]
        BY <1>t, <1>p, <2>1, GotoFacts
  <2>b. (hits.n > 0) \in BOOLEAN  OBVIOUS
  <2>3. hits' \in [n : Nat, ttl : BOOLEAN] /\ hits'.n = hits.n
        BY <1>t, <2>1, <2>b, TtlFacts, Zenon
  <2>4. LimitTypes'  BY <1>t, <2>1, <2>2, <2>3 DEF LimitTypes
  <2>5. CaptchaIsBurnt'  BY <1>t, <2>1, <2>2 DEF CaptchaIsBurnt
  <2>6. FreeIsCounted'  BY <1>t, <2>1, <2>2, <2>3 DEF FreeIsCounted
  <2>7. QED  BY <2>4, <2>5, <2>6 DEF LimitsInv
<1>12. ASSUME NEW q \in Requests, HitRaises(q) PROVE LimitsInv'
  <2>1. /\ pc[q] \in {"hit", "window"} /\ hasty' = TRUE /\ freely' = 0
        /\ Goto(q, "insert") /\ UNCHANGED <<hits, challenge, passed, shared>>
        BY <1>12 DEF HitRaises
  <2>2. /\ pc' \in [Requests -> Places]
        /\ pc'[q] = "insert" /\ \A p \in Requests \ {q} : pc'[p] = pc[p]
        BY <1>t, <1>p, <2>1, GotoFacts
  <2>3. LimitTypes'  BY <1>t, <2>1, <2>2 DEF LimitTypes
  <2>4. CaptchaIsBurnt' /\ FreeIsCounted'
        BY <1>t, <2>1, <2>2 DEF CaptchaIsBurnt, FreeIsCounted
  <2>5. QED  BY <2>3, <2>4 DEF LimitsInv
<1>13. ASSUME NEW q \in Requests, Insert(q) PROVE LimitsInv'
      BY <1>13, <1>p, LimitsUntouched DEF Insert
<1>14. ASSUME NEW q \in Requests, Enqueue(q) PROVE LimitsInv'
      BY <1>14, <1>p, LimitsUntouched DEF Enqueue, Ends
<1>15. ASSUME NEW q \in Requests, RequestBreaks(q) PROVE LimitsInv'
  <2>1. /\ Goto(q, "idle") /\ UNCHANGED <<hits, challenge>>
        /\ hasty' = (hasty \/ pc[q] \in {"hit", "window"})
        /\ freely' = IF hasty' THEN 0 ELSE freely
        /\ shared' = (shared \/ pc[q] = "burn")
        /\ passed' = IF shared' THEN 0 ELSE passed
        BY <1>15 DEF RequestBreaks, Ends
  <2>2. /\ pc' \in [Requests -> Places]
        /\ pc'[q] = "idle" /\ \A p \in Requests \ {q} : pc'[p] = pc[p]
        BY <1>t, <1>p, <2>1, GotoFacts
  <2>3. LimitTypes'  BY <1>t, <2>1, <2>2 DEF LimitTypes
  <2>4. CaptchaIsBurnt'  BY <1>t, <2>1, <2>2 DEF CaptchaIsBurnt
  <2>5. FreeIsCounted'  BY <1>t, <2>1, <2>2 DEF FreeIsCounted
  <2>6. QED  BY <2>3, <2>4, <2>5 DEF LimitsInv
<1>16. ASSUME TtlOver PROVE LimitsInv'
  <2>1. /\ UNCHANGED <<pc, passed, shared>>
        /\ \/ /\ hits' = NoCount /\ freely' = 0
              /\ hasty' = (\E q \in Requests : pc[q] = "hit") /\ UNCHANGED challenge
           \/ challenge' = FALSE /\ UNCHANGED <<hits, freely, hasty>>
        BY <1>16 DEF TtlOver, requestVars
  <2>2. LimitTypes'  BY <1>t, <2>1, NoCountFacts, Zenon DEF LimitTypes
  <2>3. CaptchaIsBurnt'  BY <1>t, <2>1 DEF CaptchaIsBurnt
  <2>4. FreeIsCounted'
    <3>1. CASE hits' = NoCount /\ freely' = 0
      <4>1. hits'.n = 0  BY <3>1, NoCountFacts
      <4>2. QED  BY <1>t, <3>1, <4>1 DEF FreeIsCounted
    <3>2. CASE UNCHANGED <<hits, freely, hasty>>
          BY <1>t, <2>1, <3>2 DEF FreeIsCounted
    <3>3. QED  BY <2>1, <3>1, <3>2
  <2>5. QED  BY <2>2, <2>3, <2>4 DEF LimitsInv
<1>17. ASSUME Work \/ WorkerBreaks \/ UNCHANGED scanVars PROVE LimitsInv'
  <2>1. UNCHANGED <<hits, challenge, freely, hasty, passed, shared, pc>>
        BY <1>17
        DEF Work, Take, Start, Finish, Ack, WorkerBreaks, scanVars, limitVars, requestVars
  <2>2. QED  BY <2>1 DEF LimitsInv, LimitTypes, FreeIsCounted, CaptchaIsBurnt
<1>18. QED
       BY <1>1, <1>2, <1>3, <1>4, <1>5, <1>6, <1>7, <1>8, <1>9, <1>10, <1>11, <1>12,
          <1>13, <1>14, <1>15, <1>16, <1>17, Zenon DEF PublicNext, Proceed

-------------------------------------------------------------------------------
(***************************************************************************)
(* The scans                                                               *)
(***************************************************************************)
ScanTypes ==
    /\ status \in Seq(Statuses) /\ Len(status) <= MaxScans
    /\ stream \in Seq(Nat) /\ (\A i \in 1..Len(stream) : stream[i] \in Waiting)
    /\ wpc \in {"idle", "taken", "engine", "ack"}
    /\ wscan \in 0..Len(status)
    /\ wpc = "idle" <=> wscan = 0
    /\ wpc = "ack" => wscan \in Ended
    /\ scan \in [Requests -> 0..Len(status)]
    /\ pc \in [Requests -> Places]
    /\ tangled \subseteq Scans
    /\ abandoned \subseteq Scans

ScanPart == ScanTypes /\ ScansInv

LEMMA ScanFacts ==
    ASSUME ScanPart
    PROVE  /\ Len(status) \in Nat /\ Len(stream) \in Nat
           /\ Waiting \subseteq 1..Len(status) /\ Ended \subseteq 1..Len(status)
           /\ Waiting \cap Ended = {}
           /\ \A q \in Requests : scan[q] \in 0..Len(status)
           /\ \A i \in 1..Len(stream) : stream[i] \in Waiting /\ stream[i] \in Nat
BY LenProperties DEF ScanPart, ScanTypes, Waiting, Ended, Scans

\* A request that keeps its scan, away from the stream, or the limits alone.
LEMMA ScansUntouched ==
    ASSUME ScanPart, UNCHANGED <<status, stream, wpc, wscan, scan, tangled, abandoned>>,
           pc' \in [Requests -> Places],
           \A q \in Requests : pc'[q] = "xadd" <=> pc[q] = "xadd"
    PROVE  ScanPart'
<1>1. Waiting' = Waiting /\ Ended' = Ended /\ Scans' = Scans
      BY DEF Waiting, Ended, Scans
<1>2. ScanTypes'  BY <1>1 DEF ScanPart, ScanTypes
<1>3. ScansApart' /\ NewestUntangled' /\ StreamInOrder'
      BY DEF ScanPart, ScansInv, ScansApart, InStream, NewestUntangled, StreamInOrder
<1>4. ScansHeld'
      BY <1>1 DEF ScanPart, ScansInv, ScansHeld, InStream, AtXadd
<1>5. QED  BY <1>2, <1>3, <1>4 DEF ScanPart, ScansInv

\* A request ends, and abandons a scan that it has not enqueued.
LEMMA ScansReleased ==
    ASSUME ScanPart, NEW q \in Requests, Ends(q),
           UNCHANGED <<status, stream, wpc, wscan, tangled>>,
           abandoned \subseteq abandoned', abandoned' \subseteq Scans,
           pc[q] = "xadd" => scan[q] \in abandoned'
    PROVE  ScanPart'
<1>t. ScanTypes /\ ScansApart /\ ScansHeld /\ NewestUntangled /\ StreamInOrder
      BY DEF ScanPart, ScansInv
<1>1. Waiting' = Waiting /\ Ended' = Ended /\ Scans' = Scans
      BY DEF Waiting, Ended, Scans
<1>2. /\ pc' \in [Requests -> Places]
      /\ pc'[q] = "idle" /\ \A p \in Requests \ {q} : pc'[p] = pc[p]
      BY <1>t, GotoFacts DEF Ends, ScanTypes, Places
<1>3. /\ scan' \in [Requests -> 0..Len(status)]
      /\ scan'[q] = 0 /\ \A p \in Requests \ {q} : scan'[p] = scan[p]
      BY <1>t, ScanFacts DEF Ends, ScanTypes
<1>4. ScanTypes'  BY <1>t, <1>1, <1>2, <1>3 DEF ScanTypes
<1>5. ScansApart'  BY <1>t, <1>3 DEF ScansApart, InStream
<1>6. NewestUntangled' /\ StreamInOrder'
      BY <1>t, <1>3 DEF NewestUntangled, StreamInOrder
<1>7. ScansHeld'
      BY <1>t, <1>1, <1>2, <1>3 DEF ScansHeld, InStream, AtXadd
<1>8. QED  BY <1>4, <1>5, <1>6, <1>7 DEF ScanPart, ScansInv

\* A request takes its place in the order of created_at.
LEMMA ScanTaken ==
    ASSUME ScanPart, NEW q \in Requests, NEW st \in {"none", "queued"},
           TakeCreatedAt(q, st), pc[q] # "xadd",
           UNCHANGED <<stream, wpc, wscan, abandoned>>,
           pc' \in [Requests -> Places], \A p \in Requests \ {q} : pc'[p] = pc[p],
           pc'[q] = "xadd" <=> st = "queued"
    PROVE  ScanPart'
<1>t. ScanTypes /\ ScansApart /\ ScansHeld /\ NewestUntangled /\ StreamInOrder
      BY DEF ScanPart, ScansInv
<1> DEFINE n == Len(status) + 1
<1>1. /\ n \in Nat /\ n <= MaxScans /\ MaxScans \in Nat
      /\ status' = Append(status, st) /\ scan' = [scan EXCEPT ![q] = n]
      /\ tangled \subseteq tangled' /\ tangled' \subseteq tangled \cup Underway \cup {n}
      /\ Underway # {} => Underway \subseteq tangled' /\ n \in tangled'
      BY FreeNat, ScanFacts DEF TakeCreatedAt
<1>2. /\ status' \in Seq(Statuses) /\ Len(status') = n /\ status'[n] = st
      /\ \A t \in 1..Len(status) : status'[t] = status[t]
      BY <1>t, <1>1, SeqAppend DEF ScanTypes, Statuses
<1> HIDE DEF n
<1>n. Len(status) \in Nat /\ n = Len(status) + 1  BY ScanFacts DEF n
<1>3. /\ Scans' = Scans \cup {n} /\ n \notin Scans
      /\ Ended' = Ended
      /\ Waiting' = IF st = "queued" THEN Waiting \cup {n} ELSE Waiting
      BY <1>n, <1>2 DEF Scans, Waiting, Ended
<1>4. /\ scan' \in [Requests -> 0..n]
      /\ scan'[q] = n /\ \A p \in Requests \ {q} : scan'[p] = scan[p]
      /\ \A p \in Requests : scan[p] \in 0..Len(status) /\ scan[p] # n
      BY <1>t, <1>1, <1>n DEF ScanTypes
<1>5. Underway \subseteq Scans  BY <1>4, <1>n DEF Underway, Scans
<1>w. /\ wscan \in 0..Len(status) /\ wscan # n
      /\ \A i \in 1..Len(stream) : stream[i] \in 1..Len(status) /\ stream[i] # n
      BY <1>t, <1>n, ScanFacts DEF ScanTypes
<1>6. ScanTypes'
  <2>1. tangled' \subseteq Scans' /\ abandoned' \subseteq Scans'
        BY <1>t, <1>1, <1>3, <1>5 DEF ScanTypes
  <2>2. \A i \in 1..Len(stream') : stream'[i] \in Waiting'
        BY <1>t, <1>3 DEF ScanTypes
  <2>3. wscan' \in 0..Len(status') /\ (wpc' = "ack" => wscan' \in Ended')
        BY <1>t, <1>n, <1>2, <1>3, <1>w DEF ScanTypes
  <2>4. QED  BY <1>t, <1>1, <1>2, <1>4, <2>1, <2>2, <2>3 DEF ScanTypes
<1>7. ~InStream(n)  BY <1>w DEF InStream
<1>8. ScansApart'
  <2>1. \A p \in Requests \ {q} : scan'[p] # n  BY <1>4
  <2>2. QED  BY <1>t, <1>4, <1>7, <1>w, <2>1 DEF ScansApart, InStream
<1>9. ScansHeld'
  <2>1. ASSUME NEW p \in Requests, pc'[p] = "xadd" PROVE scan'[p] \in Waiting'
        BY <1>t, <1>3, <1>4, <2>1 DEF ScansHeld
  <2>2. ASSUME NEW t \in Waiting'
        PROVE  t \in abandoned \/ t = wscan \/ InStream(t)' \/ AtXadd(t)'
    <3>1. CASE t = n /\ st = "queued"  BY <1>4, <3>1 DEF AtXadd
    <3>2. CASE t \in Waiting
      <4>1. AtXadd(t) => AtXadd(t)'  BY <1>4 DEF AtXadd
      <4>2. QED  BY <1>t, <3>2, <4>1 DEF ScansHeld, InStream
    <3>3. QED  BY <1>3, <2>2, <3>1, <3>2
  <2>3. QED  BY <2>1, <2>2 DEF ScansHeld
<1>10. NewestUntangled'
  <2>1. ASSUME NEW p \in Requests, scan'[p] # 0
        PROVE  scan'[p] \in tangled' \/ scan'[p] = n
    <3>1. CASE p = q  BY <1>4, <3>1
    <3>2. CASE p # q
      <4>1. scan[p] \in Underway  BY <1>4, <2>1, <3>2 DEF Underway
      <4>2. QED  BY <1>1, <1>4, <3>2, <4>1
    <3>3. QED  BY <3>1, <3>2
  <2>2. QED  BY <1>2, <2>1 DEF NewestUntangled
<1>11. StreamInOrder'  BY <1>t, <1>1 DEF StreamInOrder
<1>12. QED  BY <1>6, <1>8, <1>9, <1>10, <1>11 DEF ScanPart, ScansInv

\* A status is overwritten; the scan stays in the same hands.
LEMMA StatusWritten ==
    ASSUME ScanPart, NEW u \in Scans, NEW st \in {"queued", "running", "completed", "failed"},
           status' = [status EXCEPT ![u] = st]
    PROVE  /\ status' \in Seq(Statuses) /\ Len(status') = Len(status)
           /\ Scans' = Scans
           /\ Waiting' = (IF st \in {"queued", "running"} THEN Waiting \cup {u} ELSE Waiting \ {u})
           /\ Ended' = (IF st \in {"completed", "failed"} THEN Ended \cup {u} ELSE Ended \ {u})
<1>1. /\ status' \in Seq(Statuses) /\ Len(status') = Len(status)
      /\ \A t \in 1..Len(status) : status'[t] = IF t = u THEN st ELSE status[t]
      BY SeqExcept DEF ScanPart, ScanTypes, Statuses, Scans
<1>2. Scans' = Scans  BY <1>1 DEF Scans
<1>3. Waiting' = IF st \in {"queued", "running"} THEN Waiting \cup {u} ELSE Waiting \ {u}
      BY <1>1 DEF Waiting, Scans
<1>4. Ended' = IF st \in {"completed", "failed"} THEN Ended \cup {u} ELSE Ended \ {u}
      BY <1>1 DEF Ended, Scans
<1>5. QED  BY <1>1, <1>2, <1>3, <1>4

LEMMA ScansInserted ==
    ASSUME ScanPart, NEW q \in Requests, Insert(q), scan[q] # 0
    PROVE  ScanPart'
<1>t. ScanTypes /\ ScansApart /\ ScansHeld /\ NewestUntangled /\ StreamInOrder
      BY DEF ScanPart, ScansInv
<1>1. /\ pc[q] = "insert" /\ Goto(q, "xadd")
      /\ status' = [status EXCEPT ![scan[q]] = "queued"]
      /\ UNCHANGED <<scan, tangled, stream, wpc, wscan, abandoned>>
      BY DEF Insert, workerVars
<1>2. /\ pc' \in [Requests -> Places]
      /\ pc'[q] = "xadd" /\ \A p \in Requests \ {q} : pc'[p] = pc[p]
      BY <1>t, <1>1, GotoFacts DEF ScanTypes, Places
<1>3. scan[q] \in Scans /\ scan[q] # wscan  BY <1>t, ScanFacts DEF Scans, ScansApart
<1>4. /\ status' \in Seq(Statuses) /\ Len(status') = Len(status) /\ Scans' = Scans
      /\ Waiting' = Waiting \cup {scan[q]} /\ Ended' = Ended \ {scan[q]}
      BY <1>1, <1>3, StatusWritten
<1>5. ScanTypes'  BY <1>t, <1>1, <1>2, <1>3, <1>4 DEF ScanTypes
<1>6. ScansApart' /\ StreamInOrder'  BY <1>t, <1>1 DEF ScansApart, InStream, StreamInOrder
<1>7. NewestUntangled'  BY <1>t, <1>1, <1>4 DEF NewestUntangled
<1>8. ScansHeld'
      BY <1>t, <1>1, <1>2, <1>4 DEF ScansHeld, InStream, AtXadd
<1>9. QED  BY <1>5, <1>6, <1>7, <1>8 DEF ScanPart, ScansInv

LEMMA ScansEnqueued ==
    ASSUME ScanPart, NEW q \in Requests, Enqueue(q)
    PROVE  ScanPart'
<1>t. ScanTypes /\ ScansApart /\ ScansHeld /\ NewestUntangled /\ StreamInOrder
      BY DEF ScanPart, ScansInv
<1>1. /\ pc[q] = "xadd" /\ stream' = Append(stream, scan[q]) /\ Ends(q)
      /\ UNCHANGED <<status, wpc, wscan, tangled, abandoned>>
      BY DEF Enqueue, workerVars
<1>2. /\ pc' \in [Requests -> Places]
      /\ pc'[q] = "idle" /\ \A p \in Requests \ {q} : pc'[p] = pc[p]
      BY <1>t, <1>1, GotoFacts DEF Ends, ScanTypes, Places
<1>3. /\ scan' \in [Requests -> 0..Len(status)]
      /\ scan'[q] = 0 /\ \A p \in Requests \ {q} : scan'[p] = scan[p]
      BY <1>t, <1>1, ScanFacts DEF Ends, ScanTypes
<1>4. /\ scan[q] \in Waiting /\ scan[q] \in Nat /\ scan[q] # 0
      /\ scan[q] <= Len(status) /\ Len(status) \in Nat
      BY <1>t, <1>1, ScanFacts DEF ScansHeld
<1>5. /\ Len(stream) \in Nat /\ stream' \in Seq(Nat) /\ Len(stream') = Len(stream) + 1
      /\ \A i \in 1..Len(stream) : stream'[i] = stream[i]
      /\ stream'[Len(stream) + 1] = scan[q]
      BY <1>t, <1>1, <1>4, SeqAppend DEF ScanTypes
<1>6. Waiting' = Waiting /\ Ended' = Ended /\ Scans' = Scans
      BY <1>1 DEF Waiting, Ended, Scans
<1>7. ScanTypes'
  <2>1. ASSUME NEW i \in 1..Len(stream') PROVE stream'[i] \in Waiting'
    <3>1. CASE i = Len(stream) + 1  BY <1>4, <1>5, <1>6, <3>1
    <3>2. CASE i \in 1..Len(stream)  BY <1>t, <1>5, <1>6, <3>2 DEF ScanTypes
    <3>3. QED  BY <1>5, <3>1, <3>2
  <2>2. QED  BY <1>t, <1>1, <1>2, <1>3, <1>5, <1>6, <2>1 DEF ScanTypes
<1>8. \A t : InStream(t)' <=> (InStream(t) \/ t = scan[q])
  <2>1. ASSUME NEW t, InStream(t)' PROVE InStream(t) \/ t = scan[q]
        BY <1>5, <2>1 DEF InStream
  <2>2. ASSUME NEW t, InStream(t) \/ t = scan[q] PROVE InStream(t)'
        BY <1>5, <2>2 DEF InStream
  <2>3. QED  BY <2>1, <2>2
<1>9. ScansApart'
  <2>1. \A p, r \in Requests : scan'[p] # 0 /\ scan'[p] = scan'[r] => p = r
        BY <1>t, <1>3 DEF ScansApart
  <2>2. \A p \in Requests : \A t : scan'[p] = t /\ t # 0 => ~InStream(t)' /\ t # wscan
    <3>1. SUFFICES ASSUME NEW p \in Requests, NEW t, scan'[p] = t, t # 0
                   PROVE  ~InStream(t)' /\ t # wscan
          OBVIOUS
    <3>2. p # q /\ scan[p] = t  BY <1>3, <3>1
    <3>3. t # scan[q] /\ ~InStream(t) /\ t # wscan
          BY <1>t, <3>1, <3>2 DEF ScansApart
    <3>4. QED  BY <1>8, <3>3
  <2>3. \A i, j \in 1..Len(stream') : stream'[i] = stream'[j] => i = j
    <3>1. \A i \in 1..Len(stream) : stream[i] # scan[q]
          BY <1>t, <1>4 DEF ScansApart, InStream
    <3>2. QED  BY <1>t, <1>5, <3>1 DEF ScansApart
  <2>4. \A t : wscan = t /\ t # 0 => ~InStream(t)'
    <3>1. wscan # scan[q]  BY <1>t, <1>4 DEF ScansApart
    <3>2. QED  BY <1>t, <1>8, <3>1 DEF ScansApart
  <2>5. QED  BY <1>1, <2>1, <2>2, <2>3, <2>4 DEF ScansApart, InStream
<1>10. ScansHeld'
  <2>1. \A p \in Requests : pc'[p] = "xadd" => scan'[p] \in Waiting
        BY <1>t, <1>2, <1>3 DEF ScansHeld
  <2>2. ASSUME NEW t \in Waiting
        PROVE  t \in abandoned \/ t = wscan \/ InStream(t)' \/ AtXadd(t)'
    <3>1. AtXadd(t) => t = scan[q] \/ AtXadd(t)'  BY <1>2, <1>3 DEF AtXadd
    <3>2. QED  BY <1>t, <1>8, <3>1 DEF ScansHeld
  <2>3. QED  BY <1>1, <1>6, <2>1, <2>2 DEF ScansHeld
<1>11. NewestUntangled'  BY <1>t, <1>1, <1>3 DEF NewestUntangled
<1>12. StreamInOrder'
  <2>1. scan[q] \in tangled \/ scan[q] = Len(status)
        BY <1>t, <1>4 DEF NewestUntangled
  <2>2. \A i \in 1..Len(stream) : stream[i] <= Len(status)  BY <1>4, ScanFacts
  <2>3. wscan <= Len(status)  BY <1>t, <1>4 DEF ScanTypes
  <2>4. ASSUME NEW i \in 1..Len(stream'), NEW j \in 1..Len(stream'), i < j
        PROVE  stream'[j] \in tangled \/ stream'[i] <= stream'[j]
    <3>1. i \in 1..Len(stream)  BY <1>5, <2>4
    <3>2. CASE j = Len(stream) + 1  BY <1>5, <2>1, <2>2, <3>1, <3>2
    <3>3. CASE j \in 1..Len(stream)  BY <1>t, <1>5, <2>4, <3>1, <3>3 DEF StreamInOrder
    <3>4. QED  BY <1>5, <3>2, <3>3
  <2>5. ASSUME NEW i \in 1..Len(stream')
        PROVE  stream'[i] \in tangled \/ wscan <= stream'[i]
    <3>1. CASE i = Len(stream) + 1  BY <1>5, <2>1, <2>3, <3>1
    <3>2. CASE i \in 1..Len(stream)  BY <1>t, <1>5, <3>2 DEF StreamInOrder
    <3>3. QED  BY <1>5, <3>1, <3>2
  <2>6. QED  BY <1>1, <2>4, <2>5 DEF StreamInOrder
<1>13. QED  BY <1>7, <1>9, <1>10, <1>11, <1>12 DEF ScanPart, ScansInv

LEMMA ScansTaken ==
    ASSUME ScanPart, Take
    PROVE  ScanPart'
<1>t. ScanTypes /\ ScansApart /\ ScansHeld /\ NewestUntangled /\ StreamInOrder
      BY DEF ScanPart, ScansInv
<1>1. /\ wpc = "idle" /\ wscan = 0 /\ wscan' = Head(stream) /\ stream' = Tail(stream)
      /\ wpc' = "taken" /\ stream # <<>>
      /\ UNCHANGED <<status, pc, scan, tangled, abandoned>>
      BY <1>t DEF Take, ScanTypes, requestVars
<1>2. /\ Len(stream) \in Nat \ {0} /\ stream' \in Seq(Nat)
      /\ Len(stream') = Len(stream) - 1
      /\ \A i \in 1..Len(stream') : stream'[i] = stream[i + 1]
      /\ wscan' = stream[1]
      BY <1>t, <1>1, SeqTail DEF ScanTypes
<1>3. \A i \in 1..Len(stream') : i + 1 \in 1..Len(stream) /\ i + 1 # 1  BY <1>2
<1>4. Waiting' = Waiting /\ Ended' = Ended /\ Scans' = Scans
      BY <1>1 DEF Waiting, Ended, Scans
<1>5. wscan' \in Waiting /\ wscan' \in 1..Len(status) /\ 1 \in 1..Len(stream)
      BY <1>t, <1>2, ScanFacts DEF ScanTypes
<1>6. ScanTypes'
  <2>1. \A i \in 1..Len(stream') : stream'[i] \in Waiting
        BY <1>t, <1>2, <1>3 DEF ScanTypes
  <2>2. wscan' \in 0..Len(status) /\ wscan' # 0  BY <1>5, ScanFacts
  <2>3. QED  BY <1>t, <1>1, <1>2, <1>4, <2>1, <2>2 DEF ScanTypes
<1>7. \A t : InStream(t) <=> (InStream(t)' \/ t = wscan')
  <2>1. ASSUME NEW t, InStream(t), t # wscan' PROVE InStream(t)'
    <3>1. PICK i \in 1..Len(stream) : stream[i] = t  BY <2>1 DEF InStream
    <3>2. i - 1 \in 1..Len(stream') /\ stream'[i - 1] = stream[(i - 1) + 1]
          BY <1>2, <2>1, <3>1
    <3>3. (i - 1) + 1 = i  BY <1>2
    <3>4. QED  BY <3>1, <3>2, <3>3 DEF InStream
  <2>2. ASSUME NEW t, InStream(t)' PROVE InStream(t)
        BY <1>2, <1>3, <2>2 DEF InStream
  <2>3. InStream(wscan')  BY <1>2, <1>5 DEF InStream
  <2>4. QED  BY <2>1, <2>2, <2>3
<1>8. \A i \in 1..Len(stream') : stream'[i] # wscan'
  <2>1. SUFFICES ASSUME NEW i \in 1..Len(stream'), stream'[i] = wscan' PROVE FALSE
        OBVIOUS
  <2>2. stream[i + 1] = stream[1] /\ i + 1 \in 1..Len(stream) /\ i + 1 # 1
        BY <1>2, <1>3, <2>1
  <2>3. QED  BY <1>t, <1>5, <2>2 DEF ScansApart
<1>9. ScansApart'
  <2>1. \A p \in Requests : \A t : scan[p] = t /\ t # 0 => ~InStream(t)' /\ t # wscan'
        BY <1>t, <1>7 DEF ScansApart
  <2>2. ASSUME NEW i \in 1..Len(stream'), NEW j \in 1..Len(stream'),
               stream'[i] = stream'[j]
        PROVE  i = j
    <3>1. stream[i + 1] = stream[j + 1]  BY <1>2, <2>2
    <3>2. i + 1 = j + 1  BY <1>t, <1>3, <3>1 DEF ScansApart
    <3>3. QED  BY <1>2, <3>2
  <2>3. QED  BY <1>t, <1>1, <1>8, <2>1, <2>2 DEF ScansApart, InStream
<1>10. ScansHeld'
  <2>1. \A t \in Waiting : t \in abandoned \/ t = wscan' \/ InStream(t)' \/ AtXadd(t)
    <3>1. \A t \in Waiting : t # wscan
      <4>1. 0 \notin Waiting  BY ScanFacts
      <4>2. QED  BY <1>1, <4>1
    <3>2. QED  BY <1>t, <1>7, <3>1 DEF ScansHeld
  <2>2. QED  BY <1>t, <1>1, <1>4, <2>1 DEF ScansHeld, AtXadd
<1>11. NewestUntangled'  BY <1>t, <1>1 DEF NewestUntangled
<1>12. StreamInOrder'
  <2>1. ASSUME NEW i \in 1..Len(stream'), NEW j \in 1..Len(stream'), i < j
        PROVE  stream'[j] \in tangled \/ stream'[i] <= stream'[j]
    <3>1. i + 1 < j + 1  BY <1>2, <2>1
    <3>2. stream[j + 1] \in tangled \/ stream[i + 1] <= stream[j + 1]
          BY <1>t, <1>3, <3>1 DEF StreamInOrder
    <3>3. QED  BY <1>2, <3>2
  <2>2. ASSUME NEW i \in 1..Len(stream')
        PROVE  stream'[i] \in tangled \/ wscan' <= stream'[i]
    <3>1. 1 < i + 1  BY <1>2, <2>2
    <3>2. stream[i + 1] \in tangled \/ stream[1] <= stream[i + 1]
          BY <1>t, <1>3, <1>5, <3>1 DEF StreamInOrder
    <3>3. QED  BY <1>2, <3>2
  <2>3. QED  BY <1>1, <2>1, <2>2 DEF StreamInOrder
<1>13. QED  BY <1>6, <1>9, <1>10, <1>11, <1>12 DEF ScanPart, ScansInv

\* The worker goes on with its scan, or leaves it.
LEMMA ScansWorked ==
    ASSUME ScanPart, Start \/ Finish \/ Ack \/ WorkerBreaks
    PROVE  ScanPart'
<1>t. ScanTypes /\ ScansApart /\ ScansHeld /\ NewestUntangled /\ StreamInOrder
      BY DEF ScanPart, ScansInv
<1>u. UNCHANGED <<stream, pc, scan, tangled>>
      BY DEF Start, Finish, Ack, WorkerBreaks, requestVars
<1>s. wpc # "idle" /\ wscan \in Scans /\ wscan # 0 /\ ~InStream(wscan)
      /\ \A q \in Requests : scan[q] # 0 => scan[q] # wscan
      BY <1>t, ScanFacts DEF Start, Finish, Ack, WorkerBreaks, ScanTypes, ScansApart, Scans
<1>1. ASSUME Start PROVE ScanPart'
  <2>1. /\ status' = [status EXCEPT ![wscan] = "running"] /\ wpc' = "engine"
        /\ UNCHANGED <<wscan, abandoned>>
        BY <1>1 DEF Start
  <2>2. /\ status' \in Seq(Statuses) /\ Len(status') = Len(status) /\ Scans' = Scans
        /\ Waiting' = Waiting \cup {wscan}
        BY <1>s, <2>1, StatusWritten
  <2>3. ScanTypes'  BY <1>t, <1>u, <1>s, <2>1, <2>2 DEF ScanTypes
  <2>4. ScansApart' /\ NewestUntangled' /\ StreamInOrder'
        BY <1>t, <1>u, <2>1, <2>2 DEF ScansApart, InStream, NewestUntangled, StreamInOrder
  <2>5. ScansHeld'  BY <1>t, <1>u, <2>1, <2>2 DEF ScansHeld, InStream, AtXadd
  <2>6. QED  BY <2>3, <2>4, <2>5 DEF ScanPart, ScansInv
<1>2. ASSUME Finish PROVE ScanPart'
  <2>1. PICK st \in {"completed", "failed"} : status' = [status EXCEPT ![wscan] = st]
        BY <1>2 DEF Finish
  <2>2. wpc' = "ack" /\ UNCHANGED <<wscan, abandoned>>  BY <1>2 DEF Finish
  <2>3. /\ status' \in Seq(Statuses) /\ Len(status') = Len(status) /\ Scans' = Scans
        /\ Waiting' = Waiting \ {wscan} /\ Ended' = Ended \cup {wscan}
        BY <1>s, <2>1, StatusWritten
  <2>4. \A i \in 1..Len(stream) : stream[i] # wscan  BY <1>s DEF InStream
  <2>5. ScanTypes'  BY <1>t, <1>u, <1>s, <2>2, <2>3, <2>4 DEF ScanTypes
  <2>6. ScansApart' /\ NewestUntangled' /\ StreamInOrder'
        BY <1>t, <1>u, <2>2, <2>3 DEF ScansApart, InStream, NewestUntangled, StreamInOrder
  <2>7. 0 \notin Waiting  BY ScanFacts
  <2>8. ScansHeld'
        BY <1>t, <1>u, <1>s, <2>2, <2>3, <2>7 DEF ScansHeld, InStream, AtXadd
  <2>9. QED  BY <2>5, <2>6, <2>8 DEF ScanPart, ScansInv
<1>3. ASSUME Ack \/ WorkerBreaks PROVE ScanPart'
  <2>1. /\ wpc' = "idle" /\ wscan' = 0 /\ UNCHANGED status
        /\ abandoned \subseteq abandoned' /\ abandoned' \subseteq abandoned \cup {wscan}
        /\ wpc # "ack" => wscan \in abandoned'
        BY <1>3 DEF Ack, WorkerBreaks
  <2>2. Waiting' = Waiting /\ Ended' = Ended /\ Scans' = Scans
        BY <2>1 DEF Waiting, Ended, Scans
  <2>3. 0 \in 0..Len(status)  BY ScanFacts
  <2>4. ScanTypes'  BY <1>t, <1>u, <1>s, <2>1, <2>2, <2>3 DEF ScanTypes
  <2>5. wscan \in Waiting => wscan \in abandoned'
        BY <1>t, <2>1, ScanFacts DEF ScanTypes
  <2>6. ScansHeld'
        BY <1>t, <1>u, <2>1, <2>2, <2>5 DEF ScansHeld, InStream, AtXadd
  <2>7. ScansApart' /\ NewestUntangled'
        BY <1>t, <1>u, <2>1 DEF ScansApart, InStream, NewestUntangled
  <2>8. StreamInOrder'
    <3>1. \A i \in 1..Len(stream) : 0 <= stream[i]  BY ScanFacts
    <3>2. QED  BY <1>t, <1>u, <2>1, <3>1 DEF StreamInOrder
  <2>9. QED  BY <2>4, <2>6, <2>7, <2>8 DEF ScanPart, ScansInv
<1>4. QED  BY <1>1, <1>2, <1>3

LEMMA ScansStep ==
    ASSUME ScanPart, [PublicNext]_scanVars
    PROVE  ScanPart'
<1>t. /\ ScanTypes /\ pc \in [Requests -> Places]
      /\ {"idle", "count", "captcha", "burn", "hit", "window", "insert", "xadd"} = Places
      BY DEF ScanPart, ScanTypes, Places
<1>1. ASSUME NEW q \in Requests, Begin(q) PROVE ScanPart'
  <2>1. /\ pc[q] = "idle" /\ Goto(q, "count")
        /\ UNCHANGED <<stream, wpc, wscan, abandoned>>
        BY <1>1 DEF Begin, workerVars
  <2>2. /\ pc' \in [Requests -> Places]
        /\ pc'[q] = "count" /\ \A p \in Requests \ {q} : pc'[p] = pc[p]
        BY <1>t, <2>1, GotoFacts
  <2>3. CASE TakeCreatedAt(q, "none")  BY <2>1, <2>2, <2>3, ScanTaken
  <2>4. CASE UNCHANGED <<status, scan, tangled>>  BY <2>1, <2>2, <2>4, ScansUntouched
  <2>5. QED  BY <1>1, <2>3, <2>4 DEF Begin
<1>2. ASSUME NEW q \in Requests,
             \/ CountFree(q) \/ CountFull(q) \/ CountRaises(q) \/ SolveCaptcha(q)
             \/ BurnCaptcha(q) \/ Hit(q) \/ Window(q) \/ HitRaises(q)
      PROVE  ScanPart'
  <2>1. /\ UNCHANGED <<status, stream, wpc, wscan, scan, tangled, abandoned>>
        /\ pc[q] # "xadd"
        /\ \E place \in Places \ {"xadd"} : Goto(q, place)
        BY <1>2, <1>t
        DEF CountFree, CountFull, CountRaises, SolveCaptcha, BurnCaptcha, Hit, Window,
            HitRaises, workerVars
  <2>2. PICK place \in Places \ {"xadd"} : Goto(q, place)  BY <2>1
  <2>3. /\ pc' \in [Requests -> Places]
        /\ pc'[q] = place /\ \A p \in Requests \ {q} : pc'[p] = pc[p]
        BY <1>t, <2>2, GotoFacts
  <2>4. QED  BY <2>1, <2>3, ScansUntouched
<1>3. ASSUME NEW q \in Requests, MissCaptcha(q) \/ BurnRaises(q) PROVE ScanPart'
  <2>1. Ends(q) /\ pc[q] # "xadd" /\ UNCHANGED <<status, stream, wpc, wscan, tangled, abandoned>>
        BY <1>3 DEF MissCaptcha, BurnRaises, workerVars
  <2>2. abandoned \subseteq abandoned' /\ abandoned' \subseteq Scans
        BY <1>t, <2>1 DEF ScanTypes
  <2>3. QED  BY <2>1, <2>2, ScansReleased
<1>4. ASSUME NEW q \in Requests, Insert(q) PROVE ScanPart'
  <2>1. CASE scan[q] # 0  BY <1>4, <2>1, ScansInserted
  <2>2. CASE scan[q] = 0
    <3>1. /\ pc[q] = "insert" /\ Goto(q, "xadd") /\ TakeCreatedAt(q, "queued")
          /\ UNCHANGED <<stream, wpc, wscan, abandoned>>
          BY <1>4, <2>2 DEF Insert, workerVars
    <3>2. /\ pc' \in [Requests -> Places]
          /\ pc'[q] = "xadd" /\ \A p \in Requests \ {q} : pc'[p] = pc[p]
          BY <1>t, <3>1, GotoFacts
    <3>3. QED  BY <3>1, <3>2, ScanTaken
  <2>3. QED  BY <2>1, <2>2
<1>5. ASSUME NEW q \in Requests, Enqueue(q) PROVE ScanPart'
      BY <1>5, ScansEnqueued
<1>6. ASSUME NEW q \in Requests, RequestBreaks(q) PROVE ScanPart'
  <2>1. /\ Ends(q) /\ UNCHANGED <<status, stream, wpc, wscan, tangled>>
        /\ abandoned' = IF pc[q] = "xadd" THEN abandoned \cup {scan[q]} ELSE abandoned
        BY <1>6 DEF RequestBreaks, workerVars
  <2>2. pc[q] = "xadd" => scan[q] \in Scans
        BY <1>t DEF ScanPart, ScansInv, ScansHeld, Waiting
  <2>3. /\ abandoned \subseteq abandoned' /\ abandoned' \subseteq Scans
        /\ pc[q] = "xadd" => scan[q] \in abandoned'
        BY <1>t, <2>1, <2>2 DEF ScanTypes
  <2>4. QED  BY <2>1, <2>3, ScansReleased
<1>7. ASSUME IssueCaptcha \/ TtlOver \/ UNCHANGED scanVars PROVE ScanPart'
  <2>1. UNCHANGED <<status, stream, wpc, wscan, scan, pc, tangled, abandoned>>
        BY <1>7 DEF IssueCaptcha, TtlOver, scanVars, workerVars, requestVars
  <2>2. QED  BY <1>t, <2>1, ScansUntouched
<1>8. ASSUME Work \/ WorkerBreaks PROVE ScanPart'
      BY <1>8, ScansTaken, ScansWorked DEF Work
<1>9. QED
      BY <1>1, <1>2, <1>3, <1>4, <1>5, <1>6, <1>7, <1>8, Zenon DEF PublicNext, Proceed

-------------------------------------------------------------------------------
(***************************************************************************)
(* Theorems                                                                *)
(***************************************************************************)
LEMMA PublicParts == PublicInv <=> LimitsInv /\ ScanPart
<1>1. PublicTypeOK => LimitTypes /\ ScanTypes
  <2>1. SUFFICES ASSUME PublicTypeOK PROVE LimitTypes /\ ScanTypes
        OBVIOUS
  <2>a. stream \in Seq(Waiting)  BY <2>1 DEF PublicTypeOK
  <2>b. Waiting \subseteq Nat  BY DEF Waiting, Scans
  <2>2. stream \in Seq(Waiting) /\ Waiting \subseteq Nat  BY <2>a, <2>b
  <2>3. Len(stream) \in Nat /\ \A i \in 1..Len(stream) : stream[i] \in Waiting
        BY <2>2, LenProperties, ElementOfSeq
  <2>4. stream \in Seq(Nat)  BY <2>2, <2>3, SeqOver
  <2>5. LimitTypes  BY <2>1 DEF PublicTypeOK, LimitTypes
  <2>6. ScanTypes  BY <2>1, <2>3, <2>4 DEF PublicTypeOK, ScanTypes, Statuses
  <2>7. QED  BY <2>5, <2>6
<1>2. LimitTypes /\ ScanTypes => PublicTypeOK
  <2>1. SUFFICES ASSUME LimitTypes, ScanTypes PROVE PublicTypeOK
        OBVIOUS
  <2>2. stream \in Seq(Waiting)  BY <2>1, SeqOver DEF ScanTypes
  <2>3. QED  BY <2>1, <2>2 DEF PublicTypeOK, LimitTypes, ScanTypes, Statuses
<1>3. QED  BY <1>1, <1>2 DEF PublicInv, LimitsInv, ScanPart

LEMMA PublicInitially == PublicInit => LimitsInv /\ ScanPart
<1> SUFFICES ASSUME PublicInit PROVE LimitsInv /\ ScanPart
    OBVIOUS
<1>1. /\ status \in Seq(Statuses) /\ Len(status) = 0 /\ status = <<>>
      /\ stream \in Seq(Nat) /\ Len(stream) = 0
      BY EmptySeq DEF PublicInit
<1>2. pc \in [Requests -> Places] /\ \A q \in Requests : pc[q] = "idle"
      BY DEF PublicInit, Places
<1>3. scan \in [Requests -> 0..0] /\ \A q \in Requests : scan[q] = 0
      BY DEF PublicInit
<1>4. /\ wpc = "idle" /\ wscan = 0 /\ challenge = FALSE /\ freely = 0 /\ hasty = FALSE
      /\ passed = 0 /\ shared = FALSE /\ tangled = {} /\ abandoned = {} /\ hits = NoCount
      BY DEF PublicInit
<1>5. Waiting = {} /\ \A i \in 1..Len(stream) : FALSE
      BY <1>1 DEF Waiting, Scans
<1>6. LimitTypes
  <2>1. 0 \in Nat /\ FALSE \in BOOLEAN  OBVIOUS
  <2>2. QED  BY <1>2, <1>4, <2>1, NoCountFacts, Zenon DEF LimitTypes
<1>7. FreeIsCounted /\ CaptchaIsBurnt
      BY <1>4, FreeNat, NoCountFacts DEF FreeIsCounted, CaptchaIsBurnt
<1>8. ScanTypes
      BY <1>1, <1>2, <1>3, <1>4, <1>5, FreeNat DEF ScanTypes
<1>9. ScansInv
      BY <1>2, <1>3, <1>4, <1>5
      DEF ScansInv, ScansApart, ScansHeld, NewestUntangled, StreamInOrder
<1>10. QED  BY <1>6, <1>7, <1>8, <1>9 DEF LimitsInv, ScanPart

\* routers/public.py with its limiter, its captcha and its worker: the invariant
\* of the counters, the scans and the stream.
THEOREM PublicInvariant == PublicSpec => []PublicInv
<1>1. PublicInit => PublicInv  BY PublicInitially, PublicParts
<1>2. PublicInv /\ [PublicNext]_scanVars => (LimitsInv /\ ScanPart)'
      BY LimitsStep, ScansStep, PublicParts
<1>3. PublicInv' <=> (LimitsInv /\ ScanPart)'  BY PublicParts, PTL
<1>4. QED  BY <1>1, <1>2, <1>3, PTL DEF PublicSpec

\* The types of the counters, the scans, the stream and the worker.
THEOREM PublicTypeCorrect == PublicSpec => []PublicTypeOK
<1>1. PublicInv => PublicTypeOK  BY DEF PublicInv
<1>2. QED  BY <1>1, PublicInvariant, PTL

\* ratelimit and captcha: the free limit and the single use of a challenge, but
\* for requests between the check and the use of the same.
THEOREM LimitsAreKept == PublicSpec => []LimitsHold
<1>1. PublicInv => LimitsHold
      BY DEF PublicInv, FreeIsCounted, CaptchaIsBurnt, LimitsHold
<1>2. QED  BY <1>1, PublicInvariant, PTL

\* public.py:35: nothing that waits is ahead of the scan at the worker.
THEOREM ScansServedInTurn == PublicSpec => []ServedInTurn
<1>1. PublicInv => ServedInTurn
  <2>1. SUFFICES ASSUME PublicInv, NEW t \in Waiting, t < wscan
                 PROVE  t \in tangled \cup abandoned
        BY DEF ServedInTurn
  <2>2. ScanPart  BY <2>1, PublicParts
  <2>3. /\ t \in Nat /\ t # 0 /\ Len(status) \in Nat /\ wscan \in 0..Len(status)
        /\ Len(stream) \in Nat
        BY <2>2, ScanFacts DEF ScanPart, ScanTypes
  <2>4. t \in abandoned \/ InStream(t) \/ AtXadd(t)
        BY <2>1, <2>2, <2>3 DEF ScanPart, ScansInv, ScansHeld
  <2>5. ASSUME InStream(t) PROVE t \in tangled
        BY <2>1, <2>2, <2>3, <2>5 DEF InStream, ScanPart, ScansInv, StreamInOrder
  <2>6. ASSUME AtXadd(t) PROVE t \in tangled
        BY <2>1, <2>2, <2>3, <2>6 DEF AtXadd, ScanPart, ScansInv, NewestUntangled
  <2>7. QED  BY <2>4, <2>5, <2>6
<1>2. QED  BY <1>1, PublicInvariant, PTL
===============================================================================
