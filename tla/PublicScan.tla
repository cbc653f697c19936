----------------------------- MODULE PublicScan -----------------------------
(***************************************************************************)
(* The free public scan: create_scan of routers/public.py with the         *)
(* counters of services/ratelimit and the challenge of services/captcha,   *)
(* the public stream of services/queue, and the one worker of              *)
(* public_worker.py, which acknowledges but never reclaims.                *)
(*                                                                         *)
(* All requests come from one IP.  A scan is its place in the order of     *)
(* created_at, which is when the transaction began: for a signed-in user   *)
(* that is when optional_user read the user, before the checks.  A commit  *)
(* is a step, and so is every Redis command.                               *)
(***************************************************************************)
EXTENDS Naturals, Sequences, FiniteSets

CONSTANTS
    Requests,       \* concurrent requests of create_scan
    Free,           \* scan_ip_limit
    MaxScans,       \* bound: values of created_at ever taken
    MaxHits         \* bound: requests counted in a window when one begins

ASSUME PublicScanAssumption == {Free, MaxScans, MaxHits} \subseteq Nat

VARIABLES
    status,         \* status of each scan, "none" until committed
    stream,         \* public stream: scans not delivered yet
    wpc, wscan,     \* the worker: its place, its scan
    hits,           \* govux:rl:scan of the IP: count, has a ttl
    challenge,      \* the captcha challenge is in Redis
    pc, scan,       \* each request: its place, its scan
    freely,         \* history: scans let through without captcha this window
    hasty,          \* history: two of them counted together, or Redis failed;
                    \*   freely no longer counts
    passed,         \* history: requests this challenge has let through
    shared,         \* history: two of them together, or Redis failed;
                    \*   passed no longer counts
    tangled,        \* history: scans whose request overlapped another
    abandoned       \* history: scans whose request or worker broke off

requestVars == <<pc, scan>>
workerVars  == <<wpc, wscan>>
limitVars   == <<hits, challenge, freely, hasty, passed, shared>>
scanVars    == <<status, stream, workerVars, limitVars, requestVars, tangled, abandoned>>

Scans   == 1..Len(status)
Waiting == {s \in Scans : status[s] \in {"queued", "running"}}
Ended   == {s \in Scans : status[s] \in {"completed", "failed"}}

NoCount == [n |-> 0, ttl |-> FALSE]

Places == {"idle", "count", "captcha", "burn", "hit", "window", "insert", "xadd"}

PublicTypeOK ==
    /\ status \in Seq({"none", "queued", "running", "completed", "failed"})
    /\ Len(status) <= MaxScans
    /\ stream \in Seq(Waiting)
    /\ wpc \in {"idle", "taken", "engine", "ack"}
    /\ wscan \in 0..Len(status)
    /\ wpc = "idle" <=> wscan = 0
    /\ wpc = "ack" => wscan \in Ended
    /\ hits \in [n : Nat, ttl : BOOLEAN]
    /\ challenge \in BOOLEAN
    /\ pc \in [Requests -> Places]
    /\ scan \in [Requests -> 0..Len(status)]
    /\ freely \in Nat
    /\ passed \in Nat
    /\ {hasty, shared} \subseteq BOOLEAN
    /\ tangled \subseteq Scans
    /\ abandoned \subseteq Scans

PublicInit ==
    /\ status = <<>>
    /\ stream = <<>>
    /\ wpc = "idle"
    /\ wscan = 0
    /\ hits = NoCount
    /\ challenge = FALSE
    /\ pc = [q \in Requests |-> "idle"]
    /\ scan = [q \in Requests |-> 0]
    /\ freely = 0
    /\ hasty = FALSE
    /\ passed = 0
    /\ shared = FALSE
    /\ tangled = {}
    /\ abandoned = {}

-------------------------------------------------------------------------------
Goto(q, place) == pc' = [pc EXCEPT ![q] = place]

Others(q, places) == {p \in Requests \ {q} : pc[p] \in places}

\* The reply is sent.
Ends(q) == Goto(q, "idle") /\ scan' = [scan EXCEPT ![q] = 0]

\* The scans of the requests that have taken their created_at.
Underway == {scan[p] : p \in Requests} \ {0}

\* A new row, with the status st, for the request q.
TakeCreatedAt(q, st) ==
    /\ Len(status) < MaxScans
    /\ status' = Append(status, st)
    /\ scan' = [scan EXCEPT ![q] = Len(status) + 1]
    /\ tangled' = IF Underway = {} THEN tangled
                  ELSE tangled \cup Underway \cup {Len(status) + 1}

\* The URL passes url_validate; a token makes optional_user begin the
\* transaction.
Begin(q) ==
    /\ pc[q] = "idle"
    /\ hits.n < MaxHits
    /\ Goto(q, "count")
    /\ \/ TakeCreatedAt(q, "none")
       \/ UNCHANGED <<status, scan, tangled>>
    /\ UNCHANGED <<stream, workerVars, limitVars, abandoned>>

\* ratelimit.count below the free limit.
CountFree(q) ==
    /\ pc[q] = "count"
    /\ hits.n < Free
    /\ Goto(q, "hit")
    /\ hasty' = (hasty \/ Others(q, {"hit"}) # {})
    /\ freely' = IF hasty' THEN 0 ELSE freely + 1
    /\ UNCHANGED <<status, stream, workerVars, hits, challenge, passed, shared, scan,
                   tangled, abandoned>>

\* ratelimit.count at the limit: a captcha is due, or the request is refused.
CountFull(q) ==
    /\ pc[q] = "count"
    /\ hits.n >= Free
    /\ Goto(q, "captcha")
    /\ UNCHANGED <<status, stream, workerVars, limitVars, scan, tangled, abandoned>>

\* Redis raises: the limiter fails open.
CountRaises(q) ==
    /\ pc[q] = "count"
    /\ Goto(q, "hit")
    /\ hasty' = TRUE
    /\ freely' = 0
    /\ UNCHANGED <<status, stream, workerVars, hits, challenge, passed, shared, scan,
                   tangled, abandoned>>

-------------------------------------------------------------------------------
\* captcha.issue, on demand.
IssueCaptcha ==
    /\ ~challenge
    /\ \E q \in Requests : pc[q] = "captcha"
    /\ challenge' = TRUE
    /\ passed' = 0
    /\ shared' = (\E q \in Requests : pc[q] = "burn")
    /\ UNCHANGED <<status, stream, workerVars, hits, freely, hasty, requestVars, tangled,
                   abandoned>>

\* captcha.verify: GET, and the answer is right.
SolveCaptcha(q) ==
    /\ pc[q] = "captcha"
    /\ challenge
    /\ Goto(q, "burn")
    /\ shared' = (shared \/ Others(q, {"burn"}) # {})
    /\ passed' = IF shared' THEN 0 ELSE passed + 1
    /\ UNCHANGED <<status, stream, workerVars, hits, challenge, freely, hasty, scan,
                   tangled, abandoned>>

\* No token, a wrong answer (which uses the challenge up), or none is stored.
MissCaptcha(q) ==
    /\ pc[q] = "captcha"
    /\ challenge' \in {challenge, FALSE}
    /\ Ends(q)
    /\ UNCHANGED <<status, stream, workerVars, hits, freely, hasty, passed, shared,
                   tangled, abandoned>>

\* Variant: the challenge stays until its ttl is over.
KeepCaptcha(q) ==
    /\ pc[q] = "burn"
    /\ Goto(q, "hit")
    /\ UNCHANGED <<status, stream, workerVars, limitVars, scan, tangled, abandoned>>

\* captcha.verify: DEL.
BurnCaptcha(q) ==
    /\ pc[q] = "burn"
    /\ challenge' = FALSE
    /\ Goto(q, "hit")
    /\ UNCHANGED <<status, stream, workerVars, hits, freely, hasty, passed, shared, scan,
                   tangled, abandoned>>

\* DEL raises: verify answers FALSE.
BurnRaises(q) ==
    /\ pc[q] = "burn"
    /\ shared' = TRUE
    /\ passed' = 0
    /\ Ends(q)
    /\ UNCHANGED <<status, stream, workerVars, hits, challenge, freely, hasty, tangled,
                   abandoned>>

-------------------------------------------------------------------------------
\* ratelimit.hit: INCR; a new key has no ttl.
Hit(q) ==
    /\ pc[q] = "hit"
    /\ hits' = [hits EXCEPT !.n = @ + 1]
    /\ Goto(q, IF hits.n = 0 THEN "window" ELSE "insert")
    /\ UNCHANGED <<status, stream, workerVars, challenge, freely, hasty, passed, shared,
                   scan, tangled, abandoned>>

\* ratelimit.hit: EXPIRE after the first.
Window(q) ==
    /\ pc[q] = "window"
    /\ hits' = [hits EXCEPT !.ttl = (hits.n > 0)]
    /\ Goto(q, "insert")
    /\ UNCHANGED <<status, stream, workerVars, challenge, freely, hasty, passed, shared,
                   scan, tangled, abandoned>>

\* Redis raises in one of the two.
HitRaises(q) ==
    /\ pc[q] \in {"hit", "window"}
    /\ hasty' = TRUE
    /\ freely' = 0
    /\ Goto(q, "insert")
    /\ UNCHANGED <<status, stream, workerVars, hits, challenge, passed, shared, scan,
                   tangled, abandoned>>

\* The row is committed: with its created_at of before, or of now.
Insert(q) ==
    /\ pc[q] = "insert"
    /\ IF scan[q] = 0
       THEN TakeCreatedAt(q, "queued")
       ELSE /\ status' = [status EXCEPT ![scan[q]] = "queued"]
            /\ UNCHANGED <<scan, tangled>>
    /\ Goto(q, "xadd")
    /\ UNCHANGED <<stream, workerVars, limitVars, abandoned>>

\* enqueue_public; the reply tells the position.
Enqueue(q) ==
    /\ pc[q] = "xadd"
    /\ stream' = Append(stream, scan[q])
    /\ Ends(q)
    /\ UNCHANGED <<status, workerVars, limitVars, tangled, abandoned>>

\* The API process is killed, the database raises, or XADD does.
RequestBreaks(q) ==
    /\ pc[q] # "idle"
    /\ Ends(q)
    /\ abandoned' = IF pc[q] = "xadd" THEN abandoned \cup {scan[q]} ELSE abandoned
    /\ hasty' = (hasty \/ pc[q] \in {"hit", "window"})
    /\ freely' = IF hasty' THEN 0 ELSE freely
    /\ shared' = (shared \/ pc[q] = "burn")
    /\ passed' = IF shared' THEN 0 ELSE passed
    /\ UNCHANGED <<status, stream, workerVars, hits, challenge, tangled>>

\* Redis drops what has a ttl: the window of the counter is over, or the
\* challenge has timed out.
TtlOver ==
    /\ \/ /\ hits.ttl
          /\ hits' = NoCount
          /\ freely' = 0
          /\ hasty' = (\E q \in Requests : pc[q] = "hit")
          /\ UNCHANGED challenge
       \/ /\ challenge
          /\ challenge' = FALSE
          /\ UNCHANGED <<hits, freely, hasty>>
    /\ UNCHANGED <<status, stream, workerVars, passed, shared, requestVars, tangled,
                   abandoned>>

-------------------------------------------------------------------------------
\* Variant: the newest entry first.
TakeNewest ==
    /\ wpc = "idle"
    /\ stream # <<>>
    /\ wscan' = stream[Len(stream)]
    /\ stream' = SubSeq(stream, 1, Len(stream) - 1)
    /\ wpc' = "taken"
    /\ UNCHANGED <<status, limitVars, requestVars, tangled, abandoned>>

\* read_public: the next entry that was delivered to no one.
Take ==
    /\ wpc = "idle"
    /\ stream # <<>>
    /\ wscan' = Head(stream)
    /\ stream' = Tail(stream)
    /\ wpc' = "taken"
    /\ UNCHANGED <<status, limitVars, requestVars, tangled, abandoned>>

\* process: status running, committed.
Start ==
    /\ wpc = "taken"
    /\ status' = [status EXCEPT ![wscan] = "running"]
    /\ wpc' = "engine"
    /\ UNCHANGED <<stream, wscan, limitVars, requestVars, tangled, abandoned>>

\* Variant: the error is printed, and the status stays.
FinishOrPrint ==
    /\ wpc = "engine"
    /\ \E st \in {"running", "completed"} : status' = [status EXCEPT ![wscan] = st]
    /\ wpc' = "ack"
    /\ UNCHANGED <<stream, wscan, limitVars, requestVars, tangled, abandoned>>

\* process: engine, score, report and the last commit; or any of them raises
\* and the except block commits that.
Finish ==
    /\ wpc = "engine"
    /\ \E st \in {"completed", "failed"} : status' = [status EXCEPT ![wscan] = st]
    /\ wpc' = "ack"
    /\ UNCHANGED <<stream, wscan, limitVars, requestVars, tangled, abandoned>>

\* ack_public.
Ack ==
    /\ wpc = "ack"
    /\ wpc' = "idle"
    /\ wscan' = 0
    /\ UNCHANGED <<status, stream, limitVars, requestVars, tangled, abandoned>>

\* The worker is killed, or the database raises in process and again in its
\* except block, which does not roll back: the entry stays pending, and nobody
\* claims it.
WorkerBreaks ==
    /\ wpc # "idle"
    /\ abandoned' = IF wpc = "ack" THEN abandoned ELSE abandoned \cup {wscan}
    /\ wpc' = "idle"
    /\ wscan' = 0
    /\ UNCHANGED <<status, stream, limitVars, requestVars, tangled>>

-------------------------------------------------------------------------------
Work == Take \/ Start \/ Finish \/ Ack

Proceed(q) ==
    \/ CountFree(q) \/ CountFull(q) \/ CountRaises(q)
    \/ SolveCaptcha(q) \/ MissCaptcha(q) \/ BurnCaptcha(q) \/ BurnRaises(q)
    \/ Hit(q) \/ Window(q) \/ HitRaises(q) \/ Insert(q) \/ Enqueue(q)

PublicNext ==
    \/ \E q \in Requests : Begin(q) \/ Proceed(q) \/ RequestBreaks(q)
    \/ IssueCaptcha
    \/ TtlOver
    \/ Work \/ WorkerBreaks

PublicSpec == PublicInit /\ [][PublicNext]_scanVars

\* The worker's loop and a request that has begun go on.
FairPublicSpec ==
    /\ PublicSpec
    /\ WF_scanVars(Work)
    /\ \A q \in Requests : WF_scanVars(Proceed(q))

-------------------------------------------------------------------------------
\* _position.
Position(s) == Cardinality({t \in Waiting : t < s})

\* public.py:35, "0 = running/next": the scan at the worker has none ahead of
\* it, but for those of overlapping requests and those nobody will finish.
ServedInTurn ==
    wpc \in {"taken", "engine"} =>
        \A t \in Waiting : t < wscan => t \in tangled \cup abandoned

\* In one window the IP has at most Free scans without a captcha, and a
\* challenge lets one request through, unless two requests were between the
\* check and the use of the same, or Redis failed in between.
LimitsHold ==
    /\ hasty \/ freely <= Free
    /\ shared \/ passed <= 1

\* Every scan that was committed ends, but for those whose request or worker
\* broke off; so each waiting scan's position comes down to those.
ScansEnd ==
    \A s \in 1..MaxScans :
        s \in Waiting ~> (s \in Ended \/ s \in abandoned)
===============================================================================
