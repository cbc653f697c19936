------------------------------- MODULE SignIn -------------------------------
(***************************************************************************)
(* Signing in to one account with a one-time code: request_otp and         *)
(* verify_otp of routers/auth.py, with the lock-out of services/authguard. *)
(*                                                                         *)
(* A code is the position of its row.  Codes live equally long, so they    *)
(* expire in order.  Every Redis command is a step; the two GETs of status *)
(* are one.  Redis drops a key whose ttl is over at any moment.            *)
(***************************************************************************)
EXTENDS Naturals, Sequences, FiniteSets

CONSTANTS
    Requests,       \* concurrent requests of verify_otp
    Threshold,      \* otp_fail_threshold
    OtpMax,         \* otp_max_attempts
    MaxCodes        \* bound: codes ever issued

ASSUME SignInAssumption ==
    /\ Threshold \in Nat \ {0}
    /\ OtpMax \in Nat
    /\ MaxCodes \in Nat

VARIABLES
    attempts,       \* attempts of each code row
    consumed,       \* codes with a consumed_at
    expired,        \* number of codes that have expired
    account,        \* the user row exists
    fail,           \* govux:otp:fail: count, has a ttl
    lock, tier,     \* govux:otp:lock, govux:otp:tier
    place,          \* place of each call
    row,            \* the code row a call has read, 0 if none
    read,           \* a number the call has read: attempts, count or tier
    known,          \* calls that have found the user row
    opened,         \* history: sessions opened with each code
    wrongs,         \* history: wrong entries committed against each code;
                    \*   both no longer count for a crowded code
    counted,        \* history: failures counted since the last reset;
                    \*   no longer once raced or broken
    crowded,        \* history: codes that two calls held at the same time
    raced,          \* history: two failures were recorded at the same time
    broken          \* history: a call broke off between two Redis commands

codeVars    == <<attempts, consumed, expired, account>>
redisVars   == <<fail, lock, tier>>
requestVars == <<place, row, read, known>>
signInHistory == <<opened, wrongs, counted, crowded, raced, broken>>
signInVars  == <<codeVars, redisVars, requestVars, signInHistory>>

Codes == 1..Len(attempts)

Places == {"idle", "captcha", "code", "wrong", "incr", "expire", "tier", "settier",
           "setlock", "delfail", "right", "open"}

\* record_failure past its INCR.
Recording == {"expire", "tier", "settier", "setlock", "delfail"}

NoCount == [n |-> 0, ttl |-> FALSE]

SignInTypeOK ==
    /\ attempts \in Seq(Nat) /\ Len(attempts) <= MaxCodes
    /\ consumed \subseteq Codes
    /\ expired \in 0..Len(attempts)
    /\ account \in BOOLEAN
    /\ fail \in [n : Nat, ttl : BOOLEAN]
    /\ lock \in BOOLEAN
    /\ tier \in Nat
    /\ place \in [Requests -> Places]
    /\ row \in [Requests -> 0..Len(attempts)]
    /\ read \in [Requests -> Nat]
    /\ known \subseteq Requests
    /\ \A c \in Requests : place[c] \in {"wrong", "right", "open"} => row[c] # 0
    /\ Len(opened) = Len(attempts) /\ opened \in Seq(Nat)
    /\ Len(wrongs) = Len(attempts) /\ wrongs \in Seq(Nat)
    /\ counted \in Nat
    /\ crowded \subseteq Codes
    /\ {raced, broken} \subseteq BOOLEAN

SignInInit ==
    /\ attempts = <<>>
    /\ consumed = {}
    /\ expired = 0
    /\ account = FALSE
    /\ fail = NoCount
    /\ lock = FALSE
    /\ tier = 0
    /\ place = [c \in Requests |-> "idle"]
    /\ row = [c \in Requests |-> 0]
    /\ read = [c \in Requests |-> 0]
    /\ known = {}
    /\ opened = <<>> /\ wrongs = <<>>
    /\ counted = 0
    /\ crowded = {}
    /\ raced = FALSE /\ broken = FALSE

-------------------------------------------------------------------------------
MovesTo(c, p) == place' = [place EXCEPT ![c] = p]

Others(c, places) == {d \in Requests \ {c} : place[d] \in places}

\* The reply is sent; what the request held is gone.
Replied(c) ==
    /\ MovesTo(c, "idle")
    /\ row' = [row EXCEPT ![c] = 0]
    /\ read' = [read EXCEPT ![c] = 0]
    /\ known' = known \ {c}

\* INCR gives a new key no ttl.
Incremented(counter) == [counter EXCEPT !.n = @ + 1]

\* EXPIRE does nothing to a key that is gone.
Expiring(counter) == [counter EXCEPT !.ttl = (counter.n > 0)]

-------------------------------------------------------------------------------
\* request_otp: the limiter (see PublicScan) lets it pass; the row is
\* committed; the mail brings the code now, later or never.
RequestCode ==
    /\ Len(attempts) < MaxCodes
    /\ attempts' = Append(attempts, 0)
    /\ opened' = Append(opened, 0)
    /\ wrongs' = Append(wrongs, 0)
    /\ UNCHANGED <<consumed, expired, account, redisVars, requestVars, counted,
                   crowded, raced, broken>>

-------------------------------------------------------------------------------
\* verify_otp begins with authguard.status: a locked account is refused.
Guard(c) ==
    /\ place[c] = "idle"
    /\ Codes # {}
    /\ ~lock
    /\ MovesTo(c, IF tier >= 2 THEN "captcha" ELSE "code")
    /\ UNCHANGED <<codeVars, redisVars, row, read, known, signInHistory>>

\* The guard fails open.
GuardRaises(c) ==
    /\ place[c] = "idle"
    /\ Codes # {}
    /\ MovesTo(c, "code")
    /\ UNCHANGED <<codeVars, redisVars, row, read, known, signInHistory>>

\* From the second tier on a captcha is due (see PublicScan): it is solved, or
\* the call refused.
Captcha(c) ==
    /\ place[c] = "captcha"
    /\ MovesTo(c, "code") \/ MovesTo(c, "idle")
    /\ UNCHANGED <<codeVars, redisVars, row, read, known, signInHistory>>

-------------------------------------------------------------------------------
Unconsumed == Codes \ consumed

\* The code that verify_otp compares with: the newest that is not consumed.
Newest(k) == k \in Unconsumed /\ \A j \in Unconsumed : j <= k

\* No such code, or it has expired, or its attempts are used up.
NoCode(c) ==
    /\ place[c] = "code"
    /\ \A k \in Codes : Newest(k) => k <= expired \/ attempts[k] >= OtpMax
    /\ Replied(c)
    /\ UNCHANGED <<codeVars, redisVars, signInHistory>>

\* The code entered is that one; or it is another, be it one that was mailed
\* before or will be found in the mail later.
ReadCode(c) ==
    \E k \in Codes, verdict \in {"right", "wrong"} :
        /\ place[c] = "code"
        /\ Newest(k)
        /\ k > expired
        /\ attempts[k] < OtpMax
        /\ row' = [row EXCEPT ![c] = k]
        /\ read' = [read EXCEPT ![c] = attempts[k]]
        /\ MovesTo(c, verdict)
        /\ crowded' = IF \E d \in Requests \ {c} : row[d] = k
                      THEN crowded \cup {k} ELSE crowded
        /\ opened' = IF k \in crowded' THEN [opened EXCEPT ![k] = 0] ELSE opened
        /\ wrongs' = IF k \in crowded' THEN [wrongs EXCEPT ![k] = 0] ELSE wrongs
        /\ UNCHANGED <<codeVars, redisVars, known, counted, raced,
                       broken>>

\* attempts is what was read, plus one.
SpendAttempt(c) ==
    LET k == row[c] IN
    /\ place[c] = "wrong"
    /\ attempts' = [attempts EXCEPT ![k] = read[c] + 1]
    /\ wrongs' = IF k \in crowded THEN wrongs ELSE [wrongs EXCEPT ![k] = @ + 1]
    /\ row' = [row EXCEPT ![c] = 0]
    /\ read' = [read EXCEPT ![c] = 0]
    /\ MovesTo(c, "incr")
    /\ UNCHANGED <<consumed, expired, account, redisVars, known, opened, counted,
                   crowded, raced, broken>>

-------------------------------------------------------------------------------
\* record_failure, command by command.

\* Variant: one failure more than the threshold.
JudgeLate(n) == IF n > Threshold THEN "tier" ELSE "idle"

Judge(n) == IF n >= Threshold THEN "tier" ELSE "idle"

IncrFail(c) ==
    LET n == fail.n + 1 IN
    /\ place[c] = "incr"
    /\ fail' = Incremented(fail)
    /\ read' = [read EXCEPT ![c] = n]
    /\ raced' = (raced \/ Others(c, Recording) # {})
    /\ counted' = IF raced' \/ broken THEN 0 ELSE counted + 1
    /\ MovesTo(c, IF n = 1 THEN "expire" ELSE Judge(n))
    /\ UNCHANGED <<codeVars, lock, tier, row, known, opened, wrongs, crowded,
                   broken>>

ExpireFail(c) ==
    /\ place[c] = "expire"
    /\ fail' = Expiring(fail)
    /\ MovesTo(c, Judge(read[c]))
    /\ UNCHANGED <<codeVars, lock, tier, row, read, known, signInHistory>>

GetTier(c) ==
    /\ place[c] = "tier"
    /\ read' = [read EXCEPT ![c] = tier + 1]
    /\ MovesTo(c, "settier")
    /\ UNCHANGED <<codeVars, redisVars, row, known, signInHistory>>

SetTier(c) ==
    /\ place[c] = "settier"
    /\ tier' = read[c]
    /\ read' = [read EXCEPT ![c] = 0]
    /\ MovesTo(c, "setlock")
    /\ UNCHANGED <<codeVars, fail, lock, row, known, signInHistory>>

SetLock(c) ==
    /\ place[c] = "setlock"
    /\ lock' = TRUE
    /\ MovesTo(c, "delfail")
    /\ UNCHANGED <<codeVars, fail, tier, row, read, known, signInHistory>>

DelFail(c) ==
    /\ place[c] = "delfail"
    /\ fail' = NoCount
    /\ Replied(c)
    /\ UNCHANGED <<codeVars, lock, tier, signInHistory>>

-------------------------------------------------------------------------------
\* The SELECT of the user by email.
FindUser(c) ==
    /\ known' = IF account THEN known \cup {c} ELSE known
    /\ MovesTo(c, "open")

\* The code is right: authguard.reset, one DEL of the three keys.
Reset(c) ==
    /\ place[c] = "right"
    /\ fail' = NoCount
    /\ lock' = FALSE
    /\ tier' = 0
    /\ counted' = 0
    /\ raced' = (Others(c, Recording) # {})
    /\ FindUser(c)
    /\ UNCHANGED <<codeVars, row, read, opened, wrongs, crowded, broken>>

ResetRaises(c) ==
    /\ place[c] = "right"
    /\ FindUser(c)
    /\ UNCHANGED <<codeVars, redisVars, row, read, signInHistory>>

\* Variant: the code is not marked as used.
OpenSessionAgain(c) ==
    LET k == row[c] IN
    /\ place[c] = "open"
    /\ c \in known \/ ~account
    /\ account' = TRUE
    /\ opened' = IF k \in crowded THEN opened ELSE [opened EXCEPT ![k] = @ + 1]
    /\ Replied(c)
    /\ UNCHANGED <<attempts, consumed, expired, redisVars, wrongs, counted,
                   crowded, raced, broken>>

\* The code consumed, the user if new, the device and the session: one commit.
OpenSession(c) ==
    LET k == row[c] IN
    /\ place[c] = "open"
    /\ c \in known \/ ~account
    /\ consumed' = consumed \cup {k}
    /\ account' = TRUE
    /\ opened' = IF k \in crowded THEN opened ELSE [opened EXCEPT ![k] = @ + 1]
    /\ Replied(c)
    /\ UNCHANGED <<attempts, expired, redisVars, wrongs, counted, crowded, raced,
                   broken>>

\* Two first sign-ins: the second INSERT of the user violates users.email.
DuplicateUser(c) ==
    /\ place[c] = "open"
    /\ c \notin known /\ account
    /\ Replied(c)
    /\ UNCHANGED <<codeVars, redisVars, signInHistory>>

\* The API process is killed, the database raises, or Redis does in
\* record_failure, which swallows it.  Bound: not again once broken.
BreaksOff(c) ==
    /\ place[c] # "idle"
    /\ ~broken
    /\ Replied(c)
    /\ broken' = (place[c] \in Recording)
    /\ counted' = IF broken' THEN 0 ELSE counted
    /\ UNCHANGED <<codeVars, redisVars, opened, wrongs, crowded, raced>>

-------------------------------------------------------------------------------
\* Time: Redis drops what has a ttl, the next code expires.
TtlOver ==
    /\ \/ fail.ttl /\ fail' = NoCount /\ UNCHANGED <<lock, tier>>
       \/ lock /\ lock' = FALSE /\ UNCHANGED <<fail, tier>>
       \/ tier > 0 /\ tier' = 0 /\ UNCHANGED <<fail, lock>>
    /\ UNCHANGED <<codeVars, requestVars, signInHistory>>

CodeExpires ==
    /\ expired < Len(attempts)
    /\ expired' = expired + 1
    /\ UNCHANGED <<attempts, consumed, account, redisVars, requestVars,
                   signInHistory>>

SignInNext ==
    \/ \E c \in Requests :
          \/ Guard(c) \/ GuardRaises(c)
          \/ Captcha(c) \/ NoCode(c) \/ ReadCode(c) \/ SpendAttempt(c)
          \/ IncrFail(c) \/ ExpireFail(c)
          \/ GetTier(c) \/ SetTier(c) \/ SetLock(c) \/ DelFail(c)
          \/ Reset(c) \/ ResetRaises(c) \/ OpenSession(c) \/ DuplicateUser(c)
          \/ BreaksOff(c)
    \/ RequestCode
    \/ TtlOver
    \/ CodeExpires

SignInSpec == SignInInit /\ [][SignInNext]_signInVars

-------------------------------------------------------------------------------
\* One code opens one session and takes no more wrong entries than it has
\* attempts, unless two calls held it at the same time.
SingleUse ==
    \A k \in Codes \ crowded : opened[k] <= 1 /\ wrongs[k] <= OtpMax

\* record_failure, authguard.py:42-51: as long as no two failures are recorded at
\* the same time and none breaks off between two commands, a count that has
\* reached the threshold is on its way to the lock, and no tier is given for less
\* than a threshold of failures each, counted since the last reset.  A count has a
\* ttl or is about to get it, and reaches no threshold unseen, also when two
\* failures raced.  (The count goes with the lock, so a further lock takes a
\* threshold again: FurtherFailureLocks.)
LockoutFollowsFailures ==
    \/ broken
    \/ /\ fail.n >= Threshold => \E c \in Requests : place[c] \in Recording
       /\ raced \/ tier * Threshold <= counted
       /\ fail.n > 0 /\ ~fail.ttl => \E c \in Requests : place[c] = "expire"

\* authguard.py:4: "Fail again after that", a lock run out, "-> lock" again, for
\* longer.  Whoever has counted such a failure is on the way there.
FurtherFailureLocks ==
    tier = 1 /\ ~lock /\ fail.n > 0 /\ ~raced /\ ~broken =>
        \E c \in Requests : place[c] \in Recording

\* What makes SingleUse inductive: a code that no two calls held counts its
\* wrong entries in its row, opened a session exactly if it is consumed, and the
\* call that holds it has read what its row says now.
HeldAlone(k) ==
    \A c \in Requests : row[c] = k =>
        /\ place[c] \in {"wrong", "right", "open"}
        /\ k \notin consumed
        /\ attempts[k] < OtpMax
        /\ place[c] = "wrong" => read[c] = attempts[k]
        /\ \A d \in Requests : row[d] = k => d = c

CodeInv ==
    \A k \in Codes \ crowded :
        /\ wrongs[k] = attempts[k] /\ attempts[k] <= OtpMax
        /\ opened[k] = IF k \in consumed THEN 1 ELSE 0
        /\ HeldAlone(k)

\* What makes LockoutFollowsFailures inductive: whoever counted up to the
\* threshold is on its way to the lock, and the failures counted pay for every
\* tier, for the tier it is about to set, and for the count it has not deleted.
Locking(c) ==
    \/ place[c] \in {"tier", "settier", "setlock", "delfail"}
    \/ place[c] = "expire" /\ read[c] >= Threshold

ThresholdIsSeen == fail.n >= Threshold => \E c \in Requests : Locking(c)

TtlIsComing ==
    fail.n > 0 /\ ~fail.ttl => \E c \in Requests : place[c] = "expire"

OneRecorder ==
    \A c, d \in Requests :
        place[c] \in Recording /\ place[d] \in Recording => c = d

DueTier(c) ==
    CASE place[c] = "expire"  -> IF read[c] >= Threshold THEN tier + 1 ELSE tier
      [] place[c] = "tier"    -> tier + 1
      [] place[c] = "settier" -> read[c]
      [] OTHER                -> tier

TiersArePaid ==
    /\ tier * Threshold <= counted
    /\ \A c \in Requests : DueTier(c) * Threshold <= counted
    /\ (\A c \in Requests : place[c] \notin {"setlock", "delfail"})
         => tier * Threshold + fail.n <= counted

LockoutInv ==
    \/ broken
    \/ /\ ThresholdIsSeen /\ TtlIsComing
       /\ raced \/ (OneRecorder /\ TiersArePaid)
===============================================================================
