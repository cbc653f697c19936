------------------------------ MODULE Sessions ------------------------------
(***************************************************************************)
(* The sessions of one user: routers/auth.py from the sign-in on, with the *)
(* browser of frontend/lib/api.ts, which answers a 401 by a refresh.       *)
(*                                                                         *)
(* A sign-in makes a device row and a session family of its own, so a      *)
(* device stands for its family.  A session row is the position of its     *)
(* token in owner.  Refreshes of one browser run in parallel: every tab,   *)
(* and every request of a page, sends its own.  A refresh reads its        *)
(* session, then writes and commits; its reply reaches the browser later,  *)
(* in any order, or never.  The 60 days of a refresh token do not run out. *)
(***************************************************************************)
EXTENDS Naturals, Sequences

CONSTANTS
    Devices,        \* sign-ins of the user, each on a browser
    Tabs,           \* parallel refreshes of one browser
    MaxTokens       \* bound: session rows ever inserted

ASSUME SessionsAssumption == MaxTokens \in Nat

VARIABLES
    owner,          \* device of each session row
    live,           \* rows whose revoked_at is null
    deleted,        \* rows that erase_my_data deleted
    erased,         \* the account is anonymised and inactive
    signing,        \* sign-ins that have read the active user
    jar,            \* the cookie govux_rt of each browser, 0 if none
    fresh,          \* browsers whose access token is valid
    out,            \* browsers that api.ts has sent to the login page
    pc, token,      \* each refresh: its place, the token it carries
    tangled,        \* history: refreshes overlapped, or the new cookie of one
                    \*   that had committed never arrived
    errored,        \* history: devices with a refresh answered by an error
    revoked,        \* history: devices the user revoked
    killed,         \* history: families revoked for reuse
    straggled,      \* history: ... while a refresh was about to rotate
    late            \* history: sign-ins in progress at the erasure

rowVars     == <<owner, live, deleted, erased>>
browserVars == <<jar, fresh, out>>
callVars    == <<pc, token>>
historyVars == <<tangled, errored, revoked, killed, straggled, late>>
sessionVars == <<rowVars, signing, browserVars, callVars, historyVars>>

Tokens == 1..MaxTokens
Calls  == Devices \X Tabs

SessionsTypeOK ==
    /\ owner \in Seq(Devices) /\ Len(owner) <= MaxTokens
    /\ live \subseteq 1..Len(owner)
    /\ deleted \subseteq 1..Len(owner)
    /\ erased \in BOOLEAN
    /\ signing \subseteq Devices
    /\ jar \in [Devices -> 0..Len(owner)]
    /\ fresh \subseteq Devices
    /\ out \subseteq Devices
    /\ pc \in [Calls -> {"idle", "sent", "rotate", "reuse", "granted", "denied"}]
    /\ token \in [Calls -> 0..Len(owner)]
    /\ tangled \subseteq Devices
    /\ errored \subseteq Devices
    /\ revoked \subseteq Devices
    /\ killed \subseteq Devices
    /\ straggled \subseteq Devices
    /\ late \subseteq Devices

SessionsInit ==
    /\ owner = <<>>
    /\ live = {}
    /\ deleted = {}
    /\ erased = FALSE
    /\ signing = {}
    /\ jar = [d \in Devices |-> 0]
    /\ fresh = {}
    /\ out = {}
    /\ pc = [c \in Calls |-> "idle"]
    /\ token = [c \in Calls |-> 0]
    /\ tangled = {}
    /\ errored = {}
    /\ revoked = {}
    /\ killed = {}
    /\ straggled = {}
    /\ late = {}

-------------------------------------------------------------------------------
Family(d) == {t \in 1..Len(owner) : owner[t] = d}

CallsOf(d, places) == {c \in Calls : c[1] = d /\ pc[c] \in places}

Busy == {"sent", "rotate", "reuse", "granted", "denied"}

Goto(c, place) == pc' = [pc EXCEPT ![c] = place]

Ends(c) == Goto(c, "idle") /\ token' = [token EXCEPT ![c] = 0]

\* verify_otp reads the user by email; an erased account is not found by it.
BeginSignIn(d) ==
    /\ d \notin signing
    /\ Family(d) = {}
    /\ ~erased
    /\ signing' = signing \cup {d}
    /\ UNCHANGED <<rowVars, browserVars, callVars, historyVars>>

\* Device, session and last login in one commit; the reply sets the cookie.
SignIn(d) ==
    /\ d \in signing
    /\ Len(owner) < MaxTokens
    /\ owner' = Append(owner, d)
    /\ live' = live \cup {Len(owner) + 1}
    /\ signing' = signing \ {d}
    /\ jar' = [jar EXCEPT ![d] = Len(owner) + 1]
    /\ fresh' = fresh \cup {d}
    /\ UNCHANGED <<deleted, erased, out, callVars, historyVars>>

\* The access token's 15 minutes are over, or the page that holds it in memory
\* is loaded again.
AccessExpires(d) ==
    /\ d \in fresh
    /\ fresh' = fresh \ {d}
    /\ UNCHANGED <<rowVars, signing, jar, out, callVars, historyVars>>

\* A request got a 401: the browser sends a refresh with its cookie.
SendRefresh(c) ==
    LET d == c[1] IN
    /\ pc[c] = "idle"
    /\ jar[d] # 0
    /\ d \notin fresh
    /\ Goto(c, "sent")
    /\ token' = [token EXCEPT ![c] = jar[d]]
    /\ tangled' = IF CallsOf(d, Busy) = {} THEN tangled ELSE tangled \cup {d}
    /\ UNCHANGED <<rowVars, signing, browserVars, errored, revoked, killed,
                   straggled, late>>

\* refresh_token reads the session by its hash, revoked or not.
LookUp(c) ==
    /\ pc[c] = "sent"
    /\ Goto(c, CASE token[c] \in deleted -> "denied"
                 [] token[c] \in live    -> "rotate"
                 [] OTHER                -> "reuse")
    /\ UNCHANGED <<rowVars, signing, browserVars, token, historyVars>>

\* A refresh that has read its session as live will mint a token whatever
\* happens to the session meanwhile.
Stragglers(d) == CallsOf(d, {"rotate"})

\* Variant: only the session that was presented is revoked, not its family.
RevokePresented(c) ==
    LET d == c[1] IN
    /\ pc[c] = "reuse"
    /\ live' = live \ {token[c]}
    /\ killed' = killed \cup {d}
    /\ straggled' = IF Stragglers(d) = {} THEN straggled ELSE straggled \cup {d}
    /\ Goto(c, "denied")
    /\ UNCHANGED <<owner, deleted, erased, signing, browserVars, token, tangled,
                   errored, revoked, late>>

\* Reuse: every live session of the family is revoked.
RevokeFamily(c) ==
    LET d == c[1] IN
    /\ pc[c] = "reuse"
    /\ live' = live \ Family(d)
    /\ killed' = killed \cup {d}
    /\ straggled' = IF Stragglers(d) = {} THEN straggled ELSE straggled \cup {d}
    /\ Goto(c, "denied")
    /\ UNCHANGED <<owner, deleted, erased, signing, browserVars, token, tangled,
                   errored, revoked, late>>

\* Variant: an UPDATE that matches no row passes unnoticed, as a bulk update
\* would let it.
RotateUnnoticed(c) ==
    /\ pc[c] = "rotate"
    /\ Len(owner) < MaxTokens
    /\ owner' = Append(owner, c[1])
    /\ live' = (live \ {token[c]}) \cup {Len(owner) + 1}
    /\ token' = [token EXCEPT ![c] = Len(owner) + 1]
    /\ Goto(c, "granted")
    /\ UNCHANGED <<deleted, erased, signing, browserVars, historyVars>>

\* Rotation: the token it was sent with is revoked, a new row of the family
\* inserted, one commit.
Rotate(c) ==
    /\ pc[c] = "rotate"
    /\ token[c] \notin deleted
    /\ Len(owner) < MaxTokens
    /\ owner' = Append(owner, c[1])
    /\ live' = (live \ {token[c]}) \cup {Len(owner) + 1}
    /\ token' = [token EXCEPT ![c] = Len(owner) + 1]
    /\ Goto(c, "granted")
    /\ UNCHANGED <<deleted, erased, signing, browserVars, historyVars>>

\* The row is gone: its UPDATE matches nothing, the ORM raises, nothing is
\* committed.
RotateFails(c) ==
    /\ pc[c] = "rotate"
    /\ token[c] \in deleted
    /\ Goto(c, "denied")
    /\ UNCHANGED <<rowVars, signing, browserVars, token, historyVars>>

\* Variant: the reply sets a cookie of a path the browser does not send it on.
GrantedElsewhere(c) ==
    LET d == c[1] IN
    /\ pc[c] = "granted"
    /\ fresh' = fresh \cup {d}
    /\ Ends(c)
    /\ UNCHANGED <<rowVars, signing, jar, out, historyVars>>

\* The reply arrives: a new cookie and a new access token.
Granted(c) ==
    LET d == c[1] IN
    /\ pc[c] = "granted"
    /\ jar' = [jar EXCEPT ![d] = token[c]]
    /\ fresh' = fresh \cup {d}
    /\ Ends(c)
    /\ UNCHANGED <<rowVars, signing, out, historyVars>>

\* The reply is not ok: api.ts drops the access token, goes to the login page.
SentToLogin(c) ==
    /\ out' = out \cup {c[1]}
    /\ fresh' = fresh \ {c[1]}
    /\ Ends(c)

Denied(c) ==
    /\ pc[c] = "denied"
    /\ SentToLogin(c)
    /\ UNCHANGED <<rowVars, signing, jar, historyVars>>

\* The answer is an error: the 500 of the handler, or the proxy's 5xx when the
\* API dies.  Nothing was committed before the commit, everything after it.
\* api.ts takes an answer that is not ok for the end of the session.
AnsweredByError(c) ==
    /\ pc[c] \in {"sent", "rotate", "reuse", "granted"}
    /\ SentToLogin(c)
    /\ errored' = errored \cup {c[1]}
    /\ tangled' = IF pc[c] = "granted" THEN tangled \cup {c[1]} ELSE tangled
    /\ UNCHANGED <<rowVars, signing, jar, revoked, killed, straggled, late>>

\* No answer reaches the browser: its fetch raises, the page stays where it is.
ReplyLost(c) ==
    /\ pc[c] \in Busy
    /\ Ends(c)
    /\ tangled' = IF pc[c] = "granted" THEN tangled \cup {c[1]} ELSE tangled
    /\ UNCHANGED <<rowVars, signing, browserVars, errored, revoked, killed, straggled,
                   late>>

-------------------------------------------------------------------------------
\* current_user: a valid access token, and the user is active.
SignedIn(d) == d \in fresh /\ ~erased

\* revoke_device, sent from some device of the user.
RevokeDevice(d) ==
    /\ \E e \in Devices : SignedIn(e)
    /\ Family(d) # {}
    /\ live' = live \ Family(d)
    /\ revoked' = revoked \cup {d}
    /\ straggled' = IF Stragglers(d) = {} THEN straggled ELSE straggled \cup {d}
    /\ UNCHANGED <<owner, deleted, erased, signing, browserVars, callVars, tangled,
                   errored, killed, late>>

\* erase_my_data: sessions and devices deleted, the account made inactive.
EraseMyData ==
    /\ \E e \in Devices : SignedIn(e)
    /\ deleted' = 1..Len(owner)
    /\ live' = {}
    /\ erased' = TRUE
    /\ late' = signing
    /\ UNCHANGED <<owner, signing, browserVars, callVars, tangled, errored,
                   revoked, killed, straggled>>

-------------------------------------------------------------------------------
SessionsNext ==
    \/ \E d \in Devices :
          BeginSignIn(d) \/ SignIn(d) \/ AccessExpires(d) \/ RevokeDevice(d)
    \/ \E c \in Calls :
          \/ SendRefresh(c) \/ LookUp(c) \/ RevokeFamily(c)
          \/ Rotate(c) \/ RotateFails(c)
          \/ Granted(c) \/ Denied(c)
          \/ AnsweredByError(c) \/ ReplyLost(c)
    \/ EraseMyData

SessionsSpec == SessionsInit /\ [][SessionsNext]_sessionVars

-------------------------------------------------------------------------------
\* A family has one live token, as long as its refreshes come one at a time
\* and their replies arrive.  A device that was revoked, or whose family was
\* revoked for reuse, has none again, unless a refresh had read its session
\* before.
LiveTokens ==
    /\ \A d \in Devices \ tangled : \A s, t \in live \cap Family(d) : s = t
    /\ \A d \in (revoked \cup killed) \ straggled : live \cap Family(d) = {}

\* After the erasure nothing of the user is live, whatever was being refreshed
\* then; only a sign-in that had read the user before can add a session.
ErasedStaysErased == erased => \A t \in live : owner[t] \in late

\* A family is revoked for reuse, and a browser sent to the login page, for a
\* reason.  No alarm of reuse goes off for a browser whose refreshes come one at
\* a time and whose new cookies arrive, whatever else fails, unless its user has
\* revoked it; and such a browser has to log in only after that, after the
\* erasure, or because one of its refreshes was answered by an error.
SentToLoginForAReason ==
    /\ killed \subseteq tangled \cup revoked
    /\ out \subseteq tangled \cup revoked \cup errored
                   \cup (IF erased THEN Devices ELSE {})
===============================================================================
