------------------------------ MODULE AuthProofs ------------------------------
(***************************************************************************)
(* Proofs about Sessions and SignIn, the two halves of routers/auth.py.    *)
(* Sessions, for any number of browsers, tabs and tokens: its types, what  *)
(* is live, what an erasure leaves and who has to log in.  SignIn, for any *)
(* number of requests and codes, any threshold and any number of attempts: *)
(* its types, the single use of a code and the lock-out.                   *)
(***************************************************************************)
EXTENDS Sessions, SignIn, SequenceTheorems, TLAPS

-------------------------------------------------------------------------------
(***************************************************************************)
(* The inductive invariant                                                 *)
(***************************************************************************)
HasFamily(d) == \E t \in 1..Len(owner) : owner[t] = d

\* Browsers and calls hold tokens of their own device.
TokensAreOwn ==
    /\ \A c \in Calls : pc[c] # "idle" => token[c] # 0 /\ owner[token[c]] = c[1]
    /\ \A d \in Devices : jar[d] # 0 => owner[jar[d]] = d

\* A device has its first token from its sign-in and is revoked after that.
SignInIsFirst ==
    /\ \A d \in signing : ~HasFamily(d)
    /\ \A d \in revoked \cup killed : HasFamily(d)

\* A row that outlives the erasure comes from a sign-in in progress then.
ErasureHolds ==
    /\ live \cap deleted = {}
    /\ deleted # {} => erased
    /\ erased => /\ signing \subseteq late
                 /\ \A t \in 1..Len(owner) : t \in deleted \/ owner[t] \in late

\* After a revocation no call is left that would mint a token.
RevocationHolds ==
    \A d \in (revoked \cup killed) \ straggled :
        /\ \A t \in live : owner[t] # d
        /\ \A c \in Calls : c[1] = d => pc[c] # "rotate"

\* With one refresh at a time a live token is the one of the cookie, or the one
\* that is on its way.
InTurn(d) ==
    /\ \A a, b \in Calls :
          a[1] = d /\ b[1] = d /\ pc[a] # "idle" /\ pc[b] # "idle" => a = b
    /\ \A c \in Calls :
          c[1] = d /\ pc[c] \in {"sent", "rotate", "reuse"} => token[c] = jar[d]
    /\ \A t \in live :
          owner[t] = d => \/ t = jar[d] /\ \A c \in Calls : c[1] = d => pc[c] # "granted"
                          \/ \E c \in Calls : c[1] = d /\ pc[c] = "granted" /\ t = token[c]

OneAtATime == \A d \in Devices \ tangled : InTurn(d)

\* ... and that token is live until a revocation or the erasure, so that no
\* refresh finds it revoked.
Unharmed(d) ==
    /\ d \notin killed
    /\ \A c \in Calls : c[1] = d => pc[c] # "reuse" /\ (pc[c] = "denied" => erased)
    /\ \A c \in Calls : c[1] = d /\ pc[c] = "granted" => token[c] \in live \cup deleted
    /\ jar[d] # 0 => \/ jar[d] \in live \cup deleted
                     \/ \E c \in Calls : c[1] = d /\ pc[c] = "granted"

NobodyHarmed == \A d \in Devices \ (tangled \cup revoked) : Unharmed(d)

SessionsInv ==
    /\ SessionsTypeOK /\ SentToLoginForAReason
    /\ TokensAreOwn /\ SignInIsFirst /\ ErasureHolds /\ RevocationHolds
    /\ OneAtATime /\ NobodyHarmed

-------------------------------------------------------------------------------
(***************************************************************************)
(* Types                                                                   *)
(***************************************************************************)

LEMMA CallsHaveDevices == \A c \in Calls : c[1] \in Devices
BY DEF Calls

\* An insert appends one row of the device.
LEMMA RowsGrow ==
    ASSUME NEW s \in Seq(Devices), NEW d \in Devices
    PROVE  /\ Len(s) \in Nat
           /\ Append(s, d) \in Seq(Devices)
           /\ Len(Append(s, d)) = Len(s) + 1
           /\ \A t \in 1..Len(s) : Append(s, d)[t] = s[t]
           /\ Append(s, d)[Len(s) + 1] = d
BY AppendProperties, LenProperties

\* What an insert does, in the terms of the invariant.
LEMMA RowInserted ==
    ASSUME SessionsTypeOK, NEW d \in Devices, owner' = Append(owner, d),
           Len(owner) < MaxTokens
    PROVE  /\ Len(owner) \in Nat
           /\ owner' \in Seq(Devices) /\ Len(owner') = Len(owner) + 1
           /\ Len(owner') <= MaxTokens
           /\ \A t \in 1..Len(owner) : owner'[t] = owner[t]
           /\ owner'[Len(owner) + 1] = d
<1>1. owner \in Seq(Devices) /\ Len(owner) \in Nat
      BY LenProperties DEF SessionsTypeOK
<1>2. QED  BY <1>1, RowsGrow, SessionsAssumption

LEMMA SessionsInitially == SessionsInit => SessionsInv
<1> SUFFICES ASSUME SessionsInit PROVE SessionsInv
    OBVIOUS
<1>1. owner \in Seq(Devices) /\ Len(owner) = 0 /\ Len(owner) \in Nat
      BY EmptySeq, LenProperties DEF SessionsInit
<1>2. SessionsTypeOK
  <2>1. /\ jar \in [Devices -> 0..Len(owner)] /\ token \in [Calls -> 0..Len(owner)]
        /\ pc \in [Calls -> {"idle", "sent", "rotate", "reuse", "granted", "denied"}]
        BY <1>1 DEF SessionsInit
  <2>2. /\ live = {} /\ deleted = {} /\ erased = FALSE /\ signing = {} /\ fresh = {}
        /\ out = {} /\ tangled = {} /\ errored = {} /\ revoked = {} /\ killed = {} /\ straggled = {}
        /\ late = {}
        BY DEF SessionsInit
  <2>3. Len(owner) <= MaxTokens  BY <1>1, SessionsAssumption
  <2>4. QED  BY <1>1, <2>1, <2>2, <2>3, Zenon DEF SessionsTypeOK
<1>3. \A c \in Calls : c[1] \in Devices /\ pc[c] = "idle"
      BY CallsHaveDevices DEF SessionsInit
<1>4. \A d \in Devices : jar[d] = 0  BY DEF SessionsInit
<1>5. SentToLoginForAReason  BY DEF SessionsInit, SentToLoginForAReason
<1>6. TokensAreOwn /\ SignInIsFirst
      BY <1>3, <1>4 DEF SessionsInit, TokensAreOwn, SignInIsFirst
<1>7. ErasureHolds /\ RevocationHolds
      BY DEF SessionsInit, ErasureHolds, RevocationHolds
<1>8. OneAtATime  BY <1>3, <1>4 DEF SessionsInit, OneAtATime, InTurn
<1>9. NobodyHarmed  BY <1>3, <1>4 DEF SessionsInit, NobodyHarmed, Unharmed
<1>10. QED  BY <1>2, <1>5, <1>6, <1>7, <1>8, <1>9 DEF SessionsInv

\* A call that changes its place, and maybe its token.
LEMMA CallStep ==
    ASSUME SessionsTypeOK, NEW c \in Calls, NEW spot, NEW t,
           pc' = [pc EXCEPT ![c] = spot], token' = [token EXCEPT ![c] = t]
    PROVE  /\ pc'[c] = spot /\ token'[c] = t
           /\ \A a \in Calls \ {c} : pc'[a] = pc[a] /\ token'[a] = token[a]
BY Zenon DEF SessionsTypeOK

LEMMA PlaceStep ==
    ASSUME SessionsTypeOK, NEW c \in Calls, NEW spot, pc' = [pc EXCEPT ![c] = spot]
    PROVE  pc'[c] = spot /\ \A a \in Calls \ {c} : pc'[a] = pc[a]
BY Zenon DEF SessionsTypeOK

LEMMA SessionsStepTyped ==
    SessionsInv /\ [SessionsNext]_sessionVars => SessionsTypeOK'
<1> SUFFICES ASSUME SessionsInv, [SessionsNext]_sessionVars PROVE SessionsTypeOK'
    OBVIOUS
<1>t. SessionsTypeOK /\ TokensAreOwn  BY DEF SessionsInv
<1>n. Len(owner) \in Nat /\ MaxTokens \in Nat
      BY <1>t, LenProperties, SessionsAssumption DEF SessionsTypeOK
<1>c. \A c \in Calls : c[1] \in Devices  BY CallsHaveDevices
<1>1. ASSUME NEW d \in Devices, BeginSignIn(d) PROVE SessionsTypeOK'
      BY <1>t, <1>1
      DEF BeginSignIn, SessionsTypeOK, rowVars, browserVars, callVars, historyVars
<1>2. ASSUME NEW d \in Devices, SignIn(d) PROVE SessionsTypeOK'
  <2>1. /\ owner' = Append(owner, d) /\ Len(owner) < MaxTokens
        /\ live' = live \cup {Len(owner) + 1} /\ jar' = [jar EXCEPT ![d] = Len(owner) + 1]
        /\ signing' = signing \ {d} /\ fresh' = fresh \cup {d}
        /\ UNCHANGED <<deleted, erased, out, callVars, historyVars>>
        BY <1>2 DEF SignIn
  <2>2. owner' \in Seq(Devices) /\ Len(owner') = Len(owner) + 1 /\ Len(owner') <= MaxTokens
        BY <1>t, <2>1, RowInserted
  <2>3. /\ 1..Len(owner) \subseteq 1..Len(owner')
        /\ \A n \in 0..Len(owner) : n \in 0..Len(owner')
        /\ Len(owner) + 1 \in 0..Len(owner') /\ Len(owner) + 1 \in 1..Len(owner')
        BY <1>n, <2>2
  <2>4. /\ jar' \in [Devices -> 0..Len(owner')]
        /\ token' \in [Calls -> 0..Len(owner')]
        BY <1>t, <2>1, <2>3 DEF SessionsTypeOK, callVars
  <2>5. /\ live' \subseteq 1..Len(owner') /\ deleted' \subseteq 1..Len(owner')
        BY <1>t, <2>1, <2>3, Zenon DEF SessionsTypeOK
  <2>6. QED
        BY <1>t, <2>1, <2>2, <2>4, <2>5 DEF SessionsTypeOK, callVars, historyVars
<1>3. ASSUME NEW d \in Devices, AccessExpires(d) PROVE SessionsTypeOK'
      BY <1>t, <1>3
      DEF AccessExpires, SessionsTypeOK, rowVars, callVars, historyVars
<1>4. ASSUME NEW d \in Devices, RevokeDevice(d) PROVE SessionsTypeOK'
      BY <1>t, <1>4
      DEF RevokeDevice, SessionsTypeOK, browserVars, callVars
<1>5. ASSUME NEW c \in Calls, SendRefresh(c) PROVE SessionsTypeOK'
  <2>1. /\ pc' = [pc EXCEPT ![c] = "sent"] /\ token' = [token EXCEPT ![c] = jar[c[1]]]
        /\ tangled' \in {tangled, tangled \cup {c[1]}}
        /\ UNCHANGED <<rowVars, signing, browserVars, errored, revoked, killed,
                       straggled, late>>
        BY <1>5 DEF SendRefresh, Goto
  <2>2. QED  BY <1>t, <1>c, <2>1 DEF SessionsTypeOK, rowVars, browserVars
<1>6. ASSUME NEW c \in Calls, LookUp(c) PROVE SessionsTypeOK'
  <2>1. /\ \/ pc' = [pc EXCEPT ![c] = "denied"]
           \/ pc' = [pc EXCEPT ![c] = "rotate"]
           \/ pc' = [pc EXCEPT ![c] = "reuse"]
        /\ UNCHANGED <<rowVars, signing, browserVars, token, historyVars>>
    <3>1. CASE token[c] \in deleted
      <4>1. token[c] \notin live  BY <3>1 DEF SessionsInv, ErasureHolds
      <4>2. QED  BY <1>6, <3>1, <4>1 DEF LookUp, Goto
    <3>2. CASE token[c] \in live \ deleted  BY <1>6, <3>2 DEF LookUp, Goto
    <3>3. CASE token[c] \notin live \cup deleted  BY <1>6, <3>3 DEF LookUp, Goto
    <3>4. QED  BY <3>1, <3>2, <3>3
  <2>2. QED  BY <1>t, <2>1 DEF SessionsTypeOK, rowVars, browserVars, historyVars
<1>7. ASSUME NEW c \in Calls, RevokeFamily(c) PROVE SessionsTypeOK'
  <2>1. /\ live' \subseteq live /\ killed' = killed \cup {c[1]}
        /\ straggled' \in {straggled, straggled \cup {c[1]}}
        /\ pc' = [pc EXCEPT ![c] = "denied"]
        /\ UNCHANGED <<owner, deleted, erased, signing, browserVars, token, tangled,
                       errored, revoked, late>>
        BY <1>7 DEF RevokeFamily, Goto
  <2>2. QED  BY <1>t, <1>c, <2>1 DEF SessionsTypeOK, browserVars
<1>8. ASSUME NEW c \in Calls, Rotate(c) PROVE SessionsTypeOK'
  <2>1. /\ owner' = Append(owner, c[1]) /\ Len(owner) < MaxTokens
        /\ live' = (live \ {token[c]}) \cup {Len(owner) + 1}
        /\ token' = [token EXCEPT ![c] = Len(owner) + 1]
        /\ pc' = [pc EXCEPT ![c] = "granted"]
        /\ UNCHANGED <<deleted, erased, signing, browserVars, historyVars>>
        BY <1>8 DEF Rotate, Goto
  <2>2. owner' \in Seq(Devices) /\ Len(owner') = Len(owner) + 1 /\ Len(owner') <= MaxTokens
        BY <1>t, <1>c, <2>1, RowInserted
  <2>3. /\ 1..Len(owner) \subseteq 1..Len(owner')
        /\ \A n \in 0..Len(owner) : n \in 0..Len(owner')
        /\ Len(owner) + 1 \in 0..Len(owner') /\ Len(owner) + 1 \in 1..Len(owner')
        BY <1>n, <2>2
  <2>4. /\ jar' \in [Devices -> 0..Len(owner')]
        /\ token' \in [Calls -> 0..Len(owner')]
        BY <1>t, <2>1, <2>3 DEF SessionsTypeOK, browserVars
  <2>5. /\ live' \subseteq 1..Len(owner') /\ deleted' \subseteq 1..Len(owner')
        BY <1>t, <2>1, <2>3, Zenon DEF SessionsTypeOK
  <2>6. QED
        BY <1>t, <2>1, <2>2, <2>4, <2>5 DEF SessionsTypeOK, browserVars, historyVars
<1>9. ASSUME NEW c \in Calls, RotateFails(c) PROVE SessionsTypeOK'
      BY <1>t, <1>9
      DEF RotateFails, Goto, SessionsTypeOK, rowVars, browserVars, historyVars
<1>10. ASSUME NEW c \in Calls, Granted(c) PROVE SessionsTypeOK'
  <2>1. /\ pc' = [pc EXCEPT ![c] = "idle"] /\ token' = [token EXCEPT ![c] = 0]
        /\ jar' = [jar EXCEPT ![c[1]] = token[c]] /\ fresh' = fresh \cup {c[1]}
        /\ UNCHANGED <<rowVars, signing, out, historyVars>>
        BY <1>10 DEF Granted, Ends, Goto
  <2>2. QED  BY <1>t, <1>n, <1>c, <2>1 DEF SessionsTypeOK, rowVars, historyVars
<1>11. ASSUME NEW c \in Calls, Denied(c) PROVE SessionsTypeOK'
  <2>1. /\ pc' = [pc EXCEPT ![c] = "idle"] /\ token' = [token EXCEPT ![c] = 0]
        /\ out' = out \cup {c[1]} /\ fresh' = fresh \ {c[1]}
        /\ UNCHANGED <<rowVars, signing, jar, historyVars>>
        BY <1>11 DEF Denied, SentToLogin, Ends, Goto
  <2>2. QED  BY <1>t, <1>n, <1>c, <2>1 DEF SessionsTypeOK, rowVars, historyVars
<1>12. ASSUME NEW c \in Calls, ReplyLost(c) PROVE SessionsTypeOK'
  <2>1. /\ pc' = [pc EXCEPT ![c] = "idle"] /\ token' = [token EXCEPT ![c] = 0]
        /\ tangled' \in {tangled, tangled \cup {c[1]}}
        /\ UNCHANGED <<rowVars, signing, browserVars, errored, revoked, killed,
                       straggled, late>>
        BY <1>12 DEF ReplyLost, Ends, Goto
  <2>2. tangled' \subseteq Devices
        BY <1>t, <1>c, <2>1 DEF SessionsTypeOK
  <2>3. /\ pc' \in [Calls -> {"idle", "sent", "rotate", "reuse", "granted", "denied"}]
        /\ token' \in [Calls -> 0..Len(owner)]
        BY <1>t, <1>n, <1>c, <2>1 DEF SessionsTypeOK
  <2>4. QED  BY <1>t, <2>1, <2>2, <2>3 DEF SessionsTypeOK, rowVars, browserVars
<1>13. ASSUME EraseMyData PROVE SessionsTypeOK'
      BY <1>t, <1>13 DEF EraseMyData, SessionsTypeOK, browserVars, callVars
<1>14. ASSUME UNCHANGED sessionVars PROVE SessionsTypeOK'
      BY <1>t, <1>14
      DEF SessionsTypeOK, sessionVars, rowVars, browserVars, callVars, historyVars
<1>15. ASSUME NEW c \in Calls, AnsweredByError(c) PROVE SessionsTypeOK'
  <2>1. /\ pc' = [pc EXCEPT ![c] = "idle"] /\ token' = [token EXCEPT ![c] = 0]
        /\ out' = out \cup {c[1]} /\ fresh' = fresh \ {c[1]}
        /\ errored' = errored \cup {c[1]}
        /\ tangled' \in {tangled, tangled \cup {c[1]}}
        /\ UNCHANGED <<rowVars, signing, jar, revoked, killed, straggled, late>>
        BY <1>15 DEF AnsweredByError, SentToLogin, Ends, Goto
  <2>2. tangled' \subseteq Devices /\ errored' \subseteq Devices /\ out' \subseteq Devices
        BY <1>t, <1>c, <2>1 DEF SessionsTypeOK
  <2>3. /\ pc' \in [Calls -> {"idle", "sent", "rotate", "reuse", "granted", "denied"}]
        /\ token' \in [Calls -> 0..Len(owner)]
        BY <1>t, <1>n, <1>c, <2>1 DEF SessionsTypeOK
  <2>4. QED  BY <1>t, <2>1, <2>2, <2>3 DEF SessionsTypeOK, rowVars
<1>16. QED
      BY <1>1, <1>2, <1>3, <1>4, <1>5, <1>6, <1>7, <1>8, <1>9, <1>10, <1>11, <1>12,
         <1>13, <1>14, <1>15, Zenon DEF SessionsNext

LEMMA SessionsStep == SessionsInv /\ [SessionsNext]_sessionVars => SessionsInv'
<1> SUFFICES ASSUME SessionsInv, [SessionsNext]_sessionVars PROVE SessionsInv'
    OBVIOUS
<1> DEFINE Rest ==
        /\ SentToLoginForAReason
        /\ TokensAreOwn /\ SignInIsFirst /\ ErasureHolds /\ RevocationHolds
        /\ OneAtATime /\ NobodyHarmed
<1>t. SessionsTypeOK /\ Rest  BY DEF SessionsInv
<1>n. Len(owner) \in Nat /\ MaxTokens \in Nat
      BY <1>t, LenProperties, SessionsAssumption DEF SessionsTypeOK
<1>c. \A c \in Calls : c[1] \in Devices  BY CallsHaveDevices
<1>r. /\ live \subseteq 1..Len(owner) /\ deleted \subseteq 1..Len(owner)
      /\ \A d \in Devices : jar[d] # 0 => jar[d] \in 1..Len(owner)
      /\ \A c \in Calls : pc[c] # "idle" => token[c] \in 1..Len(owner)
      BY <1>t, <1>n DEF SessionsTypeOK, TokensAreOwn
<1>1. ASSUME NEW d \in Devices, BeginSignIn(d) PROVE Rest'
  <2>1. /\ signing' = signing \cup {d} /\ ~erased /\ Family(d) = {}
        /\ UNCHANGED <<rowVars, browserVars, callVars, historyVars>>
        BY <1>1 DEF BeginSignIn
  <2> USE DEF rowVars, browserVars, callVars, historyVars
  <2>2. ~HasFamily(d)  BY <2>1 DEF HasFamily, Family
  <2>3. SignInIsFirst'  BY <1>t, <2>1, <2>2 DEF SignInIsFirst, HasFamily
  <2>4. ErasureHolds'  BY <1>t, <2>1 DEF ErasureHolds
  <2>5. SentToLoginForAReason' /\ TokensAreOwn' /\ RevocationHolds'
        BY <1>t, <2>1 DEF SentToLoginForAReason, TokensAreOwn, RevocationHolds
  <2>6. OneAtATime' /\ NobodyHarmed'
        BY <1>t, <2>1 DEF OneAtATime, NobodyHarmed, InTurn, Unharmed
  <2>7. QED  BY <2>3, <2>4, <2>5, <2>6
<1>2. ASSUME NEW d \in Devices, SignIn(d) PROVE Rest'
  <2>1. /\ d \in signing
        /\ owner' = Append(owner, d) /\ Len(owner) < MaxTokens
        /\ live' = live \cup {Len(owner) + 1} /\ jar' = [jar EXCEPT ![d] = Len(owner) + 1]
        /\ signing' = signing \ {d}
        /\ UNCHANGED <<deleted, erased, out, callVars, historyVars>>
        BY <1>2 DEF SignIn
  <2> USE DEF callVars, historyVars
  <2>o. /\ Len(owner') = Len(owner) + 1 /\ owner'[Len(owner) + 1] = d
        /\ \A t \in 1..Len(owner) : owner'[t] = owner[t]
        BY <1>t, <2>1, RowInserted
  <2>j. /\ jar'[d] = Len(owner) + 1
        /\ \A e \in Devices \ {d} : jar'[e] = jar[e]
        BY <1>t, <2>1 DEF SessionsTypeOK
  <2>2. ~HasFamily(d)  BY <1>t, <2>1 DEF SignInIsFirst
  <2>3. /\ \A c \in Calls : c[1] = d => pc[c] = "idle"
        /\ \A t \in 1..Len(owner) : owner[t] # d
        BY <1>t, <1>r, <2>2 DEF HasFamily, TokensAreOwn
  <2>4. TokensAreOwn'  BY <1>t, <1>n, <1>r, <2>1, <2>o, <2>j DEF TokensAreOwn
  <2>5. \A e \in Devices : HasFamily(e)' <=> (HasFamily(e) \/ e = d)
        BY <1>n, <2>o DEF HasFamily
  <2>6. SignInIsFirst'  BY <1>t, <2>1, <2>5 DEF SignInIsFirst, SessionsTypeOK
  <2>7. ErasureHolds'
    <3>0. Len(owner) + 1 \notin deleted  BY <1>n, <1>r
    <3>1. live' \cap deleted' = {} /\ (deleted' # {} => erased')
          BY <1>t, <2>1, <3>0, Zenon DEF ErasureHolds
    <3>2. ASSUME erased, NEW t \in 1..(Len(owner) + 1)
          PROVE  t \in deleted \/ owner'[t] \in late
      <4>1. CASE t = Len(owner) + 1  BY <1>t, <2>1, <2>o, <3>2, <4>1 DEF ErasureHolds
      <4>2. CASE t \in 1..Len(owner)  BY <1>t, <2>o, <3>2, <4>2 DEF ErasureHolds
      <4>3. QED  BY <1>n, <4>1, <4>2
    <3>3. erased => signing' \subseteq late  BY <1>t, <2>1 DEF ErasureHolds
    <3>4. QED  BY <2>1, <2>o, <3>1, <3>2, <3>3 DEF ErasureHolds
  <2>8. d \notin revoked \cup killed  BY <1>t, <2>2 DEF SignInIsFirst
  <2>9. RevocationHolds'
        BY <1>t, <1>n, <1>r, <2>1, <2>o, <2>8 DEF RevocationHolds
  <2>10. OneAtATime'
    <3>1. SUFFICES ASSUME NEW e \in Devices \ tangled PROVE InTurn(e)'
          BY <2>1 DEF OneAtATime
    <3>2. CASE e = d
          BY <1>n, <1>r, <2>1, <2>3, <2>o, <2>j, <3>2 DEF InTurn
    <3>3. CASE e # d
          BY <1>t, <1>n, <1>r, <2>1, <2>o, <2>j, <3>3 DEF OneAtATime, InTurn
    <3>4. QED  BY <3>2, <3>3
  <2>11. NobodyHarmed'
        BY <1>t, <1>n, <1>r, <2>1, <2>3, <2>o, <2>j DEF NobodyHarmed, Unharmed
  <2>12. SentToLoginForAReason'  BY <1>t, <2>1 DEF SentToLoginForAReason
  <2>13. QED  BY <2>4, <2>6, <2>7, <2>9, <2>10, <2>11, <2>12
<1>3. ASSUME NEW d \in Devices, AccessExpires(d) PROVE Rest'
  <2>1. UNCHANGED <<owner, live, deleted, erased, signing, jar, out, pc, token, tangled,
                    errored, revoked, killed, straggled, late>>
        BY <1>3 DEF AccessExpires, rowVars, callVars, historyVars
  <2>2. QED
        BY <1>t, <2>1
        DEF SentToLoginForAReason, TokensAreOwn, SignInIsFirst, HasFamily, ErasureHolds,
            RevocationHolds, OneAtATime, InTurn, NobodyHarmed, Unharmed
<1>4. ASSUME NEW d \in Devices, RevokeDevice(d) PROVE Rest'
  <2>1. /\ Family(d) # {} /\ live' = live \ Family(d) /\ revoked' = revoked \cup {d}
        /\ straggled' = IF Stragglers(d) = {} THEN straggled ELSE straggled \cup {d}
        /\ UNCHANGED <<owner, deleted, erased, signing, jar, out, pc, token, tangled,
                       errored, killed, late>>
        BY <1>4 DEF RevokeDevice, browserVars, callVars
  <2>2. /\ HasFamily(d) /\ \A t \in live' : t \in live /\ owner[t] # d
        /\ \A t \in live : owner[t] # d => t \in live'
        BY <1>r, <2>1 DEF Family, HasFamily
  <2>3. TokensAreOwn' /\ SignInIsFirst'
        BY <1>t, <2>1, <2>2 DEF TokensAreOwn, SignInIsFirst, HasFamily
  <2>4. ErasureHolds' /\ SentToLoginForAReason'
        BY <1>t, <2>1, <2>2 DEF ErasureHolds, SentToLoginForAReason
  <2>5. d \notin straggled' => \A c \in Calls : c[1] = d => pc[c] # "rotate"
        BY <2>1 DEF Stragglers, CallsOf
  <2>6. straggled \subseteq straggled'  BY <2>1
  <2>7. RevocationHolds'  BY <1>t, <2>1, <2>2, <2>5, <2>6 DEF RevocationHolds
  <2>8. OneAtATime'  BY <1>t, <2>1, <2>2 DEF OneAtATime, InTurn
  <2>9. NobodyHarmed'
        BY <1>t, <1>c, <2>1, <2>2 DEF NobodyHarmed, Unharmed, TokensAreOwn
  <2>10. QED  BY <2>3, <2>4, <2>7, <2>8, <2>9
<1>5. ASSUME NEW c \in Calls, SendRefresh(c) PROVE Rest'
  <2>1. /\ pc[c] = "idle" /\ jar[c[1]] # 0
        /\ pc' = [pc EXCEPT ![c] = "sent"] /\ token' = [token EXCEPT ![c] = jar[c[1]]]
        /\ tangled' = IF CallsOf(c[1], Busy) = {} THEN tangled ELSE tangled \cup {c[1]}
        /\ UNCHANGED <<owner, live, deleted, erased, signing, jar, out, errored, revoked,
                       killed, straggled, late>>
        BY <1>5 DEF SendRefresh, Goto, rowVars, browserVars
  <2>2. /\ pc'[c] = "sent" /\ token'[c] = jar[c[1]]
        /\ \A a \in Calls \ {c} : pc'[a] = pc[a] /\ token'[a] = token[a]
        BY <1>t, <2>1, CallStep
  <2>3. TokensAreOwn' /\ SignInIsFirst'
        BY <1>t, <1>c, <2>1, <2>2 DEF TokensAreOwn, SignInIsFirst, HasFamily
  <2>4. ErasureHolds' /\ SentToLoginForAReason' /\ RevocationHolds'
        BY <1>t, <2>1, <2>2 DEF ErasureHolds, SentToLoginForAReason, RevocationHolds
  <2>5. c[1] \notin tangled' =>
            tangled' = tangled /\ \A a \in Calls : a[1] = c[1] => pc[a] = "idle"
        BY <1>t, <2>1 DEF CallsOf, Busy, SessionsTypeOK
  <2>6. tangled \subseteq tangled'  BY <2>1
  <2>7. OneAtATime'
    <3>1. SUFFICES ASSUME NEW e \in Devices \ tangled' PROVE InTurn(e)'
          BY DEF OneAtATime
    <3>2. CASE e = c[1]
          BY <1>t, <2>1, <2>2, <2>5, <3>2 DEF OneAtATime, InTurn
    <3>3. CASE e # c[1]
          BY <1>t, <2>1, <2>2, <2>6, <3>3 DEF OneAtATime, InTurn
    <3>4. QED  BY <3>2, <3>3
  <2>8. NobodyHarmed'  BY <1>t, <2>1, <2>2, <2>6 DEF NobodyHarmed, Unharmed
  <2>9. QED  BY <2>3, <2>4, <2>7, <2>8
<1>6. ASSUME NEW c \in Calls, LookUp(c) PROVE Rest'
  <2>1. /\ pc[c] = "sent"
        /\ UNCHANGED <<owner, live, deleted, erased, signing, jar, out, token, tangled,
                       errored, revoked, killed, straggled, late>>
        BY <1>6 DEF LookUp, rowVars, browserVars, historyVars
  <2>2. PICK p : pc' = [pc EXCEPT ![c] = p]  BY <1>6 DEF LookUp, Goto
  <2>3. /\ p \in {"denied", "rotate", "reuse"}
        /\ p = "denied" => token[c] \in deleted
        /\ p = "rotate" => token[c] \in live
    <3>1. token[c] \in deleted => token[c] \notin live  BY <1>t DEF ErasureHolds
    <3>2. pc'[c] = p  BY <1>t, <2>2, PlaceStep
    <3>3. QED  BY <1>t, <1>6, <3>1, <3>2 DEF LookUp, Goto, SessionsTypeOK
  <2>4. /\ pc'[c] = p /\ \A a \in Calls \ {c} : pc'[a] = pc[a]
        BY <1>t, <2>2, PlaceStep
  <2>5. TokensAreOwn' /\ SignInIsFirst'
        BY <1>t, <2>1, <2>3, <2>4 DEF TokensAreOwn, SignInIsFirst, HasFamily
  <2>6. ErasureHolds' /\ SentToLoginForAReason'
        BY <1>t, <2>1 DEF ErasureHolds, SentToLoginForAReason
  <2>7. owner[token[c]] = c[1]  BY <1>t, <2>1 DEF TokensAreOwn
  <2>8. RevocationHolds'
        BY <1>t, <2>1, <2>3, <2>4, <2>7 DEF RevocationHolds
  <2>9. OneAtATime'  BY <1>t, <2>1, <2>3, <2>4 DEF OneAtATime, InTurn
  <2>10. NobodyHarmed'
    <3>1. SUFFICES ASSUME NEW e \in Devices \ (tangled \cup revoked)
                   PROVE  Unharmed(e)'
          BY <2>1 DEF NobodyHarmed
    <3>2. Unharmed(e) /\ InTurn(e)  BY <1>t, <3>1 DEF NobodyHarmed, OneAtATime
    <3>3. CASE e # c[1]  BY <2>1, <2>3, <2>4, <3>2, <3>3 DEF Unharmed
    <3>4. CASE e = c[1]
      <4>1. token[c] = jar[e] /\ token[c] # 0
            BY <1>t, <2>1, <3>2, <3>4 DEF InTurn, TokensAreOwn
      <4>2. \A a \in Calls : a[1] = e => pc[a] # "granted"
            BY <2>1, <3>2, <3>4 DEF InTurn
      <4>3. token[c] \in live \cup deleted  BY <3>2, <4>1, <4>2 DEF Unharmed
      <4>4. p # "reuse"
            BY <1>t, <1>6, <2>2, <4>3, PlaceStep, <2>4
            DEF LookUp, Goto, ErasureHolds, SessionsTypeOK
      <4>5. p = "denied" => erased  BY <1>t, <2>3 DEF ErasureHolds
      <4>6. QED  BY <2>1, <2>3, <2>4, <3>2, <4>4, <4>5 DEF Unharmed
    <3>5. QED  BY <3>3, <3>4
  <2>11. QED  BY <2>5, <2>6, <2>8, <2>9, <2>10
<1>7. ASSUME NEW c \in Calls, RevokeFamily(c) PROVE Rest'
  <2>1. /\ pc[c] = "reuse" /\ pc' = [pc EXCEPT ![c] = "denied"]
        /\ live' = live \ Family(c[1]) /\ killed' = killed \cup {c[1]}
        /\ straggled' = IF Stragglers(c[1]) = {} THEN straggled
                        ELSE straggled \cup {c[1]}
        /\ UNCHANGED <<owner, deleted, erased, signing, jar, out, token, tangled,
                       errored, revoked, late>>
        BY <1>7 DEF RevokeFamily, Goto, browserVars
  <2>2. pc'[c] = "denied" /\ \A a \in Calls \ {c} : pc'[a] = pc[a]
        BY <1>t, <2>1, PlaceStep
  <2>3. /\ \A t \in live' : t \in live /\ owner[t] # c[1]
        /\ \A t \in live : owner[t] # c[1] => t \in live'
        BY <1>r, <2>1 DEF Family
  <2>4. HasFamily(c[1])  BY <1>t, <1>r, <2>1 DEF HasFamily, TokensAreOwn
  <2>5. TokensAreOwn' /\ SignInIsFirst'
        BY <1>t, <2>1, <2>2, <2>4 DEF TokensAreOwn, SignInIsFirst, HasFamily
  <2>6. ErasureHolds'  BY <1>t, <2>1, <2>3 DEF ErasureHolds
  <2>h. c[1] \in tangled \cup revoked
        BY <1>t, <1>c, <2>1 DEF NobodyHarmed, Unharmed
  <2>s. SentToLoginForAReason'  BY <1>t, <2>1, <2>h DEF SentToLoginForAReason
  <2>7. c[1] \notin straggled' => \A a \in Calls : a[1] = c[1] => pc[a] # "rotate"
        BY <2>1 DEF Stragglers, CallsOf
  <2>8. straggled \subseteq straggled'  BY <2>1
  <2>9. RevocationHolds'
        BY <1>t, <2>1, <2>2, <2>3, <2>7, <2>8 DEF RevocationHolds
  <2>10. OneAtATime'
        BY <1>t, <2>1, <2>2, <2>3 DEF OneAtATime, InTurn
  <2>11. NobodyHarmed'
    <3>1. SUFFICES ASSUME NEW e \in Devices \ (tangled \cup revoked)
                   PROVE  Unharmed(e)'
          BY <2>1 DEF NobodyHarmed
    <3>2. Unharmed(e)  BY <1>t, <3>1 DEF NobodyHarmed
    <3>3. e # c[1]  BY <2>1, <2>h, <3>1
    <3>4. QED
          BY <1>t, <2>1, <2>2, <2>3, <3>2, <3>3 DEF Unharmed, TokensAreOwn
  <2>12. QED  BY <2>5, <2>6, <2>s, <2>9, <2>10, <2>11
<1>8. ASSUME NEW c \in Calls, Rotate(c) PROVE Rest'
  <2>1. /\ pc[c] = "rotate" /\ token[c] \notin deleted
        /\ owner' = Append(owner, c[1]) /\ Len(owner) < MaxTokens
        /\ live' = (live \ {token[c]}) \cup {Len(owner) + 1}
        /\ token' = [token EXCEPT ![c] = Len(owner) + 1]
        /\ pc' = [pc EXCEPT ![c] = "granted"]
        /\ UNCHANGED <<deleted, erased, signing, jar, out, tangled, errored, revoked,
                       killed, straggled, late>>
        BY <1>8 DEF Rotate, Goto, browserVars, historyVars
  <2>2. /\ pc'[c] = "granted" /\ token'[c] = Len(owner) + 1
        /\ \A a \in Calls \ {c} : pc'[a] = pc[a] /\ token'[a] = token[a]
        BY <1>t, <2>1, CallStep
  <2>o. /\ Len(owner') = Len(owner) + 1 /\ owner'[Len(owner) + 1] = c[1]
        /\ \A t \in 1..Len(owner) : owner'[t] = owner[t]
        BY <1>t, <1>c, <2>1, RowInserted
  <2>k. token[c] \in 1..Len(owner) /\ owner[token[c]] = c[1]
        BY <1>t, <1>r, <2>1 DEF TokensAreOwn
  <2>3. TokensAreOwn'  BY <1>t, <1>n, <1>r, <2>1, <2>2, <2>o DEF TokensAreOwn
  <2>4. \A e \in Devices : HasFamily(e)' <=> HasFamily(e)
    <3>1. ASSUME NEW e \in Devices, HasFamily(e) PROVE HasFamily(e)'
          BY <1>n, <2>o, <3>1 DEF HasFamily
    <3>2. ASSUME NEW e \in Devices, HasFamily(e)' PROVE HasFamily(e)
      <4>1. PICK t \in 1..Len(owner)' : owner'[t] = e  BY <3>2 DEF HasFamily
      <4>2. CASE t = Len(owner) + 1  BY <2>o, <2>k, <4>1, <4>2 DEF HasFamily
      <4>3. CASE t \in 1..Len(owner)  BY <2>o, <4>1, <4>3 DEF HasFamily
      <4>4. QED  BY <1>n, <2>o, <4>1, <4>2, <4>3
    <3>3. QED  BY <3>1, <3>2
  <2>5. SignInIsFirst'  BY <1>t, <2>1, <2>4 DEF SignInIsFirst, SessionsTypeOK
  <2>6. ErasureHolds'
    <3>0. Len(owner) + 1 \notin deleted  BY <1>n, <1>r
    <3>1. live' \cap deleted' = {} /\ (deleted' # {} => erased')
          BY <1>t, <2>1, <3>0, Zenon DEF ErasureHolds
    <3>2. ASSUME erased, NEW t \in 1..(Len(owner) + 1)
          PROVE  t \in deleted \/ owner'[t] \in late
      <4>1. CASE t = Len(owner) + 1
            BY <1>t, <2>1, <2>o, <2>k, <3>2, <4>1 DEF ErasureHolds
      <4>2. CASE t \in 1..Len(owner)  BY <1>t, <2>o, <3>2, <4>2 DEF ErasureHolds
      <4>3. QED  BY <1>n, <4>1, <4>2
    <3>4. QED  BY <1>t, <2>1, <2>o, <3>1, <3>2 DEF ErasureHolds
  <2>7. RevocationHolds'
        BY <1>t, <1>n, <1>r, <2>1, <2>2, <2>o DEF RevocationHolds
  <2>8. OneAtATime'
    <3>1. SUFFICES ASSUME NEW e \in Devices \ tangled PROVE InTurn(e)'
          BY <2>1 DEF OneAtATime
    <3>2. InTurn(e)  BY <1>t, <3>1 DEF OneAtATime
    <3>3. CASE e = c[1]
      <4>1. \A a \in Calls \ {c} : a[1] = e => pc[a] = "idle"
            BY <2>1, <3>2, <3>3 DEF InTurn
      <4>2. token[c] = jar[e]  BY <2>1, <3>2, <3>3 DEF InTurn
      <4>3. \A t \in live : owner[t] = e => t = jar[e]
            BY <2>1, <3>2, <3>3, <4>1 DEF InTurn
      <4>4. \A t \in live' : owner'[t] = e => t = Len(owner) + 1
            BY <1>r, <2>1, <2>o, <4>2, <4>3
      <4>5. QED  BY <2>2, <3>3, <4>1, <4>4 DEF InTurn
    <3>4. CASE e # c[1]
      <4>1. \A t \in live' : owner'[t] = e => t \in live /\ owner[t] = e
            BY <1>r, <2>1, <2>o, <3>4
      <4>2. \A a \in Calls : a[1] = e => pc'[a] = pc[a] /\ token'[a] = token[a]
            BY <2>2, <3>4
      <4>3. ASSUME NEW t \in live', owner'[t] = e
            PROVE  \/ t = jar[e] /\ \A a \in Calls : a[1] = e => pc'[a] # "granted"
                   \/ \E a \in Calls : a[1] = e /\ pc'[a] = "granted" /\ t = token'[a]
        <5>1. t \in live /\ owner[t] = e  BY <4>1, <4>3
        <5>2. CASE t = jar[e] /\ \A a \in Calls : a[1] = e => pc[a] # "granted"
              BY <4>2, <5>2
        <5>3. CASE \E a \in Calls : a[1] = e /\ pc[a] = "granted" /\ t = token[a]
              BY <4>2, <5>3
        <5>4. QED  BY <3>2, <5>1, <5>2, <5>3 DEF InTurn
      <4>4. /\ \A a, b \in Calls :
                  a[1] = e /\ b[1] = e /\ pc'[a] # "idle" /\ pc'[b] # "idle" => a = b
            /\ \A a \in Calls :
                  a[1] = e /\ pc'[a] \in {"sent", "rotate", "reuse"} => token'[a] = jar[e]
            BY <3>2, <4>2 DEF InTurn
      <4>5. QED  BY <2>1, <4>3, <4>4 DEF InTurn
    <3>5. QED  BY <3>3, <3>4
  <2>9. NobodyHarmed'
    <3>1. SUFFICES ASSUME NEW e \in Devices \ (tangled \cup revoked)
                   PROVE  Unharmed(e)'
          BY <2>1 DEF NobodyHarmed
    <3>2. Unharmed(e) /\ InTurn(e)  BY <1>t, <3>1 DEF NobodyHarmed, OneAtATime
    <3>3. CASE e = c[1]
      <4>1. \A a \in Calls \ {c} : a[1] = e => pc[a] = "idle"
            BY <2>1, <3>2, <3>3 DEF InTurn
      <4>2. QED  BY <2>1, <2>2, <3>2, <3>3, <4>1 DEF Unharmed
    <3>4. CASE e # c[1]
      <4>1. \A t \in live : owner[t] = e => t \in live'  BY <2>1, <2>k, <3>4
      <4>2. QED
            BY <1>t, <2>1, <2>2, <3>2, <3>4, <4>1 DEF Unharmed, TokensAreOwn
    <3>5. QED  BY <3>3, <3>4
  <2>10. SentToLoginForAReason'  BY <1>t, <2>1 DEF SentToLoginForAReason
  <2>11. QED  BY <2>3, <2>5, <2>6, <2>7, <2>8, <2>9, <2>10
<1>9. ASSUME NEW c \in Calls, RotateFails(c) PROVE Rest'
  <2>1. /\ pc[c] = "rotate" /\ token[c] \in deleted /\ pc' = [pc EXCEPT ![c] = "denied"]
        /\ UNCHANGED <<owner, live, deleted, erased, signing, jar, out, token, tangled,
                       errored, revoked, killed, straggled, late>>
        BY <1>9 DEF RotateFails, Goto, rowVars, browserVars, historyVars
  <2>2. pc'[c] = "denied" /\ \A a \in Calls \ {c} : pc'[a] = pc[a]
        BY <1>t, <2>1, PlaceStep
  <2>3. TokensAreOwn' /\ SignInIsFirst'
        BY <1>t, <2>1, <2>2 DEF TokensAreOwn, SignInIsFirst, HasFamily
  <2>4. ErasureHolds' /\ SentToLoginForAReason' /\ RevocationHolds'
        BY <1>t, <2>1, <2>2 DEF ErasureHolds, SentToLoginForAReason, RevocationHolds
  <2>5. OneAtATime'  BY <1>t, <2>1, <2>2 DEF OneAtATime, InTurn
  <2>6. NobodyHarmed'
    <3>1. erased  BY <1>t, <2>1 DEF ErasureHolds
    <3>2. SUFFICES ASSUME NEW e \in Devices \ (tangled \cup revoked)
                   PROVE  Unharmed(e)'
          BY <2>1 DEF NobodyHarmed
    <3>3. Unharmed(e)  BY <1>t, <3>2 DEF NobodyHarmed
    <3>4. QED  BY <2>1, <2>2, <3>1, <3>3 DEF Unharmed
  <2>7. QED  BY <2>3, <2>4, <2>5, <2>6
<1>10. ASSUME NEW c \in Calls, Granted(c) PROVE Rest'
  <2>1. /\ pc[c] = "granted"
        /\ pc' = [pc EXCEPT ![c] = "idle"] /\ token' = [token EXCEPT ![c] = 0]
        /\ jar' = [jar EXCEPT ![c[1]] = token[c]]
        /\ UNCHANGED <<owner, live, deleted, erased, signing, out, tangled,
                       errored, revoked, killed, straggled, late>>
        BY <1>10 DEF Granted, Ends, Goto, rowVars, historyVars
  <2>2. /\ pc'[c] = "idle" /\ \A a \in Calls \ {c} : pc'[a] = pc[a] /\ token'[a] = token[a]
        BY <1>t, <2>1, CallStep
  <2>j. jar'[c[1]] = token[c] /\ \A e \in Devices \ {c[1]} : jar'[e] = jar[e]
        BY <1>t, <1>c, <2>1 DEF SessionsTypeOK
  <2>k. token[c] # 0 /\ owner[token[c]] = c[1]  BY <1>t, <2>1 DEF TokensAreOwn
  <2>3. TokensAreOwn'  BY <1>t, <2>1, <2>2, <2>j, <2>k DEF TokensAreOwn
  <2>4. SignInIsFirst' /\ ErasureHolds' /\ SentToLoginForAReason'
        BY <1>t, <2>1 DEF SignInIsFirst, HasFamily, ErasureHolds, SentToLoginForAReason
  <2>5. RevocationHolds'  BY <1>t, <2>1, <2>2 DEF RevocationHolds
  <2>6. OneAtATime'
    <3>1. SUFFICES ASSUME NEW e \in Devices \ tangled PROVE InTurn(e)'
          BY <2>1 DEF OneAtATime
    <3>2. InTurn(e)  BY <1>t, <3>1 DEF OneAtATime
    <3>3. CASE e = c[1]
      <4>1. \A a \in Calls \ {c} : a[1] = e => pc[a] = "idle"
            BY <2>1, <3>2, <3>3 DEF InTurn
      <4>2. \A t \in live : owner[t] = e => t = token[c]
            BY <2>1, <3>2, <3>3, <4>1 DEF InTurn
      <4>3. QED  BY <2>1, <2>2, <2>j, <3>3, <4>1, <4>2 DEF InTurn
    <3>4. CASE e # c[1]  BY <2>1, <2>2, <2>j, <3>2, <3>4 DEF InTurn
    <3>5. QED  BY <3>3, <3>4
  <2>7. NobodyHarmed'
    <3>1. SUFFICES ASSUME NEW e \in Devices \ (tangled \cup revoked)
                   PROVE  Unharmed(e)'
          BY <2>1 DEF NobodyHarmed
    <3>2. Unharmed(e)  BY <1>t, <3>1 DEF NobodyHarmed
    <3>3. CASE e = c[1]  BY <2>1, <2>2, <2>j, <3>2, <3>3 DEF Unharmed
    <3>4. CASE e # c[1]  BY <2>1, <2>2, <2>j, <3>2, <3>4 DEF Unharmed
    <3>5. QED  BY <3>3, <3>4
  <2>8. QED  BY <2>3, <2>4, <2>5, <2>6, <2>7
<1>11. ASSUME NEW c \in Calls, Denied(c) PROVE Rest'
  <2>1. /\ pc[c] = "denied" /\ out' = out \cup {c[1]}
        /\ pc' = [pc EXCEPT ![c] = "idle"] /\ token' = [token EXCEPT ![c] = 0]
        /\ UNCHANGED <<owner, live, deleted, erased, signing, jar, tangled,
                       errored, revoked, killed, straggled, late>>
        BY <1>11 DEF Denied, SentToLogin, Ends, Goto, rowVars, historyVars
  <2>2. /\ pc'[c] = "idle" /\ \A a \in Calls \ {c} : pc'[a] = pc[a] /\ token'[a] = token[a]
        BY <1>t, <2>1, CallStep
  <2>3. TokensAreOwn' /\ SignInIsFirst' /\ ErasureHolds'
        BY <1>t, <2>1, <2>2 DEF TokensAreOwn, SignInIsFirst, HasFamily, ErasureHolds
  <2>4. RevocationHolds'  BY <1>t, <2>1, <2>2 DEF RevocationHolds
  <2>5. OneAtATime'  BY <1>t, <2>1, <2>2 DEF OneAtATime, InTurn
  <2>6. NobodyHarmed'  BY <1>t, <2>1, <2>2 DEF NobodyHarmed, Unharmed
  <2>7. erased \/ c[1] \in tangled \cup revoked
        BY <1>t, <1>c, <2>1 DEF NobodyHarmed, Unharmed
  <2>8. SentToLoginForAReason'
        BY <1>t, <1>c, <2>1, <2>7 DEF SentToLoginForAReason, SessionsTypeOK
  <2>9. QED  BY <2>3, <2>4, <2>5, <2>6, <2>8
<1>12. ASSUME NEW c \in Calls, ReplyLost(c) PROVE Rest'
  <2>1. /\ pc' = [pc EXCEPT ![c] = "idle"] /\ token' = [token EXCEPT ![c] = 0]
        /\ tangled' = IF pc[c] = "granted" THEN tangled \cup {c[1]} ELSE tangled
        /\ UNCHANGED <<owner, live, deleted, erased, signing, jar, out,
                       errored, revoked, killed, straggled, late>>
        BY <1>12 DEF ReplyLost, Ends, Goto, rowVars, browserVars
  <2>2. /\ pc'[c] = "idle" /\ \A a \in Calls \ {c} : pc'[a] = pc[a] /\ token'[a] = token[a]
        BY <1>t, <2>1, CallStep
  <2>3. TokensAreOwn' /\ SignInIsFirst' /\ ErasureHolds'
        BY <1>t, <2>1, <2>2 DEF TokensAreOwn, SignInIsFirst, HasFamily, ErasureHolds
  <2>4. RevocationHolds' /\ SentToLoginForAReason'
        BY <1>t, <2>1, <2>2 DEF RevocationHolds, SentToLoginForAReason
  <2>5. OneAtATime'
    <3>1. SUFFICES ASSUME NEW e \in Devices \ tangled' PROVE InTurn(e)'
          BY DEF OneAtATime
    <3>2. InTurn(e) /\ (e = c[1] => pc[c] # "granted")
          BY <1>t, <2>1, <3>1 DEF OneAtATime
    <3>3. QED  BY <2>1, <2>2, <3>2 DEF InTurn
  <2>6. NobodyHarmed'
    <3>1. SUFFICES ASSUME NEW e \in Devices \ (tangled' \cup revoked)
                   PROVE  Unharmed(e)'
          BY <2>1 DEF NobodyHarmed
    <3>2. Unharmed(e) /\ (e = c[1] => pc[c] # "granted")
          BY <1>t, <2>1, <3>1 DEF NobodyHarmed
    <3>3. QED  BY <2>1, <2>2, <3>2 DEF Unharmed
  <2>7. QED  BY <2>3, <2>4, <2>5, <2>6
<1>13. ASSUME EraseMyData PROVE Rest'
  <2>1. /\ deleted' = 1..Len(owner) /\ live' = {} /\ erased' = TRUE /\ late' = signing
        /\ UNCHANGED <<owner, signing, jar, out, pc, token, tangled, errored, revoked,
                       killed, straggled>>
        BY <1>13 DEF EraseMyData, browserVars, callVars
  <2>2. TokensAreOwn' /\ SignInIsFirst' /\ ErasureHolds'
        BY <1>t, <2>1 DEF TokensAreOwn, SignInIsFirst, HasFamily, ErasureHolds
  <2>3. RevocationHolds' /\ OneAtATime'
        BY <1>t, <2>1 DEF RevocationHolds, OneAtATime, InTurn
  <2>n. NobodyHarmed'
    <3>1. SUFFICES ASSUME NEW e \in Devices \ (tangled \cup revoked)
                   PROVE  Unharmed(e)'
          BY <2>1 DEF NobodyHarmed
    <3>2. Unharmed(e)  BY <1>t, <3>1 DEF NobodyHarmed
    <3>3. QED  BY <1>r, <2>1, <3>2 DEF Unharmed
  <2>4. SentToLoginForAReason'  BY <1>t, <2>1 DEF SentToLoginForAReason, SessionsTypeOK
  <2>5. QED  BY <2>2, <2>3, <2>n, <2>4
<1>14. ASSUME UNCHANGED sessionVars PROVE Rest'
      BY <1>t, <1>14
      DEF sessionVars, rowVars, browserVars, callVars, historyVars,
          SentToLoginForAReason, TokensAreOwn, SignInIsFirst, HasFamily, ErasureHolds,
          RevocationHolds, OneAtATime, InTurn, NobodyHarmed, Unharmed
<1>15. ASSUME NEW c \in Calls, AnsweredByError(c) PROVE Rest'
  <2>1. /\ pc[c] # "idle" /\ out' = out \cup {c[1]} /\ errored' = errored \cup {c[1]}
        /\ pc' = [pc EXCEPT ![c] = "idle"] /\ token' = [token EXCEPT ![c] = 0]
        /\ tangled' = IF pc[c] = "granted" THEN tangled \cup {c[1]} ELSE tangled
        /\ UNCHANGED <<owner, live, deleted, erased, signing, jar, revoked, killed,
                       straggled, late>>
        BY <1>15 DEF AnsweredByError, SentToLogin, Ends, Goto, rowVars
  <2>2. /\ pc'[c] = "idle" /\ \A a \in Calls \ {c} : pc'[a] = pc[a] /\ token'[a] = token[a]
        BY <1>t, <2>1, CallStep
  <2>3. TokensAreOwn' /\ SignInIsFirst' /\ ErasureHolds'
        BY <1>t, <2>1, <2>2 DEF TokensAreOwn, SignInIsFirst, HasFamily, ErasureHolds
  <2>4. RevocationHolds'  BY <1>t, <2>1, <2>2 DEF RevocationHolds
  <2>5. OneAtATime'
    <3>1. SUFFICES ASSUME NEW e \in Devices \ tangled' PROVE InTurn(e)'
          BY DEF OneAtATime
    <3>2. InTurn(e) /\ (e = c[1] => pc[c] # "granted")
          BY <1>t, <2>1, <3>1 DEF OneAtATime
    <3>3. QED  BY <2>1, <2>2, <3>2 DEF InTurn
  <2>6. NobodyHarmed'
    <3>1. SUFFICES ASSUME NEW e \in Devices \ (tangled' \cup revoked)
                   PROVE  Unharmed(e)'
          BY <2>1 DEF NobodyHarmed
    <3>2. Unharmed(e) /\ (e = c[1] => pc[c] # "granted")
          BY <1>t, <2>1, <3>1 DEF NobodyHarmed
    <3>3. QED  BY <2>1, <2>2, <3>2 DEF Unharmed
  <2>7. SentToLoginForAReason'  BY <1>t, <2>1 DEF SentToLoginForAReason
  <2>8. QED  BY <2>3, <2>4, <2>5, <2>6, <2>7
<1> HIDE DEF Rest
<1>16. Rest'
      BY <1>1, <1>2, <1>3, <1>4, <1>5, <1>6, <1>7, <1>8, <1>9, <1>10, <1>11, <1>12,
         <1>13, <1>14, <1>15, Zenon DEF SessionsNext
<1> USE DEF Rest
<1>17. QED  BY <1>16, SessionsStepTyped DEF SessionsInv

-------------------------------------------------------------------------------
(***************************************************************************)
(* Theorems                                                                *)
(***************************************************************************)

\* routers/auth.py from the sign-in on: the invariant of the session rows, the
\* browsers and the refreshes between them.
THEOREM SessionsInvariant == SessionsSpec => []SessionsInv
BY SessionsInitially, SessionsStep, PTL DEF SessionsSpec

\* The types of the rows, the browsers and the refreshes.
THEOREM SessionsTypeCorrect == SessionsSpec => []SessionsTypeOK
<1>1. SessionsInv => SessionsTypeOK  BY DEF SessionsInv
<1>2. QED  BY <1>1, SessionsInvariant, PTL

\* refresh_token and revoke_device: one live token in a family whose refreshes
\* come one at a time, and none after a revocation no refresh was racing.
THEOREM TokensStayLive == SessionsSpec => []LiveTokens
<1>1. SessionsInv => LiveTokens
  <2>1. SUFFICES ASSUME SessionsInv PROVE LiveTokens
        OBVIOUS
  <2>2. ASSUME NEW d \in Devices \ tangled, NEW s \in live \cap Family(d),
               NEW t \in live \cap Family(d)
        PROVE  s = t
    <3>1. InTurn(d) /\ owner[s] = d /\ owner[t] = d
          BY <2>1 DEF SessionsInv, OneAtATime, Family
    <3>2. QED  BY <3>1 DEF InTurn
  <2>3. ASSUME NEW d \in (revoked \cup killed) \ straggled
        PROVE  live \cap Family(d) = {}
        BY <2>1 DEF SessionsInv, RevocationHolds, Family
  <2>4. QED  BY <2>2, <2>3 DEF LiveTokens
<1>2. QED  BY <1>1, SessionsInvariant, PTL

\* erase_my_data: no refresh that was under way brings a session back.
THEOREM ErasureIsFinal == SessionsSpec => []ErasedStaysErased
<1>1. SessionsInv => ErasedStaysErased
      BY DEF SessionsInv, SessionsTypeOK, ErasureHolds, ErasedStaysErased
<1>2. QED  BY <1>1, SessionsInvariant, PTL

\* auth.py:152-158 and api.ts:19-31: no alarm of reuse goes off for a browser that
\* refreshes in turn and gets its new cookies, unless its user has revoked it; it
\* is sent to the login page only after that, after the erasure, or because one of
\* its refreshes was answered by an error (its session may be live then).
THEOREM NobodyLoggedOut == SessionsSpec => []SentToLoginForAReason
<1>1. SessionsInv => SentToLoginForAReason  BY DEF SessionsInv
<1>2. QED  BY <1>1, SessionsInvariant, PTL

-------------------------------------------------------------------------------
(***************************************************************************)
(* Signing in with a one-time code: module SignIn.                         *)
(***************************************************************************)

\* A request that is over: the row it held and the number it read are gone.
LEMMA RepliedKeepsTypes ==
    ASSUME SignInTypeOK, NEW c \in Requests, Replied(c), Len(attempts') = Len(attempts)
    PROVE  /\ place' \in [Requests -> Places]
           /\ row' \in [Requests -> 0..Len(attempts')]
           /\ read' \in [Requests -> Nat]
           /\ known' \subseteq Requests
           /\ \A d \in Requests : place'[d] \in {"wrong", "right", "open"} => row'[d] # 0
<1>1. Len(attempts) \in Nat
  BY DEF SignInTypeOK
<1>. QED BY <1>1 DEF SignInTypeOK, Replied, MovesTo, Places

\* Writing one number of a row's column leaves the others where they are.
LEMMA ColumnWrite ==
    ASSUME NEW s \in Seq(Nat), NEW k \in 1..Len(s), NEW n \in Nat
    PROVE  /\ [s EXCEPT ![k] = n] \in Seq(Nat)
           /\ Len([s EXCEPT ![k] = n]) = Len(s)
           /\ [s EXCEPT ![k] = n][k] = n
           /\ \A j \in 1..Len(s) : j # k => [s EXCEPT ![k] = n][j] = s[j]
OBVIOUS

\* The types are kept by every step.
LEMMA SignInTypeStep ==
    ASSUME SignInTypeOK, [SignInNext]_signInVars PROVE SignInTypeOK'
<1>. USE SignInAssumption
<1>0. /\ Len(attempts) \in Nat /\ attempts \in Seq(Nat)
      /\ opened \in Seq(Nat) /\ wrongs \in Seq(Nat)
      /\ Len(opened) = Len(attempts) /\ Len(wrongs) = Len(attempts)
      /\ Codes = 1..Len(attempts)
      /\ \A k \in Codes : attempts[k] \in Nat /\ opened[k] \in Nat /\ wrongs[k] \in Nat
  BY DEF SignInTypeOK, Codes
<1>n. NoCount \in [n : Nat, ttl : BOOLEAN]
  BY DEF NoCount
<1>f. /\ fail \in [n : Nat, ttl : BOOLEAN] /\ fail.n \in Nat /\ fail.ttl \in BOOLEAN
      /\ tier \in Nat /\ counted \in Nat /\ lock \in BOOLEAN
      /\ raced \in BOOLEAN /\ broken \in BOOLEAN
  BY DEF SignInTypeOK
<1>1. ASSUME RequestCode PROVE SignInTypeOK'
  <2>1. /\ attempts' \in Seq(Nat) /\ Len(attempts') = Len(attempts) + 1
        /\ opened' \in Seq(Nat) /\ Len(opened') = Len(attempts')
        /\ wrongs' \in Seq(Nat) /\ Len(wrongs') = Len(attempts')
    BY <1>0, <1>1 DEF RequestCode
  <2>2. Len(attempts') <= MaxCodes /\ Codes \subseteq Codes'
    BY <1>0, <1>1, <2>1 DEF RequestCode, Codes
  <2>3. UNCHANGED <<consumed, expired, account, redisVars, requestVars, counted, crowded,
                    raced, broken>>
    BY <1>1 DEF RequestCode
  <2>4. expired' \in 0..Len(attempts')
    BY <1>0, <2>1, <2>3 DEF SignInTypeOK
  <2>5. row' \in [Requests -> 0..Len(attempts')]
    BY <1>0, <2>1, <2>3 DEF SignInTypeOK, requestVars
  <2>. QED
    BY <2>1, <2>2, <2>3, <2>4, <2>5 DEF SignInTypeOK, redisVars, requestVars
<1>2. ASSUME NEW c \in Requests, Guard(c) \/ GuardRaises(c) \/ Captcha(c) PROVE SignInTypeOK'
  <2>1. \E p \in {"captcha", "code", "idle"} : place' = [place EXCEPT ![c] = p]
    BY <1>2 DEF Guard, GuardRaises, Captcha, MovesTo
  <2>2. UNCHANGED <<codeVars, redisVars, row, read, known, signInHistory>>
    BY <1>2 DEF Guard, GuardRaises, Captcha
  <2>. QED
    BY <2>1, <2>2 DEF SignInTypeOK, Places, Codes, codeVars, redisVars, signInHistory
<1>3. ASSUME NEW c \in Requests, NoCode(c) \/ DuplicateUser(c) \/ DelFail(c) \/ BreaksOff(c)
      PROVE  SignInTypeOK'
  <2>1. Replied(c) /\ UNCHANGED <<codeVars, opened, wrongs, crowded, lock, tier>>
    BY <1>3 DEF NoCode, DuplicateUser, DelFail, BreaksOff, redisVars, signInHistory
  <2>2. fail' \in {fail, NoCount} /\ counted' \in {counted, 0} /\ raced' = raced
    BY <1>3 DEF NoCode, DuplicateUser, DelFail, BreaksOff, redisVars, signInHistory
  <2>3. fail' \in [n : Nat, ttl : BOOLEAN] /\ counted' \in Nat
    BY <1>n, <1>f, <2>2
  <2>5. broken' \in BOOLEAN
    <3>1. CASE BreaksOff(c)
      <4>1. broken' = (place[c] \in Recording)
        BY <3>1 DEF BreaksOff
      <4>. QED BY <4>1
    <3>2. CASE ~BreaksOff(c)
      <4>1. broken' = broken
        BY <1>3, <3>2 DEF NoCode, DuplicateUser, DelFail, signInHistory
      <4>. QED BY <1>f, <4>1
    <3>. QED BY <3>1, <3>2
  <2>4. UNCHANGED attempts
    BY <2>1 DEF codeVars
  <2>. QED
    BY <1>f, <2>1, <2>2, <2>3, <2>4, <2>5, RepliedKeepsTypes
       DEF SignInTypeOK, Codes, codeVars
<1>4. ASSUME NEW c \in Requests, ReadCode(c) PROVE SignInTypeOK'
  <2>1. PICK k \in Codes, verdict \in {"right", "wrong"} :
          /\ row' = [row EXCEPT ![c] = k]
          /\ read' = [read EXCEPT ![c] = attempts[k]]
          /\ place' = [place EXCEPT ![c] = verdict]
          /\ crowded' \in {crowded, crowded \cup {k}}
          /\ opened' \in {opened, [opened EXCEPT ![k] = 0]}
          /\ wrongs' \in {wrongs, [wrongs EXCEPT ![k] = 0]}
          /\ UNCHANGED <<codeVars, redisVars, known, counted, raced, broken>>
    BY <1>4 DEF ReadCode, MovesTo
  <2>2. attempts[k] \in Nat /\ k \in 1..Len(attempts)
    BY <1>0 DEF Codes
  <2>3. /\ opened' \in Seq(Nat) /\ Len(opened') = Len(attempts)
        /\ wrongs' \in Seq(Nat) /\ Len(wrongs') = Len(attempts)
    <3>1. k \in 1..Len(opened) /\ k \in 1..Len(wrongs) /\ 0 \in Nat
      BY <1>0
    <3>2. /\ [opened EXCEPT ![k] = 0] \in Seq(Nat)
          /\ Len([opened EXCEPT ![k] = 0]) = Len(attempts)
          /\ [wrongs EXCEPT ![k] = 0] \in Seq(Nat)
          /\ Len([wrongs EXCEPT ![k] = 0]) = Len(attempts)
      BY <1>0, <3>1, ColumnWrite
    <3>. QED BY <1>0, <2>1, <3>2
  <2>4. /\ row' \in [Requests -> 0..Len(attempts)] /\ read' \in [Requests -> Nat]
        /\ place' \in [Requests -> Places]
        /\ \A d \in Requests : place'[d] \in {"wrong", "right", "open"} => row'[d] # 0
    <3>1. k # 0 /\ k \in 0..Len(attempts)
      BY <1>0, <2>2
    <3>. QED BY <2>1, <2>2, <3>1 DEF SignInTypeOK, Places
  <2>. QED
    BY <2>1, <2>3, <2>4 DEF SignInTypeOK, Codes, codeVars, redisVars
<1>5. ASSUME NEW c \in Requests, SpendAttempt(c) PROVE SignInTypeOK'
  <2>1. /\ attempts' = [attempts EXCEPT ![row[c]] = read[c] + 1]
        /\ wrongs' \in {wrongs, [wrongs EXCEPT ![row[c]] = wrongs[row[c]] + 1]}
        /\ row' = [row EXCEPT ![c] = 0]
        /\ read' = [read EXCEPT ![c] = 0]
        /\ place' = [place EXCEPT ![c] = "incr"]
        /\ UNCHANGED <<consumed, expired, account, redisVars, known, opened, counted,
                       crowded, raced, broken>>
    BY <1>5 DEF SpendAttempt, MovesTo
  <2>2. row[c] \in Codes /\ read[c] + 1 \in Nat /\ wrongs[row[c]] + 1 \in Nat
    <3>1. row[c] # 0 /\ row[c] \in 0..Len(attempts) /\ read[c] \in Nat
      BY <1>5 DEF SpendAttempt, SignInTypeOK
    <3>2. row[c] \in Codes
      BY <1>0, <3>1
    <3>3. wrongs[row[c]] \in Nat
      BY <1>0, <3>2
    <3>. QED BY <3>1, <3>2, <3>3
  <2>3. /\ attempts' \in Seq(Nat) /\ Len(attempts') = Len(attempts)
        /\ wrongs' \in Seq(Nat) /\ Len(wrongs') = Len(attempts)
    <3>1. row[c] \in 1..Len(attempts) /\ row[c] \in 1..Len(wrongs)
      BY <1>0, <2>2
    <3>2. /\ [attempts EXCEPT ![row[c]] = read[c] + 1] \in Seq(Nat)
          /\ Len([attempts EXCEPT ![row[c]] = read[c] + 1]) = Len(attempts)
      BY <1>0, <2>2, <3>1, ColumnWrite
    <3>3. /\ [wrongs EXCEPT ![row[c]] = wrongs[row[c]] + 1] \in Seq(Nat)
          /\ Len([wrongs EXCEPT ![row[c]] = wrongs[row[c]] + 1]) = Len(attempts)
      BY <1>0, <2>2, <3>1, ColumnWrite
    <3>. QED BY <1>0, <2>1, <3>2, <3>3
  <2>4. /\ row' \in [Requests -> 0..Len(attempts)] /\ read' \in [Requests -> Nat]
        /\ place' \in [Requests -> Places]
        /\ \A d \in Requests : place'[d] \in {"wrong", "right", "open"} => row'[d] # 0
    BY <1>0, <2>1 DEF SignInTypeOK, Places
  <2>. QED
    BY <1>0, <2>1, <2>3, <2>4 DEF SignInTypeOK, Codes, redisVars
<1>6. ASSUME NEW c \in Requests,
             \/ IncrFail(c) \/ ExpireFail(c) \/ GetTier(c) \/ SetTier(c) \/ SetLock(c)
      PROVE  SignInTypeOK'
  <2>1. /\ UNCHANGED <<codeVars, row, known, opened, wrongs, crowded, broken>>
        /\ lock' \in {lock, TRUE}
    BY <1>6 DEF IncrFail, ExpireFail, GetTier, SetTier, SetLock, redisVars, signInHistory
  <2>2. \E p \in {"expire", "tier", "idle", "settier", "setlock", "delfail"} :
           place' = [place EXCEPT ![c] = p]
    BY <1>6 DEF IncrFail, ExpireFail, GetTier, SetTier, SetLock, MovesTo, Judge
  <2>3. \E n \in {fail.n + 1, tier + 1, 0, read[c]} : read' = [read EXCEPT ![c] = n]
    BY <1>6 DEF IncrFail, ExpireFail, GetTier, SetTier, SetLock, SignInTypeOK
  <2>4. fail' \in [n : Nat, ttl : BOOLEAN] /\ tier' \in Nat
    <3>1. tier' \in {tier, read[c]} /\ read[c] \in Nat
      BY <1>6 DEF IncrFail, ExpireFail, GetTier, SetTier, SetLock, redisVars, SignInTypeOK
    <3>2. fail' \in {fail, Incremented(fail), Expiring(fail)}
      BY <1>6 DEF IncrFail, ExpireFail, GetTier, SetTier, SetLock, redisVars
    <3>3. /\ Incremented(fail) \in [n : Nat, ttl : BOOLEAN]
          /\ Expiring(fail) \in [n : Nat, ttl : BOOLEAN]
      <4>1. fail.n + 1 \in Nat /\ (fail.n > 0) \in BOOLEAN
        BY <1>f
      <4>2. /\ Incremented(fail) = [fail EXCEPT !.n = fail.n + 1]
            /\ Expiring(fail) = [fail EXCEPT !.ttl = (fail.n > 0)]
        BY DEF Incremented, Expiring
      <4>. QED BY <1>f, <4>1, <4>2
    <3>. QED BY <1>f, <3>1, <3>2, <3>3
  <2>5. counted' \in Nat /\ raced' \in BOOLEAN
    <3>1. CASE IncrFail(c)
      BY <1>f, <3>1 DEF IncrFail
    <3>2. CASE ~IncrFail(c)
      BY <1>6, <1>f, <3>2 DEF ExpireFail, GetTier, SetTier, SetLock, signInHistory
    <3>. QED BY <3>1, <3>2
  <2>6. fail.n + 1 \in Nat /\ tier + 1 \in Nat /\ read[c] \in Nat
    BY DEF SignInTypeOK
  <2>7. /\ read' \in [Requests -> Nat] /\ place' \in [Requests -> Places]
        /\ \A d \in Requests : place'[d] \in {"wrong", "right", "open"} => row'[d] # 0
    BY <2>1, <2>2, <2>3, <2>6 DEF SignInTypeOK, Places
  <2>. QED
    BY <1>f, <2>1, <2>4, <2>5, <2>7 DEF SignInTypeOK, Codes, codeVars
<1>7. ASSUME NEW c \in Requests, Reset(c) \/ ResetRaises(c) PROVE SignInTypeOK'
  <2>1. /\ UNCHANGED <<codeVars, row, read, opened, wrongs, crowded, broken>>
        /\ place' = [place EXCEPT ![c] = "open"] /\ place[c] = "right"
        /\ known' \in {known, known \cup {c}}
    BY <1>7 DEF Reset, ResetRaises, FindUser, MovesTo, signInHistory
  <2>2. /\ fail' \in {fail, NoCount} /\ lock' \in BOOLEAN /\ tier' \in Nat
        /\ counted' \in Nat /\ raced' \in BOOLEAN
    <3>1. CASE Reset(c)
      BY <3>1 DEF Reset
    <3>2. CASE ResetRaises(c)
      <4>1. UNCHANGED <<fail, lock, tier, counted, raced>>
        BY <3>2 DEF ResetRaises, redisVars, signInHistory
      <4>. QED BY <1>f, <4>1
    <3>. QED BY <1>7, <3>1, <3>2
  <2>3. fail' \in [n : Nat, ttl : BOOLEAN]
    BY <1>n, <1>f, <2>2
  <2>. QED
    BY <1>f, <2>1, <2>2, <2>3 DEF SignInTypeOK, Codes, codeVars, Places
<1>8. ASSUME NEW c \in Requests, OpenSession(c) PROVE SignInTypeOK'
  <2>1. /\ Replied(c) /\ row[c] \in Codes
        /\ UNCHANGED <<attempts, expired, redisVars, wrongs, counted, crowded, raced, broken>>
        /\ consumed' = consumed \cup {row[c]} /\ account' = TRUE
        /\ opened' \in {opened, [opened EXCEPT ![row[c]] = opened[row[c]] + 1]}
    BY <1>0, <1>8 DEF OpenSession, SignInTypeOK, Codes
  <2>2. opened' \in Seq(Nat) /\ Len(opened') = Len(attempts)
    <3>1. /\ row[c] \in 1..Len(opened) /\ opened[row[c]] \in Nat
      BY <1>0, <2>1
    <3>2. /\ [opened EXCEPT ![row[c]] = opened[row[c]] + 1] \in Seq(Nat)
          /\ Len([opened EXCEPT ![row[c]] = opened[row[c]] + 1]) = Len(attempts)
      BY <1>0, <3>1, ColumnWrite
    <3>. QED BY <1>0, <2>1, <3>2
  <2>. QED
    BY <2>1, <2>2, RepliedKeepsTypes DEF SignInTypeOK, Codes, redisVars
<1>9. ASSUME TtlOver \/ CodeExpires \/ UNCHANGED signInVars PROVE SignInTypeOK'
  <2>1. UNCHANGED <<attempts, consumed, account, requestVars, signInHistory>>
    BY <1>9 DEF TtlOver, CodeExpires, signInVars, codeVars
  <2>2. /\ fail' \in {fail, NoCount} /\ lock' \in BOOLEAN /\ tier' \in Nat
    <3>1. /\ fail' \in {fail, NoCount} /\ tier' \in {tier, 0}
          /\ lock' = lock \/ lock' = FALSE
      BY <1>9 DEF TtlOver, CodeExpires, signInVars, redisVars
    <3>2. lock' \in BOOLEAN
      BY <1>f, <3>1
    <3>. QED BY <1>f, <3>1, <3>2
  <2>4. expired' \in 0..Len(attempts)
    BY <1>0, <1>9 DEF TtlOver, CodeExpires, signInVars, codeVars, SignInTypeOK
  <2>3. fail' \in [n : Nat, ttl : BOOLEAN]
    BY <1>n, <1>f, <2>2
  <2>. QED
    BY <2>1, <2>2, <2>3, <2>4 DEF SignInTypeOK, Codes, requestVars, signInHistory
<1>. QED
  BY <1>1, <1>2, <1>3, <1>4, <1>5, <1>6, <1>7, <1>8, <1>9 DEF SignInNext

\* The state reached by SignInInit satisfies the three invariants.
LEMMA SignInInitInv == SignInInit => SignInTypeOK /\ CodeInv /\ LockoutInv
<1>. SUFFICES ASSUME SignInInit PROVE SignInTypeOK /\ CodeInv /\ LockoutInv
  OBVIOUS
<1>1. /\ Codes = {} /\ Len(attempts) = 0 /\ attempts \in Seq(Nat)
      /\ opened = attempts /\ wrongs = attempts
  BY DEF SignInInit, Codes
<1>2. fail = NoCount /\ NoCount \in [n : Nat, ttl : BOOLEAN] /\ fail.n = 0
  BY DEF SignInInit, NoCount
<1>3. SignInTypeOK
  <2>1. /\ expired = 0 /\ account = FALSE /\ lock = FALSE /\ tier = 0 /\ counted = 0
        /\ raced = FALSE /\ broken = FALSE /\ consumed = {} /\ crowded = {} /\ known = {}
        /\ place = [c \in Requests |-> "idle"] /\ row = [c \in Requests |-> 0]
        /\ read = [c \in Requests |-> 0]
    BY DEF SignInInit
  <2>2. /\ place \in [Requests -> Places] /\ row \in [Requests -> 0..Len(attempts)]
        /\ read \in [Requests -> Nat]
        /\ \A c \in Requests : place[c] \in {"wrong", "right", "open"} => row[c] # 0
    BY <1>1, <2>1 DEF Places
  <2>3. Len(attempts) <= MaxCodes /\ expired \in 0..Len(attempts)
    BY <1>1, <2>1, SignInAssumption
  <2>. QED BY <1>1, <1>2, <2>1, <2>2, <2>3 DEF SignInTypeOK
<1>4. CodeInv
  BY <1>1 DEF CodeInv
<1>5. \A c \in Requests : place[c] = "idle"
  BY DEF SignInInit
<1>6. ThresholdIsSeen /\ TtlIsComing
  BY <1>2, SignInAssumption DEF ThresholdIsSeen, TtlIsComing
<1>7. OneRecorder
  BY <1>5 DEF OneRecorder, Recording
<1>8. TiersArePaid
  <2>1. tier = 0 /\ counted = 0 /\ Threshold \in Nat
    BY SignInAssumption DEF SignInInit
  <2>2. \A c \in Requests : DueTier(c) = 0
    BY <1>5, <2>1 DEF DueTier
  <2>. QED BY <1>2, <2>1, <2>2 DEF TiersArePaid
<1>. QED BY <1>3, <1>4, <1>6, <1>7, <1>8 DEF LockoutInv

\* A step that leaves a code's row, its counts and who holds it as they were
\* keeps what is known of it.
CodeUntouched(k) ==
    /\ k \in Codes /\ attempts'[k] = attempts[k]
    /\ wrongs'[k] = wrongs[k] /\ opened'[k] = opened[k]
    /\ k \in consumed' <=> k \in consumed
    /\ k \in crowded => k \in crowded'
    /\ \A c \in Requests : row'[c] = k =>
          /\ row[c] = k /\ read'[c] = read[c]
          /\ place'[c] \in {"wrong", "right", "open"}
          /\ place'[c] = "wrong" => place[c] = "wrong"

OneCodeInv(k) ==
    /\ wrongs[k] = attempts[k] /\ attempts[k] <= OtpMax
    /\ opened[k] = IF k \in consumed THEN 1 ELSE 0
    /\ HeldAlone(k)

LEMMA UntouchedKeepsCode ==
    ASSUME CodeInv, NEW k, CodeUntouched(k), k \notin crowded'
    PROVE  OneCodeInv(k)'
<1>1. OneCodeInv(k)
  BY DEF CodeInv, OneCodeInv, CodeUntouched
<1>2. \A c \in Requests : row'[c] = k =>
        /\ place'[c] \in {"wrong", "right", "open"}
        /\ k \notin consumed'
        /\ attempts'[k] < OtpMax
        /\ place'[c] = "wrong" => read'[c] = attempts'[k]
        /\ \A d \in Requests : row'[d] = k => d = c
  BY <1>1 DEF OneCodeInv, HeldAlone, CodeUntouched
<1>. QED BY <1>1, <1>2 DEF OneCodeInv, HeldAlone, CodeUntouched

\* A request that is over holds no code any more; the others are undisturbed.
LEMMA RepliedLeavesCodes ==
    ASSUME SignInTypeOK, NEW c \in Requests, Replied(c), NEW k \in Codes,
           UNCHANGED <<attempts, wrongs, opened, crowded>>,
           k \in consumed' <=> k \in consumed, k \notin crowded, CodeInv
    PROVE  CodeUntouched(k)
<1>1. /\ place' = [place EXCEPT ![c] = "idle"]
      /\ row' = [row EXCEPT ![c] = 0] /\ read' = [read EXCEPT ![c] = 0]
  BY DEF Replied, MovesTo
<1>2. k # 0 /\ HeldAlone(k)
  BY DEF Codes, CodeInv
<1>. QED BY <1>1, <1>2 DEF CodeUntouched, HeldAlone, SignInTypeOK

\* What is known of the codes that no two calls held is kept by every step.
LEMMA CodeStep ==
    ASSUME SignInTypeOK, CodeInv, [SignInNext]_signInVars PROVE CodeInv'
<1>. USE SignInAssumption
<1>0. /\ Len(attempts) \in Nat /\ Codes = 1..Len(attempts)
      /\ DOMAIN attempts = Codes /\ DOMAIN opened = Codes /\ DOMAIN wrongs = Codes
      /\ \A k \in Codes : attempts[k] \in Nat /\ opened[k] \in Nat /\ wrongs[k] \in Nat
      /\ place \in [Requests -> Places] /\ row \in [Requests -> 0..Len(attempts)]
      /\ read \in [Requests -> Nat] /\ consumed \subseteq Codes
  <2>1. /\ attempts \in Seq(Nat) /\ opened \in Seq(Nat) /\ wrongs \in Seq(Nat)
        /\ Len(opened) = Len(attempts) /\ Len(wrongs) = Len(attempts)
    BY DEF SignInTypeOK
  <2>2. /\ Len(attempts) \in Nat /\ Codes = 1..Len(attempts)
        /\ DOMAIN attempts = Codes /\ DOMAIN opened = Codes /\ DOMAIN wrongs = Codes
    BY <2>1 DEF Codes
  <2>3. \A k \in Codes : attempts[k] \in Nat /\ opened[k] \in Nat /\ wrongs[k] \in Nat
    BY <2>1, <2>2
  <2>. QED BY <2>2, <2>3 DEF SignInTypeOK
<1>i. \A k \in Codes \ crowded : OneCodeInv(k)
  BY DEF CodeInv, OneCodeInv
<1>u. ASSUME UNCHANGED attempts,
             \A k \in Codes : k \notin crowded' => CodeUntouched(k) \/ OneCodeInv(k)'
      PROVE  CodeInv'
  <2>1. Codes' = Codes
    BY <1>u DEF Codes
  <2>2. \A k \in Codes : k \notin crowded' => OneCodeInv(k)'
    BY <1>u, UntouchedKeepsCode
  <2>. QED BY <2>1, <2>2 DEF CodeInv, OneCodeInv
<1>1. ASSUME RequestCode PROVE CodeInv'
  <2>1. PICK n \in Nat : n = Len(attempts) + 1
    BY <1>0
  <2>2. /\ attempts' = Append(attempts, 0) /\ opened' = Append(opened, 0)
        /\ wrongs' = Append(wrongs, 0)
        /\ UNCHANGED <<consumed, row, read, place, crowded>>
    BY <1>1 DEF RequestCode, requestVars
  <2>3. /\ attempts'[n] = 0 /\ opened'[n] = 0 /\ wrongs'[n] = 0
        /\ n \notin Codes /\ n # 0 /\ Codes' = Codes \cup {n}
    BY <1>0, <2>1, <2>2 DEF SignInTypeOK, Codes
  <2>4. \A k \in Codes : /\ attempts'[k] = attempts[k] /\ opened'[k] = opened[k]
                         /\ wrongs'[k] = wrongs[k]
    BY <1>0, <2>2 DEF SignInTypeOK, Codes
  <2>5. ASSUME NEW k \in Codes, k \notin crowded PROVE CodeUntouched(k)
    BY <1>i, <2>2, <2>4, <2>5 DEF CodeUntouched, OneCodeInv, HeldAlone
  <2>6. \A c \in Requests : row'[c] # n
    BY <1>0, <2>1, <2>2
  <2>7. OneCodeInv(n)'
    <3>1. HeldAlone(n)'
      BY <2>6 DEF HeldAlone
    <3>2. n \notin consumed'
      BY <1>0, <2>2, <2>3
    <3>. QED BY <2>3, <3>1, <3>2 DEF OneCodeInv
  <2>8. \A k \in Codes : k \notin crowded' => OneCodeInv(k)'
    BY <2>2, <2>5, UntouchedKeepsCode
  <2>. QED BY <2>3, <2>7, <2>8 DEF CodeInv, OneCodeInv
<1>2. ASSUME NEW c \in Requests,
             \/ Guard(c) \/ GuardRaises(c) \/ Captcha(c)
             \/ IncrFail(c) \/ ExpireFail(c) \/ GetTier(c) \/ SetTier(c) \/ SetLock(c)
      PROVE  CodeInv'
  <2>1. /\ UNCHANGED <<codeVars, row, opened, wrongs, crowded>>
        /\ place[c] \notin {"wrong", "right", "open"}
        /\ \E p : place' = [place EXCEPT ![c] = p]
    BY <1>2 DEF Guard, GuardRaises, Captcha, IncrFail, ExpireFail, GetTier, SetTier, SetLock,
                MovesTo, signInHistory
  <2>2. \A d \in Requests : d # c => read'[d] = read[d]
    BY <1>0, <1>2 DEF Guard, GuardRaises, Captcha, IncrFail, ExpireFail, GetTier, SetTier,
                      SetLock
  <2>3. ASSUME NEW k \in Codes, k \notin crowded PROVE CodeUntouched(k)
    BY <1>0, <1>i, <2>1, <2>2, <2>3 DEF CodeUntouched, OneCodeInv, HeldAlone, codeVars
  <2>. QED BY <1>u, <2>1, <2>3 DEF codeVars
<1>3. ASSUME NEW c \in Requests, NoCode(c) \/ DuplicateUser(c) \/ DelFail(c) \/ BreaksOff(c)
      PROVE  CodeInv'
  <2>1. Replied(c) /\ UNCHANGED <<attempts, wrongs, opened, crowded, consumed>>
    BY <1>3 DEF NoCode, DuplicateUser, DelFail, BreaksOff, codeVars, signInHistory
  <2>2. \A k \in Codes : k \notin crowded => CodeUntouched(k)
    BY <2>1, RepliedLeavesCodes
  <2>. QED BY <1>u, <2>1, <2>2
<1>4. ASSUME NEW c \in Requests, ReadCode(c) PROVE CodeInv'
  <2>1. PICK k \in Codes, verdict \in {"right", "wrong"} :
          /\ place[c] = "code" /\ Newest(k) /\ attempts[k] < OtpMax
          /\ row' = [row EXCEPT ![c] = k]
          /\ read' = [read EXCEPT ![c] = attempts[k]]
          /\ place' = [place EXCEPT ![c] = verdict]
          /\ crowded' = IF \E d \in Requests \ {c} : row[d] = k
                        THEN crowded \cup {k} ELSE crowded
          /\ opened' = IF k \in crowded' THEN [opened EXCEPT ![k] = 0] ELSE opened
          /\ wrongs' = IF k \in crowded' THEN [wrongs EXCEPT ![k] = 0] ELSE wrongs
          /\ UNCHANGED <<attempts, consumed>>
    BY <1>4 DEF ReadCode, MovesTo, codeVars
  <2>2. ASSUME NEW j \in Codes, j # k, j \notin crowded' PROVE CodeUntouched(j)
    <3>1. opened'[j] = opened[j] /\ wrongs'[j] = wrongs[j] /\ j \notin crowded
      BY <1>0, <2>1, <2>2
    <3>2. \A d \in Requests : row'[d] = j =>
            d # c /\ row[d] = j /\ read'[d] = read[d] /\ place'[d] = place[d]
      BY <1>0, <2>1, <2>2
    <3>. QED BY <1>i, <2>1, <3>1, <3>2 DEF CodeUntouched, OneCodeInv, HeldAlone
  <2>3. ASSUME k \notin crowded' PROVE OneCodeInv(k)'
    <3>1. /\ k \notin crowded /\ opened' = opened /\ wrongs' = wrongs
          /\ \A d \in Requests : row'[d] = k => d = c
      BY <1>0, <2>1, <2>3
    <3>2. k \notin consumed
      BY <2>1 DEF Newest, Unconsumed
    <3>3. read'[c] = attempts[k] /\ place'[c] \in {"right", "wrong"}
      BY <1>0, <2>1
    <3>4. HeldAlone(k)'
      BY <2>1, <3>1, <3>2, <3>3 DEF HeldAlone
    <3>. QED BY <1>i, <2>1, <3>1, <3>4 DEF OneCodeInv
  <2>. QED BY <1>u, <2>1, <2>2, <2>3
<1>5. ASSUME NEW c \in Requests, SpendAttempt(c) PROVE CodeInv'
  <2>1. PICK k \in Codes :
          /\ k = row[c] /\ place[c] = "wrong"
          /\ attempts' = [attempts EXCEPT ![k] = read[c] + 1]
          /\ wrongs' = IF k \in crowded THEN wrongs
                       ELSE [wrongs EXCEPT ![k] = wrongs[k] + 1]
          /\ row' = [row EXCEPT ![c] = 0]
          /\ read' = [read EXCEPT ![c] = 0]
          /\ place' = [place EXCEPT ![c] = "incr"]
          /\ UNCHANGED <<consumed, opened, crowded>>
    <3>1. row[c] \in Codes
      BY <1>0, <1>5 DEF SpendAttempt, SignInTypeOK
    <3>. QED BY <1>5, <3>1 DEF SpendAttempt, MovesTo
  <2>2. Codes' = Codes /\ k # 0
    BY <1>0, <2>1 DEF SignInTypeOK, Codes
  <2>3. ASSUME NEW j \in Codes, j # k, j \notin crowded PROVE OneCodeInv(j)'
    <3>1. attempts'[j] = attempts[j] /\ wrongs'[j] = wrongs[j]
      BY <1>0, <2>1, <2>3
    <3>2. j # 0
      BY <1>0
    <3>3. \A d \in Requests : row'[d] = j =>
            d # c /\ row[d] = j /\ read'[d] = read[d] /\ place'[d] = place[d]
      BY <1>0, <2>1, <3>2
    <3>4. CodeUntouched(j)
      BY <1>i, <2>1, <2>3, <3>1, <3>3 DEF CodeUntouched, OneCodeInv, HeldAlone
    <3>. QED BY <2>1, <2>3, <3>4, UntouchedKeepsCode
  <2>4. ASSUME k \notin crowded PROVE OneCodeInv(k)'
    <3>1. OneCodeInv(k) /\ HeldAlone(k)
      BY <1>i, <2>4 DEF OneCodeInv
    <3>2. read[c] = attempts[k] /\ attempts[k] < OtpMax
      BY <2>1, <3>1 DEF HeldAlone
    <3>3. attempts'[k] = attempts[k] + 1 /\ wrongs'[k] = wrongs[k] + 1
      BY <1>0, <2>1, <2>4, <3>2
    <3>4. \A d \in Requests : row'[d] # k
      BY <1>0, <2>1, <2>2, <3>1 DEF HeldAlone
    <3>5. HeldAlone(k)'
      BY <3>4 DEF HeldAlone
    <3>6. attempts[k] \in Nat /\ attempts'[k] <= OtpMax
      BY <1>0, <3>2, <3>3
    <3>. QED BY <2>1, <3>1, <3>3, <3>5, <3>6 DEF OneCodeInv
  <2>. QED BY <2>1, <2>2, <2>3, <2>4 DEF CodeInv, OneCodeInv
<1>6. ASSUME NEW c \in Requests, Reset(c) \/ ResetRaises(c) PROVE CodeInv'
  <2>1. /\ UNCHANGED <<codeVars, row, read, opened, wrongs, crowded>>
        /\ place' = [place EXCEPT ![c] = "open"] /\ place[c] = "right"
    BY <1>6 DEF Reset, ResetRaises, FindUser, MovesTo, signInHistory
  <2>2. ASSUME NEW k \in Codes, k \notin crowded PROVE CodeUntouched(k)
    BY <1>0, <1>i, <2>1, <2>2 DEF CodeUntouched, OneCodeInv, HeldAlone, codeVars
  <2>. QED BY <1>u, <2>1, <2>2 DEF codeVars
<1>7. ASSUME NEW c \in Requests, OpenSession(c) PROVE CodeInv'
  <2>1. PICK k \in Codes :
          /\ k = row[c] /\ place[c] = "open" /\ Replied(c)
          /\ consumed' = consumed \cup {k}
          /\ opened' = IF k \in crowded THEN opened
                       ELSE [opened EXCEPT ![k] = opened[k] + 1]
          /\ UNCHANGED <<attempts, wrongs, crowded>>
    <3>1. row[c] \in Codes
      BY <1>0, <1>7 DEF OpenSession, SignInTypeOK
    <3>. QED BY <1>7, <3>1 DEF OpenSession
  <2>2. /\ row' = [row EXCEPT ![c] = 0] /\ read' = [read EXCEPT ![c] = 0]
        /\ place' = [place EXCEPT ![c] = "idle"]
    BY <2>1 DEF Replied, MovesTo
  <2>3. ASSUME NEW j \in Codes, j # k, j \notin crowded PROVE CodeUntouched(j)
    <3>1. opened'[j] = opened[j] /\ j # 0
      BY <1>0, <2>1, <2>3
    <3>2. \A d \in Requests : row'[d] = j =>
            d # c /\ row[d] = j /\ read'[d] = read[d] /\ place'[d] = place[d]
      BY <1>0, <2>2, <3>1
    <3>. QED BY <1>i, <2>1, <2>3, <3>1, <3>2 DEF CodeUntouched, OneCodeInv, HeldAlone
  <2>4. ASSUME k \notin crowded PROVE OneCodeInv(k)'
    <3>1. OneCodeInv(k) /\ HeldAlone(k)
      BY <1>i, <2>4 DEF OneCodeInv
    <3>2. opened[k] = 0
      BY <2>1, <3>1 DEF OneCodeInv, HeldAlone
    <3>3. opened'[k] = 1
      BY <1>0, <2>1, <2>4, <3>2
    <3>4. \A d \in Requests : row'[d] # k
      BY <1>0, <2>1, <2>2, <3>1 DEF HeldAlone
    <3>5. HeldAlone(k)'
      BY <3>4 DEF HeldAlone
    <3>. QED BY <2>1, <3>1, <3>3, <3>5 DEF OneCodeInv
  <2>. QED BY <1>u, <2>1, <2>3, <2>4
<1>8. ASSUME TtlOver \/ CodeExpires \/ UNCHANGED signInVars PROVE CodeInv'
  <2>1. UNCHANGED <<attempts, consumed, requestVars, signInHistory>>
    BY <1>8 DEF TtlOver, CodeExpires, signInVars, codeVars
  <2>2. ASSUME NEW k \in Codes, k \notin crowded PROVE CodeUntouched(k)
    BY <1>i, <2>1, <2>2 DEF CodeUntouched, OneCodeInv, HeldAlone, requestVars, signInHistory
  <2>. QED BY <1>u, <2>1, <2>2 DEF signInHistory
<1>. QED
  BY <1>1, <1>2, <1>3, <1>4, <1>5, <1>6, <1>7, <1>8 DEF SignInNext

\* A step of one request, and the steps that no request takes.
RequestStep(c) ==
    \/ Guard(c) \/ GuardRaises(c)
    \/ Captcha(c) \/ NoCode(c) \/ ReadCode(c) \/ SpendAttempt(c)
    \/ IncrFail(c) \/ ExpireFail(c)
    \/ GetTier(c) \/ SetTier(c) \/ SetLock(c) \/ DelFail(c)
    \/ Reset(c) \/ ResetRaises(c) \/ OpenSession(c) \/ DuplicateUser(c)
    \/ BreaksOff(c)

\* Steps outside record_failure, which neither begin nor end in it.
Elsewhere(c) ==
    \/ Guard(c) \/ GuardRaises(c) \/ Captcha(c) \/ NoCode(c) \/ ReadCode(c)
    \/ SpendAttempt(c) \/ ResetRaises(c) \/ OpenSession(c) \/ DuplicateUser(c)

\* A request disturbs no other one.
LEMMA RequestsApart ==
    ASSUME SignInTypeOK, NEW c \in Requests, RequestStep(c), NEW d \in Requests, d # c
    PROVE  place'[d] = place[d] /\ read'[d] = read[d]
<1>. USE DEF SignInTypeOK
<1>1. CASE Guard(c) \/ GuardRaises(c) \/ Captcha(c) \/ ReadCode(c) \/ SpendAttempt(c)
  BY <1>1 DEF Guard, GuardRaises, Captcha, ReadCode, SpendAttempt, MovesTo
<1>2. CASE IncrFail(c) \/ ExpireFail(c) \/ GetTier(c) \/ SetTier(c) \/ SetLock(c)
  BY <1>2 DEF IncrFail, ExpireFail, GetTier, SetTier, SetLock, MovesTo
<1>3. CASE Reset(c) \/ ResetRaises(c)
  BY <1>3 DEF Reset, ResetRaises, FindUser, MovesTo
<1>4. CASE NoCode(c) \/ DelFail(c) \/ OpenSession(c) \/ DuplicateUser(c) \/ BreaksOff(c)
  <2>1. Replied(c)
    BY <1>4 DEF NoCode, DelFail, OpenSession, DuplicateUser, BreaksOff
  <2>. QED BY <2>1 DEF Replied, MovesTo
<1>. QED BY <1>1, <1>2, <1>3, <1>4 DEF RequestStep

\* Outside record_failure nothing is counted and nobody begins to record.
LEMMA ElsewhereIsQuiet ==
    ASSUME SignInTypeOK, NEW c \in Requests,
           \/ Elsewhere(c)
           \/ BreaksOff(c) /\ ~broken'
    PROVE  /\ UNCHANGED <<redisVars, counted, raced>>
           /\ place[c] \notin Recording /\ place'[c] \notin Recording
<1>. USE DEF SignInTypeOK, Recording
<1>1. CASE \/ Guard(c) \/ GuardRaises(c) \/ Captcha(c) \/ ReadCode(c) \/ SpendAttempt(c)
           \/ ResetRaises(c)
  BY <1>1 DEF Guard, GuardRaises, Captcha, ReadCode, SpendAttempt, ResetRaises, FindUser,
              MovesTo, signInHistory
<1>2. CASE NoCode(c) \/ OpenSession(c) \/ DuplicateUser(c)
  BY <1>2 DEF NoCode, OpenSession, DuplicateUser, Replied, MovesTo, signInHistory
<1>3. CASE BreaksOff(c) /\ ~broken'
  BY <1>3 DEF BreaksOff, Replied, MovesTo
<1>. QED BY <1>1, <1>2, <1>3 DEF Elsewhere

\* What a Redis command of record_failure or reset does to its request.
LEMMA RecordingMoves ==
    ASSUME SignInTypeOK, NEW c \in Requests
    PROVE  /\ IncrFail(c) =>
                /\ place[c] = "incr" /\ read'[c] = fail.n + 1
                /\ place'[c] = IF fail.n + 1 = 1 THEN "expire" ELSE Judge(fail.n + 1)
                /\ fail'.n = fail.n + 1 /\ fail'.ttl = fail.ttl /\ UNCHANGED tier
           /\ ExpireFail(c) =>
                /\ place[c] = "expire" /\ place'[c] = Judge(read[c])
                /\ fail'.n = fail.n /\ fail'.ttl = (fail.n > 0)
                /\ UNCHANGED <<tier, counted, raced>>
           /\ GetTier(c) =>
                /\ place[c] = "tier" /\ place'[c] = "settier" /\ read'[c] = tier + 1
                /\ UNCHANGED <<fail, tier, counted, raced>>
           /\ SetTier(c) =>
                /\ place[c] = "settier" /\ place'[c] = "setlock" /\ tier' = read[c]
                /\ UNCHANGED <<fail, counted, raced>>
           /\ SetLock(c) =>
                /\ place[c] = "setlock" /\ place'[c] = "delfail"
                /\ UNCHANGED <<fail, tier, counted, raced>>
           /\ DelFail(c) =>
                /\ place[c] = "delfail" /\ place'[c] = "idle"
                /\ fail' = NoCount /\ UNCHANGED <<tier, counted, raced>>
           /\ Reset(c) =>
                /\ place[c] = "right" /\ place'[c] = "open"
                /\ fail' = NoCount /\ tier' = 0 /\ counted' = 0
<1>0. /\ place \in [Requests -> Places] /\ read \in [Requests -> Nat]
      /\ fail \in [n : Nat, ttl : BOOLEAN]
  BY DEF SignInTypeOK
<1>1. ASSUME IncrFail(c) PROVE
        /\ place[c] = "incr" /\ read'[c] = fail.n + 1
        /\ place'[c] = IF fail.n + 1 = 1 THEN "expire" ELSE Judge(fail.n + 1)
        /\ fail'.n = fail.n + 1 /\ fail'.ttl = fail.ttl /\ UNCHANGED tier
  BY <1>0, <1>1 DEF IncrFail, MovesTo, Incremented
<1>2. ASSUME ExpireFail(c) PROVE
        /\ place[c] = "expire" /\ place'[c] = Judge(read[c])
        /\ fail'.n = fail.n /\ fail'.ttl = (fail.n > 0)
        /\ UNCHANGED <<tier, counted, raced>>
  BY <1>0, <1>2 DEF ExpireFail, MovesTo, Expiring, signInHistory
<1>3. ASSUME GetTier(c) \/ SetTier(c) \/ SetLock(c) PROVE
        /\ UNCHANGED <<fail, counted, raced>>
        /\ GetTier(c) => /\ place[c] = "tier" /\ place'[c] = "settier"
                         /\ read'[c] = tier + 1 /\ UNCHANGED tier
        /\ SetTier(c) => place[c] = "settier" /\ place'[c] = "setlock" /\ tier' = read[c]
        /\ SetLock(c) => place[c] = "setlock" /\ place'[c] = "delfail" /\ UNCHANGED tier
  BY <1>0, <1>3 DEF GetTier, SetTier, SetLock, MovesTo, redisVars, signInHistory
<1>4. ASSUME DelFail(c) PROVE
        /\ place[c] = "delfail" /\ place'[c] = "idle"
        /\ fail' = NoCount /\ UNCHANGED <<tier, counted, raced>>
  BY <1>0, <1>4 DEF DelFail, Replied, MovesTo, signInHistory
<1>5. ASSUME Reset(c) PROVE
        /\ place[c] = "right" /\ place'[c] = "open"
        /\ fail' = NoCount /\ tier' = 0 /\ counted' = 0
  BY <1>0, <1>5 DEF Reset, FindUser, MovesTo
<1>. QED BY <1>1, <1>2, <1>3, <1>4, <1>5

\* Steps that no request takes: at most a key of Redis is dropped.
LEMMA TimeIsQuiet ==
    ASSUME RequestCode \/ TtlOver \/ CodeExpires \/ UNCHANGED signInVars
    PROVE  /\ UNCHANGED <<place, read, counted, raced, broken>>
           /\ fail' = fail \/ fail' = NoCount
           /\ tier' = tier \/ tier' = 0
BY DEF RequestCode, TtlOver, CodeExpires, signInVars, redisVars, requestVars, signInHistory

\* A call that broke off in record_failure is not forgotten.
LEMMA BrokenStays ==
    ASSUME [SignInNext]_signInVars, ~broken' PROVE ~broken
<1>1. ASSUME NEW c \in Requests, BreaksOff(c) PROVE ~broken
  BY <1>1 DEF BreaksOff
<1>2. ASSUME NEW c \in Requests, RequestStep(c), ~BreaksOff(c) PROVE UNCHANGED broken
  BY <1>2 DEF RequestStep, Guard, GuardRaises, Captcha, NoCode, ReadCode, SpendAttempt,
              IncrFail, ExpireFail, GetTier, SetTier, SetLock, DelFail, Reset, ResetRaises,
              OpenSession, DuplicateUser, signInHistory
<1>3. CASE RequestCode \/ TtlOver \/ CodeExpires \/ UNCHANGED signInVars
  BY <1>3, TimeIsQuiet
<1>. QED BY <1>1, <1>2, <1>3 DEF SignInNext, RequestStep

\* As long as failures have reached the threshold, somebody is on its way to
\* the lock.
LEMMA ThresholdStep ==
    ASSUME SignInTypeOK, ThresholdIsSeen, [SignInNext]_signInVars, ~broken'
    PROVE  ThresholdIsSeen'
<1>. USE SignInAssumption
<1>0. /\ fail.n \in Nat /\ NoCount.n = 0
      /\ \A c \in Requests : read[c] \in Nat
  BY DEF SignInTypeOK, NoCount
<1>1. ASSUME NEW c \in Requests, NEW d \in Requests, d # c, RequestStep(c), Locking(d)
      PROVE  Locking(d)'
  BY <1>1, RequestsApart DEF Locking
<1>2. ASSUME NEW c \in Requests, Elsewhere(c) \/ (BreaksOff(c) /\ ~broken')
      PROVE  ThresholdIsSeen'
  <2>1. UNCHANGED fail /\ ~Locking(c) /\ RequestStep(c)
    BY <1>2, ElsewhereIsQuiet DEF redisVars, Locking, Recording, RequestStep, Elsewhere
  <2>. QED BY <1>1, <2>1 DEF ThresholdIsSeen
<1>3. ASSUME NEW c \in Requests, IncrFail(c) PROVE ThresholdIsSeen'
  <2>1. fail'.n >= Threshold => Locking(c)'
    BY <1>0, <1>3, RecordingMoves DEF Locking, Judge
  <2>. QED BY <2>1 DEF ThresholdIsSeen
<1>4. ASSUME NEW c \in Requests, ExpireFail(c) \/ GetTier(c) \/ SetTier(c) \/ SetLock(c)
      PROVE  ThresholdIsSeen'
  <2>1. fail'.n = fail.n /\ RequestStep(c)
    BY <1>4, RecordingMoves DEF RequestStep
  <2>2. Locking(c) => Locking(c)'
    BY <1>0, <1>4, RecordingMoves DEF Locking, Judge
  <2>. QED BY <1>1, <2>1, <2>2 DEF ThresholdIsSeen
<1>5. ASSUME NEW c \in Requests, DelFail(c) \/ Reset(c) PROVE ThresholdIsSeen'
  <2>1. fail'.n = 0
    BY <1>0, <1>5, RecordingMoves
  <2>. QED BY <2>1 DEF ThresholdIsSeen
<1>6. CASE RequestCode \/ TtlOver \/ CodeExpires \/ UNCHANGED signInVars
  <2>1. fail' = fail \/ fail'.n = 0
    BY <1>0, <1>6, TimeIsQuiet
  <2>2. \A d \in Requests : Locking(d) => Locking(d)'
    BY <1>6, TimeIsQuiet DEF Locking
  <2>. QED BY <2>1, <2>2 DEF ThresholdIsSeen
<1>. QED BY <1>2, <1>3, <1>4, <1>5, <1>6 DEF SignInNext, Elsewhere

\* As long as the count of failures has no ttl, somebody is about to set it.
LEMMA TtlStep ==
    ASSUME SignInTypeOK, TtlIsComing, [SignInNext]_signInVars, ~broken'
    PROVE  TtlIsComing'
<1>0. fail.n \in Nat /\ fail.ttl \in BOOLEAN /\ NoCount.n = 0
  BY DEF SignInTypeOK, NoCount
<1>1. ASSUME NEW c \in Requests, NEW d \in Requests, d # c, RequestStep(c),
             place[d] = "expire"
      PROVE  place'[d] = "expire"
  BY <1>1, RequestsApart
<1>2. ASSUME NEW c \in Requests, Elsewhere(c) \/ (BreaksOff(c) /\ ~broken')
      PROVE  TtlIsComing'
  <2>1. UNCHANGED fail /\ place[c] # "expire" /\ RequestStep(c)
    BY <1>2, ElsewhereIsQuiet DEF redisVars, Recording, RequestStep, Elsewhere
  <2>. QED BY <1>1, <2>1 DEF TtlIsComing
<1>3. ASSUME NEW c \in Requests, IncrFail(c) PROVE TtlIsComing'
  <2>1. /\ fail'.n = fail.n + 1 /\ fail'.ttl = fail.ttl /\ place[c] = "incr"
        /\ fail.n = 0 => place'[c] = "expire"
    BY <1>0, <1>3, RecordingMoves
  <2>2. RequestStep(c)
    BY <1>3 DEF RequestStep
  <2>3. CASE fail.n = 0
    BY <2>1, <2>3 DEF TtlIsComing
  <2>4. CASE fail.n > 0
    BY <1>1, <2>1, <2>2, <2>4 DEF TtlIsComing
  <2>. QED BY <1>0, <2>3, <2>4
<1>4. ASSUME NEW c \in Requests, ExpireFail(c) PROVE TtlIsComing'
  <2>1. fail'.n = fail.n /\ fail'.ttl = (fail.n > 0)
    BY <1>4, RecordingMoves
  <2>. QED BY <2>1 DEF TtlIsComing
<1>5. ASSUME NEW c \in Requests, GetTier(c) \/ SetTier(c) \/ SetLock(c) PROVE TtlIsComing'
  <2>1. UNCHANGED fail /\ place[c] # "expire" /\ RequestStep(c)
    BY <1>5, RecordingMoves DEF RequestStep
  <2>. QED BY <1>1, <2>1 DEF TtlIsComing
<1>6. ASSUME NEW c \in Requests, DelFail(c) \/ Reset(c) PROVE TtlIsComing'
  <2>1. fail'.n = 0
    BY <1>0, <1>6, RecordingMoves
  <2>. QED BY <2>1 DEF TtlIsComing
<1>7. CASE RequestCode \/ TtlOver \/ CodeExpires \/ UNCHANGED signInVars
  <2>1. (fail' = fail \/ fail'.n = 0) /\ UNCHANGED place
    BY <1>0, <1>7, TimeIsQuiet
  <2>. QED BY <2>1 DEF TtlIsComing
<1>. QED BY <1>2, <1>3, <1>4, <1>5, <1>6, <1>7 DEF SignInNext, Elsewhere

\* As long as no two failures were recorded at once, one request at a time is
\* past its INCR.
LEMMA RecorderStep ==
    ASSUME SignInTypeOK, raced \/ OneRecorder, [SignInNext]_signInVars, ~broken'
    PROVE  raced' \/ OneRecorder'
<1>. SUFFICES ASSUME ~raced' PROVE OneRecorder'
  OBVIOUS
<1>1. ASSUME NEW c \in Requests, IncrFail(c) \/ Reset(c) PROVE OneRecorder'
  <2>1. Others(c, Recording) = {} /\ RequestStep(c)
    BY <1>1 DEF IncrFail, Reset, RequestStep
  <2>2. \A d \in Requests : d # c => place'[d] \notin Recording
    BY <2>1, RequestsApart DEF Others
  <2>. QED BY <2>2 DEF OneRecorder
<1>2. ASSUME NEW c \in Requests, UNCHANGED raced, RequestStep(c),
             place'[c] \in Recording => place[c] \in Recording
      PROVE  OneRecorder'
  <2>1. \A d \in Requests : place'[d] \in Recording => place[d] \in Recording
    BY <1>2, RequestsApart
  <2>. QED BY <1>2, <2>1 DEF OneRecorder
<1>3. ASSUME NEW c \in Requests, Elsewhere(c) \/ (BreaksOff(c) /\ ~broken')
      PROVE  OneRecorder'
  <2>1. RequestStep(c)
    BY <1>3 DEF RequestStep, Elsewhere
  <2>. QED BY <1>2, <1>3, <2>1, ElsewhereIsQuiet
<1>4. ASSUME NEW c \in Requests,
             ExpireFail(c) \/ GetTier(c) \/ SetTier(c) \/ SetLock(c) \/ DelFail(c)
      PROVE  OneRecorder'
  <2>1. RequestStep(c)
    BY <1>4 DEF RequestStep
  <2>2. UNCHANGED raced /\ place[c] \in Recording
    BY <1>4, RecordingMoves DEF Recording
  <2>. QED BY <1>2, <2>1, <2>2
<1>5. CASE RequestCode \/ TtlOver \/ CodeExpires \/ UNCHANGED signInVars
  BY <1>5, TimeIsQuiet DEF OneRecorder
<1>. QED BY <1>1, <1>3, <1>4, <1>5 DEF SignInNext, Elsewhere

LEMMA Products ==
    ASSUME NEW a \in Nat, NEW b \in Nat
    PROVE  /\ a * Threshold \in Nat
           /\ (a + 1) * Threshold = a * Threshold + Threshold
           /\ 0 * Threshold = 0
           /\ a <= b => a * Threshold <= b * Threshold
<1>1. Threshold \in Nat
  BY SignInAssumption
<1>2. ASSUME NEW i \in Nat, NEW j \in Nat, i <= j PROVE i * Threshold <= j * Threshold
  <2>1. j - i \in Nat /\ (j - i) * Threshold \in Nat
    BY <1>1, <1>2
  <2>2. j * Threshold = i * Threshold + (j - i) * Threshold
    BY <1>1, <1>2
  <2>3. i * Threshold \in Nat /\ j * Threshold \in Nat
    BY <1>1
  <2>. QED BY <2>1, <2>2, <2>3
<1>3. a * Threshold \in Nat /\ (a + 1) * Threshold = a * Threshold + Threshold
  BY <1>1
<1>4. 0 * Threshold = 0
  BY <1>1
<1>. QED BY <1>2, <1>3, <1>4

LEMMA DueTierType ==
    ASSUME SignInTypeOK, NEW c \in Requests
    PROVE  /\ DueTier(c) \in Nat
           /\ place[c] \notin {"expire", "tier", "settier"} => DueTier(c) = tier
BY DEF SignInTypeOK, DueTier

\* As long as no two failures were recorded at once, the failures counted pay
\* for every tier.
LEMMA TiersStep ==
    ASSUME SignInTypeOK, raced \/ (OneRecorder /\ TiersArePaid),
           [SignInNext]_signInVars, SignInTypeOK', ~broken'
    PROVE  raced' \/ TiersArePaid'
<1>. SUFFICES ASSUME ~raced' PROVE TiersArePaid'
  OBVIOUS
<1>0. /\ Threshold \in Nat \ {0} /\ tier \in Nat /\ fail.n \in Nat /\ counted \in Nat
      /\ tier' \in Nat /\ fail'.n \in Nat /\ counted' \in Nat /\ NoCount.n = 0
      /\ \A d \in Requests : read[d] \in Nat
      /\ tier * Threshold \in Nat
  BY SignInAssumption, Products DEF SignInTypeOK, NoCount
<1>1. ASSUME NEW c \in Requests, NEW d \in Requests, d # c, RequestStep(c), UNCHANGED tier
      PROVE  DueTier(d)' = DueTier(d)
  BY <1>1, RequestsApart DEF DueTier
<1>2. ASSUME NEW c \in Requests, RequestStep(c), UNCHANGED <<fail, tier, counted, raced>>,
             DueTier(c)' = DueTier(c),
             place'[c] \in {"setlock", "delfail"} <=> place[c] \in {"setlock", "delfail"}
      PROVE  TiersArePaid'
  <2>1. TiersArePaid
    BY <1>2
  <2>2. \A d \in Requests : DueTier(d)' = DueTier(d)
    BY <1>1, <1>2
  <2>3. (\A d \in Requests : place'[d] \notin {"setlock", "delfail"})
         => \A d \in Requests : place[d] \notin {"setlock", "delfail"}
    BY <1>2, RequestsApart
  <2>. QED BY <1>2, <2>1, <2>2, <2>3 DEF TiersArePaid
<1>3. ASSUME NEW c \in Requests, Elsewhere(c) \/ (BreaksOff(c) /\ ~broken')
      PROVE  TiersArePaid'
  <2>1. /\ RequestStep(c) /\ UNCHANGED <<fail, tier, counted, raced>>
        /\ place[c] \notin Recording /\ place'[c] \notin Recording
    BY <1>3, ElsewhereIsQuiet DEF RequestStep, Elsewhere, redisVars
  <2>2. DueTier(c)' = DueTier(c)
    BY <2>1 DEF DueTier, Recording
  <2>. QED BY <1>2, <2>1, <2>2 DEF Recording
<1>4. ASSUME NEW c \in Requests, IncrFail(c) PROVE TiersArePaid'
  <2>1. /\ Others(c, Recording) = {} /\ ~raced /\ ~broken /\ RequestStep(c)
        /\ counted' = counted + 1
    BY <1>4 DEF IncrFail, RequestStep
  <2>2. /\ place[c] = "incr" /\ read'[c] = fail.n + 1
        /\ place'[c] = IF fail.n + 1 = 1 THEN "expire" ELSE Judge(fail.n + 1)
        /\ fail'.n = fail.n + 1 /\ UNCHANGED tier
    BY <1>4, RecordingMoves
  <2>3. \A d \in Requests : d # c => place[d] \notin Recording
    BY <2>1 DEF Others
  <2>4. tier * Threshold + fail.n <= counted
    BY <2>1, <2>2, <2>3 DEF TiersArePaid, Recording
  <2>5. \A d \in Requests : d # c => DueTier(d)' = tier
    BY <1>1, <2>1, <2>2, <2>3, DueTierType DEF Recording
  <2>6. DueTier(c)' = tier \/ (DueTier(c)' = tier + 1 /\ Threshold <= fail.n + 1)
    BY <1>0, <2>2 DEF DueTier, Judge
  <2>7. (tier + 1) * Threshold = tier * Threshold + Threshold
    BY <1>0, Products
  <2>8. (DueTier(c) * Threshold <= counted)'
    BY <1>0, <2>1, <2>4, <2>6, <2>7
  <2>9. \A d \in Requests : (DueTier(d) * Threshold <= counted)'
    <3>1. ASSUME NEW d \in Requests, d # c PROVE DueTier(d)' * Threshold <= counted'
      BY <1>0, <2>1, <2>4, <2>5, <3>1
    <3>. QED BY <2>8, <3>1
  <2>10. tier' * Threshold <= counted' /\ tier' * Threshold + fail'.n <= counted'
    BY <1>0, <2>1, <2>2, <2>4
  <2>. QED BY <2>9, <2>10 DEF TiersArePaid
<1>5. ASSUME NEW c \in Requests, ExpireFail(c) \/ GetTier(c) PROVE TiersArePaid'
  <2>1. /\ RequestStep(c) /\ fail'.n = fail.n /\ UNCHANGED <<tier, counted, raced>>
        /\ place[c] \notin {"setlock", "delfail"} /\ place'[c] \notin {"setlock", "delfail"}
    BY <1>5, RecordingMoves DEF RequestStep, Judge
  <2>2. DueTier(c)' = DueTier(c)
    BY <1>0, <1>5, RecordingMoves DEF DueTier, Judge
  <2>3. TiersArePaid
    BY <2>1
  <2>4. \A d \in Requests : DueTier(d)' = DueTier(d)
    BY <1>1, <2>1, <2>2
  <2>5. (\A d \in Requests : place'[d] \notin {"setlock", "delfail"})
         => \A d \in Requests : place[d] \notin {"setlock", "delfail"}
    BY <2>1, RequestsApart
  <2>. QED BY <2>1, <2>3, <2>4, <2>5 DEF TiersArePaid
<1>6. ASSUME NEW c \in Requests, SetTier(c) PROVE TiersArePaid'
  <2>1. /\ RequestStep(c) /\ place[c] = "settier" /\ place'[c] = "setlock"
        /\ tier' = read[c] /\ UNCHANGED <<counted, raced>>
    BY <1>6, RecordingMoves DEF RequestStep
  <2>2. OneRecorder /\ TiersArePaid
    BY <2>1
  <2>3. tier' = DueTier(c)
    BY <2>1 DEF DueTier
  <2>4. ASSUME NEW d \in Requests PROVE DueTier(d)' = tier'
    <3>1. place'[d] \notin {"expire", "tier", "settier"}
      BY <2>1, <2>2, RequestsApart DEF OneRecorder, Recording
    <3>. QED BY <3>1 DEF DueTier
  <2>5. tier' * Threshold <= counted'
    BY <2>1, <2>2, <2>3 DEF TiersArePaid
  <2>6. \A d \in Requests : (DueTier(d) * Threshold <= counted)'
    BY <2>4, <2>5
  <2>. QED BY <2>1, <2>5, <2>6 DEF TiersArePaid
<1>7. ASSUME NEW c \in Requests, SetLock(c) PROVE TiersArePaid'
  <2>1. /\ RequestStep(c) /\ place[c] = "setlock" /\ place'[c] = "delfail"
        /\ UNCHANGED <<fail, tier, counted, raced>>
    BY <1>7, RecordingMoves DEF RequestStep
  <2>2. DueTier(c)' = DueTier(c)
    BY <2>1 DEF DueTier
  <2>. QED BY <1>2, <2>1, <2>2
<1>8. ASSUME NEW c \in Requests, DelFail(c) PROVE TiersArePaid'
  <2>1. /\ RequestStep(c) /\ place[c] = "delfail" /\ place'[c] = "idle"
        /\ fail'.n = 0 /\ UNCHANGED <<tier, counted, raced>>
    BY <1>0, <1>8, RecordingMoves DEF RequestStep
  <2>2. TiersArePaid
    BY <2>1
  <2>3. DueTier(c)' = DueTier(c)
    BY <2>1 DEF DueTier
  <2>4. \A d \in Requests : DueTier(d)' = DueTier(d)
    BY <1>1, <2>1, <2>3
  <2>5. tier' * Threshold <= counted'
    BY <2>1, <2>2 DEF TiersArePaid
  <2>6. tier' * Threshold + fail'.n <= counted'
    BY <1>0, <2>1, <2>5
  <2>. QED BY <2>1, <2>2, <2>4, <2>5, <2>6 DEF TiersArePaid
<1>9. ASSUME NEW c \in Requests, Reset(c) PROVE TiersArePaid'
  <2>1. /\ RequestStep(c) /\ place'[c] = "open" /\ Others(c, Recording) = {}
        /\ fail'.n = 0 /\ tier' = 0 /\ counted' = 0
    BY <1>0, <1>9, RecordingMoves DEF Reset, RequestStep
  <2>2. ASSUME NEW d \in Requests PROVE DueTier(d)' = 0
    <3>1. place'[d] \notin Recording
      BY <2>1, RequestsApart DEF Others, Recording
    <3>. QED BY <2>1, <3>1 DEF DueTier, Recording
  <2>3. 0 * Threshold = 0
    BY Products
  <2>4. \A d \in Requests : (DueTier(d) * Threshold <= counted)'
    BY <2>1, <2>2, <2>3
  <2>. QED BY <2>1, <2>3, <2>4 DEF TiersArePaid
<1>10. CASE RequestCode \/ TtlOver \/ CodeExpires \/ UNCHANGED signInVars
  <2>1. /\ UNCHANGED <<place, read, counted, raced>>
        /\ fail'.n <= fail.n /\ (tier' = tier \/ tier' = 0)
    BY <1>0, <1>10, TimeIsQuiet
  <2>2. TiersArePaid
    BY <2>1
  <2>3. ASSUME NEW d \in Requests
        PROVE  /\ DueTier(d) \in Nat /\ DueTier(d)' \in Nat /\ DueTier(d)' <= DueTier(d)
    BY <1>0, <2>1 DEF DueTier
  <2>4. tier' * Threshold \in Nat /\ tier' * Threshold <= tier * Threshold
    <3>1. CASE tier' = tier
      BY <1>0, <3>1
    <3>2. CASE tier' = 0
      BY <1>0, <3>2, Products
    <3>. QED BY <2>1, <3>1, <3>2
  <2>5. ASSUME NEW d \in Requests PROVE DueTier(d)' * Threshold <= counted'
    <3>1. /\ DueTier(d)' * Threshold \in Nat /\ DueTier(d) * Threshold \in Nat
          /\ DueTier(d)' * Threshold <= DueTier(d) * Threshold
      <4>. DEFINE a == DueTier(d)'
                  b == DueTier(d)
      <4>1. a \in Nat /\ b \in Nat /\ a <= b
        BY <2>3
      <4>. HIDE DEF a, b
      <4>2. a * Threshold \in Nat /\ b * Threshold \in Nat /\ a * Threshold <= b * Threshold
        BY <4>1, Products
      <4>. QED BY <4>2 DEF a, b
    <3>2. DueTier(d) * Threshold <= counted
      BY <2>2 DEF TiersArePaid
    <3>. QED BY <1>0, <2>1, <3>1, <3>2
  <2>6. tier' * Threshold <= counted'
    <3>1. tier * Threshold <= counted
      BY <2>2 DEF TiersArePaid
    <3>. DEFINE old == tier * Threshold
                new == tier' * Threshold
    <3>2. old \in Nat /\ new \in Nat /\ new <= old /\ old <= counted
      BY <1>0, <2>4, <3>1
    <3>. HIDE DEF old, new
    <3>3. new <= counted'
      BY <1>0, <2>1, <3>2
    <3>. QED BY <3>3 DEF new
  <2>7. (\A d \in Requests : place[d] \notin {"setlock", "delfail"})
         => tier' * Threshold + fail'.n <= counted'
    <3>. SUFFICES ASSUME \A d \in Requests : place[d] \notin {"setlock", "delfail"}
                  PROVE  tier' * Threshold + fail'.n <= counted'
      OBVIOUS
    <3>1. tier * Threshold + fail.n <= counted
      BY <2>2 DEF TiersArePaid
    <3>. QED BY <1>0, <2>1, <2>4, <3>1
  <2>. QED BY <2>1, <2>5, <2>6, <2>7 DEF TiersArePaid
<1>. QED BY <1>3, <1>4, <1>5, <1>6, <1>7, <1>8, <1>9, <1>10 DEF SignInNext, Elsewhere

LEMMA LockoutStep ==
    ASSUME SignInTypeOK, LockoutInv, [SignInNext]_signInVars, SignInTypeOK'
    PROVE  LockoutInv'
<1>. SUFFICES ASSUME ~broken' PROVE LockoutInv'
  BY DEF LockoutInv
<1>1. ~broken
  BY BrokenStays
<1>2. ThresholdIsSeen' /\ TtlIsComing'
  BY <1>1, ThresholdStep, TtlStep DEF LockoutInv
<1>3. (raced' \/ OneRecorder') /\ (raced' \/ TiersArePaid')
  BY <1>1, RecorderStep, TiersStep DEF LockoutInv
<1>. QED BY <1>2, <1>3 DEF LockoutInv

\* The invariant behind the theorems about signing in.
THEOREM SignInInvariant == SignInSpec => [](SignInTypeOK /\ CodeInv /\ LockoutInv)
<1>1. SignInInit => SignInTypeOK /\ CodeInv /\ LockoutInv
  BY SignInInitInv
<1>2. SignInTypeOK /\ CodeInv /\ LockoutInv /\ [SignInNext]_signInVars
        => (SignInTypeOK /\ CodeInv /\ LockoutInv)'
  BY SignInTypeStep, CodeStep, LockoutStep
<1>. QED BY <1>1, <1>2, PTL DEF SignInSpec

\* The rows, the keys and the requests keep their types; no request acts on a
\* code row it has not read.
THEOREM SignInTypeCorrect == SignInSpec => []SignInTypeOK
BY SignInInvariant, PTL

\* verify_otp: one code opens one session and takes no more wrong entries than
\* it has attempts, unless two calls held it at the same time, for every number
\* of requests and of codes.
THEOREM CodesAreSingleUse == SignInSpec => []SingleUse
<1>1. SignInTypeOK /\ CodeInv => SingleUse
  <2>. SUFFICES ASSUME SignInTypeOK, CodeInv, NEW k \in Codes \ crowded
                PROVE  opened[k] <= 1 /\ wrongs[k] <= OtpMax
    BY DEF SingleUse
  <2>1. opened[k] = IF k \in consumed THEN 1 ELSE 0
    BY DEF CodeInv
  <2>2. wrongs[k] = attempts[k] /\ attempts[k] <= OtpMax
    BY DEF CodeInv
  <2>. QED BY <2>1, <2>2
<1>. QED BY <1>1, SignInInvariant, PTL

\* services/authguard, for every threshold and every number of requests: unless a
\* call of record_failure broke off, a count that has reached the threshold is on
\* its way to the lock and a count without a ttl on its way to one; unless two
\* calls raced, either, every tier is paid for by a threshold of failures.
THEOREM LockoutFollows == SignInSpec => []LockoutFollowsFailures
<1>1. LockoutInv => LockoutFollowsFailures
  BY DEF LockoutInv, LockoutFollowsFailures, ThresholdIsSeen, Locking, Recording,
         TtlIsComing, TiersArePaid
<1>. QED BY <1>1, SignInInvariant, PTL
===============================================================================
