-------------------------------- MODULE MCAuth --------------------------------
(***************************************************************************)
(* A small instance of SignIn and Sessions for TLC.  The two share no      *)
(* variable, so a behaviour follows one of them and leaves the other where *)
(* it began.                                                               *)
(***************************************************************************)
EXTENDS SignIn, Sessions, TLC

AuthInit == SignInInit /\ SessionsInit

AuthNext ==
    \/ SessionsInit /\ SignInNext /\ UNCHANGED sessionVars
    \/ SignInInit /\ SessionsNext /\ UNCHANGED signInVars

AuthSpec == AuthInit /\ [][AuthNext]_<<signInVars, sessionVars>>

\* What a failure that broke off leaves behind in Redis is not followed further:
\* LockoutFollowsFailures claims nothing of it, and SingleUse is about PostgreSQL.
MCWhole == ~broken

\* Browsers are interchangeable, and so are the tabs of a browser, and requests,
\* for which the instance takes the same names as for the tabs.
MCSymmetry == Permutations(Devices) \cup Permutations(Tabs)
===============================================================================
