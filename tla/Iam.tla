-------------------------------- MODULE Iam --------------------------------
(***************************************************************************)
(* The account service: logins, the MFA endpoints and the administrator's  *)
(* endpoints, interleaved over one table.  Each slot serves one request at *)
(* a time, of any kind.  All of them write the same rows, two of them by   *)
(* saving a whole entity, so what one does can be undone by another that   *)
(* read earlier.                                                           *)
(***************************************************************************)
EXTENDS Login, Mfa

iamVars == <<now, users, slotVars, loginVars, mfaVars>>

IamInit == RequestsInit /\ LoginInit /\ MfaInit

\* unlock-user; with one slot it waits for the request in progress.
IamUnlock(u) ==
    /\ Unlock(u, Quiet(u))
    /\ mfaStreak' = [mfaStreak EXCEPT ![u] = 0]
    /\ mfaWrongs' = IF Quiet(u) THEN [mfaWrongs EXCEPT ![u] = 0] ELSE mfaWrongs
    /\ UNCHANGED <<askVars, secrets, asks, granted>>

\* reset-user: the columns it leaves alone are the biometric ones.
IamReset(u) ==
    /\ \E s \in Slots : At(s, "idle")
    /\ AdminReset(u)
    /\ streak' = [streak EXCEPT ![u] = 0]
    /\ mfaStreak' = [mfaStreak EXCEPT ![u] = 0]
    /\ wrongs' = IF Quiet(u) THEN [wrongs EXCEPT ![u] = 0] ELSE wrongs
    /\ mfaWrongs' = IF Quiet(u) THEN [mfaWrongs EXCEPT ![u] = 0] ELSE mfaWrongs
    /\ UNCHANGED <<issued, sessions, audit, started, failed,
                   askVars, secrets, asks, granted>>

IamNext ==
    \/ LoginNext /\ UNCHANGED mfaVars
    \/ MfaNext /\ UNCHANGED loginVars
    \/ \E u \in Accounts : IamUnlock(u) \/ IamReset(u)
    \/ Tick /\ UNCHANGED <<loginVars, mfaVars>>

IamSpec == IamInit /\ [][IamNext]_iamVars

\* A handler that is running is scheduled: the event loop and the database
\* answer every await in the end, with a value or with an error.
IamFairSpec ==
    /\ IamSpec
    /\ \A s \in Slots : WF_iamVars((LoginStep(s) /\ UNCHANGED mfaVars)
                                   \/ (MfaStep(s) /\ UNCHANGED loginVars))

-----------------------------------------------------------------------------
IamTypeOK ==
    /\ RequestsTypeOK(LoginPlaces \cup MfaPlaces \cup {"idle"})
    /\ issued \in Seq(Accounts)
    /\ MfaTypeOK

\* A temporary token in a row, or in a handler's hands, was drawn by a login of
\* that very user: no interleaving of saves moves a token from one account to
\* another (findByMfaTempToken decides who the bearer is by the row it is in).
TokenOfUser ==
    \A u \in Accounts :
        users[u].mfaTempToken # Null =>
            /\ users[u].mfaTempToken <= Len(issued)
            /\ issued[users[u].mfaTempToken] = u

\* Whoever presents a temporary token is granted the tokens of the user whose
\* password a login checked when it drew that token, and of nobody else; the token
\* in the row, when there is one, is that user's too.  A request that
\* presents none is not refused (findByMfaTempToken): it is served from a row that
\* it did not name, and all this says of it is whose tokens it gets.
GrantedToIssued ==
    \A i \in 1 .. Len(granted) :
        \A t \in {granted[i].presented, granted[i].token} \ {Null} :
            t <= Len(issued) /\ issued[t] = granted[i].user

\* A login revokes the temporary tokens of the logins before it: tokens are only
\* ever granted for the one issued last to the user (setMfaTempToken overwrites
\* the only column).  One request at a time only: the save of a request that read
\* the row earlier puts the older token back.
LatestTokenOnly ==
    [][granted' # granted =>
           LET grant == granted'[Len(granted')]
           IN  \A t \in 1 .. Len(issued) :
                   issued[t] = grant.user => t <= grant.token]_iamVars

\* Every request is answered, or fails.
RequestAnswered == \A s \in Slots : pc[s] # "idle" ~> pc[s] = "idle"

=============================================================================
