----------------------------- MODULE AuthTokens -----------------------------
(***************************************************************************)
(* AuthService.refresh and AuthService.logout over SessionsService, with   *)
(* the token a client really holds.  login mints a JWT refresh token,      *)
(* inserts a session row with a random token of its own, drops that token  *)
(* and answers with the JWT; so the token a client presents later matches  *)
(* no row.  refresh therefore ends at its validation, and the rest of it   *)
(* (lines 111 to 140) is never reached; logout revokes nothing, audits     *)
(* LOGOUT and answers that the session is closed.                          *)
(***************************************************************************)
EXTENDS Sessions

VARIABLES
    asked,              \* which login's JWT a call presents, 0 for none
    refused,            \* logins whose JWT refresh answered with 401
    loggedOut           \* logins whose logout was audited and answered

tokenVars == <<asked, refused, loggedOut>>
authVars == <<sessionVars, tokenVars>>

\* The JWT login i answered with.  Its signature and expiry are its own.
Jwt(i) == <<"jwt", i>>

AuthInit ==
    /\ SessionsInit
    /\ asked = [c \in Calls |-> 0]
    /\ refused = {}
    /\ loggedOut = {}

\* The end of a login without MFA.
Login(u) == Create(u) /\ UNCHANGED tokenVars

\* verifyRefreshToken accepts login i's JWT until it expires; then
\* validateRefreshToken(payload.sub, token).
Refresh(c, i) ==
    /\ rows[i].expires > now
    /\ Validate(c, rows[i].user, Jwt(i))
    /\ asked' = [asked EXCEPT ![c] = i]
    /\ UNCHANGED <<refused, loggedOut>>

RefreshAnswer(c) ==
    /\ Answer(c)
    /\ refused' = IF answer'.valid THEN refused ELSE refused \cup {asked[c]}
    /\ asked' = [asked EXCEPT ![c] = 0]
    /\ UNCHANGED loggedOut

\* logout takes the user from a header, whoever that is, and the token from the
\* body.
Logout(c, u, i) ==
    /\ Revoke(c, u, Jwt(i))
    /\ asked' = [asked EXCEPT ![c] = i]
    /\ UNCHANGED <<refused, loggedOut>>

LogoutAnswer(c) ==
    /\ RevokeNothing(c)
    /\ loggedOut' = loggedOut \cup {asked[c]}
    /\ asked' = [asked EXCEPT ![c] = 0]
    /\ UNCHANGED refused

AuthFail(c) ==
    /\ CallFail(c)
    /\ asked' = [asked EXCEPT ![c] = 0]
    /\ UNCHANGED <<refused, loggedOut>>

AuthNext ==
    \/ \E u \in Accounts : Login(u)
    \/ \E c \in Calls :
           \/ \E i \in Ids : Refresh(c, i) \/ \E u \in Accounts : Logout(c, u, i)
           \/ RefreshAnswer(c) \/ LogoutAnswer(c) \/ AuthFail(c)
    \/ SessionTick /\ UNCHANGED tokenVars

AuthSpec == AuthInit /\ [][AuthNext]_authVars

-----------------------------------------------------------------------------
\* "should refresh tokens with valid refresh token" (auth.service.spec.ts:147):
\* the refresh token of a login that was not logged out is accepted until it
\* expires.
RefreshAccepted ==
    \A i \in refused : i \in loggedOut \/ rows[i].expires <= now

=============================================================================
