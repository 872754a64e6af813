------------------------------ MODULE Account ------------------------------
(***************************************************************************)
(* The lockout UsersService and AuthService.login promise, with no         *)
(* request, entity or save in it: a counter of failed passwords and a lock *)
(* per user, each password checked in one step.                            *)
(***************************************************************************)
EXTENDS Naturals

CONSTANTS Accounts, LockThreshold, LockTicks

VARIABLES time, failures, lockedUntil

accountVars == <<time, failures, lockedUntil>>

AccountInit ==
    /\ time = 1
    /\ failures = [u \in Accounts |-> 0]
    /\ lockedUntil = [u \in Accounts |-> 0]

Clear(u) ==
    /\ failures' = [failures EXCEPT ![u] = 0]
    /\ lockedUntil' = [lockedUntil EXCEPT ![u] = 0]
    /\ UNCHANGED time

Open(u) == lockedUntil[u] <= time

\* A wrong password counts; from the threshold on it locks for one length of
\* the lock, which starts after the previous lock ended and not later than now.
WrongPassword(u) ==
    /\ Open(u)
    /\ failures' = [failures EXCEPT ![u] = @ + 1]
    /\ IF failures[u] + 1 >= LockThreshold
       THEN \E end \in (lockedUntil[u] + LockTicks) .. (time + LockTicks) :
                lockedUntil' = [lockedUntil EXCEPT ![u] = end]
       ELSE UNCHANGED lockedUntil
    /\ UNCHANGED time

RightPassword(u) == Open(u) /\ Clear(u)

Unlock(u) == Clear(u)

Pass ==
    /\ time' = time + 1
    /\ UNCHANGED <<failures, lockedUntil>>

AccountNext ==
    \/ \E u \in Accounts : WrongPassword(u) \/ RightPassword(u) \/ Unlock(u)
    \/ Pass

AccountSpec == AccountInit /\ [][AccountNext]_accountVars

=============================================================================
