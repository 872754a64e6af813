------------------------------- MODULE Login -------------------------------
(***************************************************************************)
(* AuthService.login, step by step between its awaits, with the lockout    *)
(* counter it keeps through UsersService, the temporary token it hands to  *)
(* MFA users, the session row it inserts for the others, and the audit row *)
(* each way out of it leaves.                                              *)
(*                                                                         *)
(*   found -> (locked) ------------------------------------------> idle    *)
(*   found -> select -> update -> auditFailed ---------------------> idle  *)
(*                             -> issueToken -> auditPending ------> idle  *)
(*                             -> createSession -> auditSuccess ---> idle  *)
(***************************************************************************)
EXTENDS Requests, Sequences, FiniteSets

CONSTANTS
    TempTtl,            \* life of a temporary token (5 minutes)
    MaxLogins,          \* bound: logins that ever start, for each user
    MaxUnknown          \* bound: logins with an e-mail nobody has

ASSUME LoginAssumption ==
    /\ TempTtl \in Nat \ {0}
    /\ MaxLogins \in Nat
    /\ MaxUnknown \in Nat
    /\ IsFiniteSet(Slots)

VARIABLES
    issued,             \* issued[t] is the user temporary token t was drawn for
    sessions,           \* rows of the table "sessions", by user
    audit               \* rows of the table "audit_logs", by user and event

\* What only the properties look at.
VARIABLES
    wrongs,             \* logins whose password was found wrong, by user,
                        \* since the last unlock that met nobody at work
    streak,             \* wrong passwords saved since the counter was last reset
    started, failed     \* logins begun, and those a failure ended

ghostVars == <<wrongs, streak, started, failed>>
loginVars == <<issued, sessions, audit, ghostVars>>
vars == <<now, users, slotVars, loginVars>>

\* Audit rows and logins of an unknown e-mail have no user.
Callers == Accounts \cup {NoUser}

LoginEvents == {"LOGIN_LOCKED", "LOGIN_FAILED", "MFA_PENDING", "LOGIN_SUCCESS"}

LoginPlaces == {"found", "select", "update", "auditFailed", "issueToken",
                "auditPending", "createSession", "auditSuccess"}

LoginInit ==
    /\ issued = <<>>
    /\ sessions = [u \in Accounts |-> 0]
    /\ audit = [u \in Callers |-> [e \in LoginEvents |-> 0]]
    /\ wrongs = [u \in Accounts |-> 0]
    /\ streak = [u \in Accounts |-> 0]
    /\ started = [u \in Callers |-> 0]
    /\ failed = [u \in Callers |-> 0]

Init == RequestsInit /\ LoginInit

-----------------------------------------------------------------------------
Audit(u, event) == audit' = [audit EXCEPT ![u][event] = @ + 1]

Bump(counter, u) == [counter EXCEPT ![u] = @ + 1]

\* findByEmail of a known user.  Whether the password is the right one is the
\* client's choice and is fixed here; the next step looks at it.
Receive(s, u, right) ==
    /\ At(s, "idle")
    /\ started[u] < MaxLogins
    /\ Find(s, u, "found")
    /\ ok' = [ok EXCEPT ![s] = right]
    /\ started' = Bump(started, u)
    /\ UNCHANGED <<now, users, dirty, issued, sessions, audit, wrongs, streak,
                   failed>>

\* findByEmail returns null: an audit row without a user, and 401.
UnknownEmail(s) ==
    /\ At(s, "idle")
    /\ started[NoUser] < MaxUnknown
    /\ started' = Bump(started, NoUser)
    /\ Audit(NoUser, "LOGIN_FAILED")
    /\ UNCHANGED <<now, users, slotVars, issued, sessions, wrongs, streak, failed>>

\* Faulty: audits the refusal and goes on (the throw is missing).
RejectLockedGoesOn(s) ==
    /\ At(s, "found")
    /\ Locked(entity[s], now)
    /\ Audit(who[s], "LOGIN_LOCKED")
    /\ GoTo(s, "auditFailed")
    /\ UNCHANGED <<now, users, who, entity, dirty, ok, issued, sessions, ghostVars>>

\* The entity read says the account is locked.
RejectLocked(s) ==
    /\ At(s, "found")
    /\ Locked(entity[s], now)
    /\ Audit(who[s], "LOGIN_LOCKED")
    /\ Finish(s)
    /\ UNCHANGED <<now, users, issued, sessions, ghostVars>>

\* Faulty: does not look at the lock.
WrongPasswordWhileLocked(s) ==
    /\ At(s, "found")
    /\ ~ ok[s]
    /\ entity' = [entity EXCEPT ![s] = IncrementFailed(@, now)]
    /\ wrongs' = Bump(wrongs, who[s])
    /\ GoTo(s, "select")
    /\ UNCHANGED <<now, users, who, dirty, ok, issued, sessions, audit, streak,
                   started, failed>>

\* incrementFailedAttempts up to its save.
WrongPassword(s) ==
    /\ At(s, "found")
    /\ ~ Locked(entity[s], now)
    /\ ~ ok[s]
    /\ entity' = [entity EXCEPT ![s] = IncrementFailed(@, now)]
    /\ wrongs' = Bump(wrongs, who[s])
    /\ GoTo(s, "select")
    /\ UNCHANGED <<now, users, who, dirty, ok, issued, sessions, audit, streak,
                   started, failed>>

\* resetFailedAttempts up to its save.
RightPassword(s) ==
    /\ At(s, "found")
    /\ ~ Locked(entity[s], now)
    /\ ok[s]
    /\ entity' = [entity EXCEPT ![s] = ResetFailed(@)]
    /\ GoTo(s, "select")
    /\ UNCHANGED <<now, users, who, dirty, ok, loginVars>>

LoginSelect(s) == SaveSelect(s, "select", "update") /\ UNCHANGED loginVars

\* Faulty: audits the success before there is a session.
AfterSaveNoSession(s) == IF ~ ok[s] THEN "auditFailed"
                         ELSE IF entity[s].mfaEnabled THEN "issueToken"
                         ELSE "auditSuccess"

\* After the save the handler branches on what it found out and on the
\* mfaEnabled of the entity it read at the start.
AfterSave(s) == IF ~ ok[s] THEN "auditFailed"
                ELSE IF entity[s].mfaEnabled THEN "issueToken"
                ELSE "createSession"

LoginUpdate(s) ==
    /\ At(s, "update")
    /\ SaveUpdate(s)
    /\ GoTo(s, AfterSave(s))
    /\ streak' = [streak EXCEPT ![who[s]] = IF ok[s] THEN 0 ELSE @ + 1]
    /\ dirty' = [dirty EXCEPT ![s] = {}]
    /\ UNCHANGED <<now, who, entity, ok, issued, sessions, audit, wrongs,
                   started, failed>>

AuditFailed(s) ==
    /\ At(s, "auditFailed")
    /\ Audit(who[s], "LOGIN_FAILED")
    /\ Finish(s)
    /\ UNCHANGED <<now, users, issued, sessions, ghostVars>>

\* Faulty: hands out the token drawn last once more.
IssueTokenStale(s) ==
    /\ At(s, "issueToken")
    /\ issued' = Append(issued, who[s])
    /\ UpdateRow(s, SetTempToken(users[who[s]], Len(issued), now + TempTtl))
    /\ GoTo(s, "auditPending")
    /\ UNCHANGED <<now, who, entity, dirty, ok, sessions, audit, ghostVars>>

\* setMfaTempToken with a fresh token.
IssueToken(s) ==
    /\ At(s, "issueToken")
    /\ issued' = Append(issued, who[s])
    /\ UpdateRow(s, SetTempToken(users[who[s]], Len(issued) + 1, now + TempTtl))
    /\ GoTo(s, "auditPending")
    /\ UNCHANGED <<now, who, entity, dirty, ok, sessions, audit, ghostVars>>

AuditPending(s) ==
    /\ At(s, "auditPending")
    /\ Audit(who[s], "MFA_PENDING")
    /\ Finish(s)
    /\ UNCHANGED <<now, users, issued, sessions, ghostVars>>

\* createRefreshToken; the token it returns is dropped.
CreateSession(s) ==
    /\ At(s, "createSession")
    /\ sessions' = Bump(sessions, who[s])
    /\ GoTo(s, "auditSuccess")
    /\ UNCHANGED <<now, users, who, entity, dirty, ok, issued, audit, ghostVars>>

AuditSuccess(s) ==
    /\ At(s, "auditSuccess")
    /\ Audit(who[s], "LOGIN_SUCCESS")
    /\ Finish(s)
    /\ UNCHANGED <<now, users, issued, sessions, ghostVars>>

LoginFail(s) ==
    /\ pc[s] \in LoginPlaces
    /\ Fail(s)
    /\ failed' = Bump(failed, who[s])
    /\ UNCHANGED <<issued, sessions, audit, wrongs, streak, started>>

\* The handler's own steps, from the row it read to its answer.
LoginStep(s) ==
    \/ RejectLocked(s) \/ WrongPassword(s) \/ RightPassword(s)
    \/ LoginSelect(s) \/ LoginUpdate(s)
    \/ AuditFailed(s)
    \/ IssueToken(s) \/ AuditPending(s)
    \/ CreateSession(s) \/ AuditSuccess(s)

LoginNext ==
    \E s \in Slots :
        \/ \E u \in Accounts, right \in BOOLEAN : Receive(s, u, right)
        \/ UnknownEmail(s)
        \/ LoginStep(s)
        \/ LoginFail(s)

\* An administrator's request; with one slot it waits for the login to end.
\* When nobody holds an entity of the user the failures are forgotten for good.
Unlock(u, undisturbed) ==
    /\ \E s \in Slots : At(s, "idle")
    /\ AdminUnlock(u)
    /\ streak' = [streak EXCEPT ![u] = 0]
    /\ wrongs' = IF undisturbed THEN [wrongs EXCEPT ![u] = 0] ELSE wrongs
    /\ UNCHANGED <<issued, sessions, audit, started, failed>>

Next ==
    \/ LoginNext
    \/ \E u \in Accounts : Unlock(u, Quiet(u))
    \/ Tick /\ UNCHANGED loginVars

Spec == Init /\ [][Next]_vars

-----------------------------------------------------------------------------
LoginTypeOK(places) ==
    /\ RequestsTypeOK(places)
    /\ issued \in Seq(Accounts)
    /\ sessions \in [Accounts -> Nat]
    /\ audit \in [Callers -> [LoginEvents -> Nat]]
    /\ wrongs \in [Accounts -> Nat]
    /\ streak \in [Accounts -> Nat]
    /\ started \in [Callers -> Nat]
    /\ failed \in [Callers -> Nat]

TypeOK == LoginTypeOK(LoginPlaces \cup {"idle"})

\* A copy of u's row, in the table or in a handler's hands, that counts no
\* more failures than there were and is locked only after enough of them.
Backed(u, row) ==
    /\ row.failedAttempts <= wrongs[u]
    /\ row.lockedUntil # Null => wrongs[u] >= LockThreshold

\* The lockout never invents failures: however the requests interleave, fail
\* half way and write stale columns back over newer ones, no row counts more
\* failed passwords than were really presented, and an account is locked only
\* if at least LockThreshold wrong passwords were (incrementFailedAttempts,
\* resetFailedAttempts and the whole-entity save they share).  An administrator's
\* unlock starts the count afresh when no request for the user is in progress:
\* then nothing brings the old failures back.  One that lands in the middle of a
\* request may be undone by it.
LockBacked == \A u \in Accounts : Backed(u, users[u])

\* The same of every entity a handler holds: what makes LockBacked inductive.
EntitiesBacked ==
    \A s \in Slots : who[s] \in Accounts => Backed(who[s], entity[s])

\* A lock ends: no row is locked for longer than one lock length from now, and
\* a save that arrives late cannot prolong it (the 15 minutes are fixed when
\* the entity is changed, not when it is written).
LockBounded == \A u \in Accounts : users[u].lockedUntil <= now + LockTicks

\* The same of every entity a handler holds: what makes LockBounded inductive.
EntitiesBounded == \A s \in Slots : entity[s].lockedUntil <= now + LockTicks

\* The temporary tokens drawn for u, as numbers of those drawn.
Drawn(u, tokens) == {t \in 1 .. Len(tokens) : tokens[t] = u}

\* The audit trail never claims more than happened: each LOGIN_SUCCESS has its
\* session row and each MFA_PENDING its temporary token, whatever requests
\* fail in between (login writes the effect before the audit row).
AuditBacked ==
    \A u \in Accounts :
        /\ audit[u]["LOGIN_SUCCESS"] <= sessions[u]
        /\ audit[u]["MFA_PENDING"] <= Cardinality(Drawn(u, issued))

Running(u) == {s \in Slots : ~ At(s, "idle") /\ who[s] = u}

\* Every login leaves exactly one audit row: those that have begun are the
\* audited, the failed and the ones in progress, none counted twice.
\* (login's four ways out, each through one auditLogService.log.)
AuditComplete ==
    \A u \in Callers :
        started[u] = audit[u]["LOGIN_LOCKED"] + audit[u]["LOGIN_FAILED"]
                     + audit[u]["MFA_PENDING"] + audit[u]["LOGIN_SUCCESS"]
                     + failed[u] + Cardinality(Running(u))

\* The failure that reaches the threshold locks: once LockThreshold wrong
\* passwords in a row were saved, the account is locked
\* (incrementFailedAttempts).  True of one request at a time only: two that
\* read the same counter lose an increment.
LockAfterThreshold ==
    \A u \in Accounts :
        streak[u] >= LockThreshold => users[u].lockedUntil # Null

\* One request at a time, login implements the lockout of module Account: the
\* steps that save the counter are its WrongPassword and RightPassword, the
\* administrator's its Unlock, the others stutter.
Lockout == INSTANCE Account WITH
    time <- now,
    failures <- [u \in Accounts |-> users[u].failedAttempts],
    lockedUntil <- [u \in Accounts |-> users[u].lockedUntil]

ImplementsAccount == Lockout!AccountSpec

=============================================================================
