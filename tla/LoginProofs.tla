----------------------------- MODULE LoginProofs -----------------------------
(***************************************************************************)
(* Theorems about Login for every set of users, every number of concurrent *)
(* requests, every threshold and every bound.                              *)
(***************************************************************************)
EXTENDS Login, UsersProofs, FiniteSetTheorems, SequenceTheorems

-----------------------------------------------------------------------------
(* Types.                                                                  *)

USE DEF vars, slotVars, loginVars, ghostVars

\* What the modules that extend Login let logins and administrators do.  They have
\* more places than LoginPlaces, and forget the failures at an unlock more rarely.
Service ==
    \/ LoginNext
    \/ \E u \in Accounts, undisturbed \in BOOLEAN :
           (undisturbed => Quiet(u)) /\ Unlock(u, undisturbed)
    \/ Tick /\ UNCHANGED loginVars

LEMMA NextService == [Next]_vars => [Service]_vars
<1>1. \A u \in Accounts : Quiet(u) \in BOOLEAN
    BY DEF Quiet
<1> QED
    BY <1>1 DEF Next, Service

LEMMA TypeInit ==
    ASSUME NEW places, "idle" \in places, Init
    PROVE  LoginTypeOK(places)
BY NewRowType, MfaRowType
   DEF Init, RequestsInit, LoginInit, LoginTypeOK, RequestsTypeOK

\* What an action of slot s leaves of the types, if it only finishes s.
LEMMA FinishType ==
    ASSUME NEW places, "idle" \in places, LoginTypeOK(places),
           NEW s \in Slots, Finish(s), UNCHANGED <<now, users>>
    PROVE  RequestsTypeOK(places)'
BY NewRowType DEF LoginTypeOK, RequestsTypeOK, Finish

LEMMA AuditType ==
    ASSUME NEW places, LoginTypeOK(places), NEW u \in Callers, NEW e \in LoginEvents, Audit(u, e)
    PROVE  audit' \in [Callers -> [LoginEvents -> Nat]]
BY DEF LoginTypeOK, Audit

LEMMA BumpType ==
    ASSUME NEW S, NEW counter \in [S -> Nat], NEW u \in S
    PROVE  Bump(counter, u) \in [S -> Nat]
BY DEF Bump

LEMMA TypeNext ==
    ASSUME NEW places, LoginPlaces \cup {"idle"} \subseteq places,
           LoginTypeOK(places), [Service]_vars
    PROVE  LoginTypeOK(places)'
<1>1. ASSUME NEW s \in Slots, NEW u \in Accounts, NEW right \in BOOLEAN,
             Receive(s, u, right)
      PROVE  LoginTypeOK(places)'
    BY <1>1 DEF LoginTypeOK, RequestsTypeOK, Receive, Find, GoTo, Bump, LoginPlaces, Callers
<1>2. ASSUME NEW s \in Slots, UnknownEmail(s) PROVE LoginTypeOK(places)'
    <2>1. audit' \in [Callers -> [LoginEvents -> Nat]]
        BY <1>2, AuditType DEF UnknownEmail, Callers, LoginEvents
    <2>2. started' \in [Callers -> Nat]
        BY <1>2, BumpType DEF UnknownEmail, Callers, LoginTypeOK
    <2> QED
        BY <1>2, <2>1, <2>2 DEF LoginTypeOK, RequestsTypeOK, UnknownEmail
<1>3. ASSUME NEW s \in Slots, RejectLocked(s) PROVE LoginTypeOK(places)'
    BY <1>3, AuditType, FinishType DEF LoginTypeOK, RejectLocked, RequestsTypeOK, At,
       Callers, LoginEvents
<1>4. ASSUME NEW s \in Slots, WrongPassword(s) PROVE LoginTypeOK(places)'
    <2>1. who[s] \in Accounts
        BY <1>4 DEF LoginTypeOK, RequestsTypeOK, WrongPassword, At
    <2>2. IncrementFailed(entity[s], now) \in Row
        BY IncrementType DEF LoginTypeOK, RequestsTypeOK
    <2>3. entity' \in [Slots -> Row]
        BY <1>4, <2>2 DEF LoginTypeOK, RequestsTypeOK, WrongPassword
    <2>4. wrongs' \in [Accounts -> Nat]
        BY <1>4, <2>1, BumpType DEF LoginTypeOK, WrongPassword
    <2> QED
        BY <1>4, <2>1, <2>3, <2>4 DEF LoginTypeOK, RequestsTypeOK, WrongPassword, GoTo,
           LoginPlaces
<1>5. ASSUME NEW s \in Slots, RightPassword(s) PROVE LoginTypeOK(places)'
    BY <1>5, ResetType DEF LoginTypeOK, RequestsTypeOK, RightPassword, GoTo, At,
       LoginPlaces
<1>6. ASSUME NEW s \in Slots, LoginSelect(s) PROVE LoginTypeOK(places)'
    BY <1>6 DEF LoginTypeOK, RequestsTypeOK, LoginSelect, SaveSelect, Changed, GoTo, At,
       LoginPlaces
<1>7. ASSUME NEW s \in Slots, LoginUpdate(s) PROVE LoginTypeOK(places)'
    BY <1>7, MergeType DEF LoginTypeOK, RequestsTypeOK, LoginUpdate, SaveUpdate,
       AfterSave, GoTo, At, LoginPlaces
<1>8. ASSUME NEW s \in Slots, AuditFailed(s) PROVE LoginTypeOK(places)'
    BY <1>8, AuditType, FinishType DEF LoginTypeOK, AuditFailed, RequestsTypeOK, At,
       Callers, LoginEvents
<1>9. ASSUME NEW s \in Slots, IssueToken(s) PROVE LoginTypeOK(places)'
    <2>1. who[s] \in Accounts
        BY <1>9 DEF LoginTypeOK, RequestsTypeOK, IssueToken, At
    <2>2. issued' \in Seq(Accounts)
        BY <1>9, <2>1 DEF LoginTypeOK, IssueToken
    <2>3. SetTempToken(users[who[s]], Len(issued) + 1, now + TempTtl) \in Row
        BY <2>1, SetTempTokenType, LoginAssumption DEF LoginTypeOK, RequestsTypeOK
    <2>4. users' \in [Accounts -> Row]
        BY <1>9, <2>1, <2>3 DEF LoginTypeOK, RequestsTypeOK, IssueToken, UpdateRow
    <2> QED
        BY <1>9, <2>1, <2>2, <2>4 DEF LoginTypeOK, RequestsTypeOK, IssueToken, GoTo,
           LoginPlaces
<1>10. ASSUME NEW s \in Slots, AuditPending(s) PROVE LoginTypeOK(places)'
    BY <1>10, AuditType, FinishType DEF LoginTypeOK, AuditPending, RequestsTypeOK, At,
       Callers, LoginEvents
<1>11. ASSUME NEW s \in Slots, CreateSession(s) PROVE LoginTypeOK(places)'
    BY <1>11 DEF LoginTypeOK, RequestsTypeOK, CreateSession, Bump, GoTo, At, LoginPlaces
<1>12. ASSUME NEW s \in Slots, AuditSuccess(s) PROVE LoginTypeOK(places)'
    BY <1>12, AuditType, FinishType DEF LoginTypeOK, AuditSuccess, RequestsTypeOK, At,
       Callers, LoginEvents
<1>13. ASSUME NEW s \in Slots, LoginFail(s) PROVE LoginTypeOK(places)'
    <2>1. RequestsTypeOK(places)'
        BY <1>13, FinishType DEF LoginFail, Fail
    <2>2. failed' \in [Callers -> Nat]
        BY <1>13, BumpType DEF LoginFail, LoginTypeOK, RequestsTypeOK, Callers
    <2> QED
        BY <1>13, <2>1, <2>2 DEF LoginTypeOK, LoginFail
<1>14. ASSUME NEW u \in Accounts, NEW undisturbed \in BOOLEAN,
             undisturbed => Quiet(u), Unlock(u, undisturbed)
      PROVE  LoginTypeOK(places)'
    BY <1>14, UnlockType DEF LoginTypeOK, RequestsTypeOK, Unlock, AdminUnlock
<1>15. CASE Tick /\ UNCHANGED loginVars
    BY <1>15 DEF LoginTypeOK, RequestsTypeOK, Tick
<1>16. CASE UNCHANGED vars
    BY <1>16 DEF LoginTypeOK, RequestsTypeOK
<1> QED
    BY <1>1, <1>2, <1>3, <1>4, <1>5, <1>6, <1>7, <1>8, <1>9, <1>10, <1>11,
       <1>12, <1>13, <1>14, <1>15, <1>16 DEF Service, LoginNext, LoginStep

\* Every reachable state is well typed (login's handlers and the two kinds of
\* write they use).
THEOREM TypeCorrect == Spec => []TypeOK
<1>1. Init => TypeOK
    BY TypeInit DEF TypeOK
<1>2. TypeOK /\ [Next]_vars => TypeOK'
    BY TypeNext, NextService DEF TypeOK
<1> QED
    BY <1>1, <1>2, PTL DEF Spec

-----------------------------------------------------------------------------
(* No lock without failures.                                               *)

\* The strengthening: the row in the table and every copy of it that a handler
\* holds count no more than happened.  A save mixes columns of the two, so the
\* mixture does not either, whichever columns it found changed.
BackedInv == LockBacked /\ EntitiesBacked

LEMMA BackedInit == Init => BackedInv
BY RequestAssumption
   DEF Init, RequestsInit, LoginInit, BackedInv, LockBacked, EntitiesBacked, Backed,
       NewRow, Assign, Columns, Null

\* Backed looks at two columns and at the ghost counter only.
LEMMA BackedColumns ==
    ASSUME NEW u, NEW row, NEW other, Backed(u, row),
           other.failedAttempts = row.failedAttempts,
           other.lockedUntil = row.lockedUntil
    PROVE  Backed(u, other)
BY DEF Backed

\* A cleared row is backed by anything.
LEMMA BackedCleared ==
    ASSUME NEW places, LoginTypeOK(places), NEW u \in Accounts, NEW row,
           row.failedAttempts = 0, row.lockedUntil = Null
    PROVE  Backed(u, row)
BY DEF LoginTypeOK, Backed

\* When rows are cleared, the failures of users nobody works for are forgotten.
Cleared(row) == row.failedAttempts = 0 /\ row.lockedUntil = Null

LEMMA BackedForgotten ==
    ASSUME NEW places, LoginTypeOK(places), BackedInv,
           \A u \in Accounts : users'[u] = users[u] \/ Cleared(users'[u]),
           \A u \in Accounts :
               \/ wrongs'[u] = wrongs[u]
               \/ Quiet(u) /\ Cleared(users'[u]) /\ wrongs'[u] = 0,
           UNCHANGED <<who, entity>>
    PROVE  BackedInv'
<1>1. \A u \in Accounts : wrongs[u] \in Nat /\ wrongs'[u] \in Nat
    BY DEF LoginTypeOK
<1>2. LockBacked'
    BY <1>1, ThresholdAssumption DEF BackedInv, LockBacked, Backed, Cleared
<1>3. \A s \in Slots : who[s] \in Accounts => wrongs'[who[s]] = wrongs[who[s]]
    BY DEF Quiet
<1>4. EntitiesBacked'
    BY <1>3 DEF BackedInv, EntitiesBacked, Backed
<1> QED
    BY <1>2, <1>4 DEF BackedInv

\* A mixture of two backed rows is backed.
LEMMA BackedMerge ==
    ASSUME NEW u, NEW row, NEW ent, NEW cols,
           Backed(u, row), Backed(u, ent)
    PROVE  Backed(u, Merge(row, ent, cols))
BY MergeColumns DEF Backed

LEMMA BackedFinish ==
    ASSUME NEW places, LoginTypeOK(places), BackedInv, NEW s \in Slots, Finish(s),
           UNCHANGED <<users, wrongs>>
    PROVE  BackedInv'
BY RequestAssumption
   DEF LoginTypeOK, RequestsTypeOK, BackedInv, LockBacked, EntitiesBacked, Backed, Finish

LEMMA BackedNext ==
    ASSUME NEW places, LoginTypeOK(places), BackedInv, [Service]_vars
    PROVE  BackedInv'
<1> USE DEF BackedInv, LockBacked, EntitiesBacked
<1>1. ASSUME NEW s \in Slots, NEW u \in Accounts, NEW right \in BOOLEAN,
             Receive(s, u, right)
      PROVE  BackedInv'
    BY <1>1 DEF LoginTypeOK, RequestsTypeOK, Receive, Find, Backed
<1>2. ASSUME NEW s \in Slots, UnknownEmail(s) PROVE BackedInv'
    BY <1>2 DEF UnknownEmail, Backed
<1>3. ASSUME NEW s \in Slots, RejectLocked(s) PROVE BackedInv'
    BY <1>3, BackedFinish DEF RejectLocked
<1>4. ASSUME NEW s \in Slots, WrongPassword(s) PROVE BackedInv'
    <2> DEFINE w == who[s]
               ent == IncrementFailed(entity[s], now)
    <2>1. w \in Accounts
        BY <1>4 DEF LoginTypeOK, RequestsTypeOK, WrongPassword, At
    <2>2. wrongs' = [wrongs EXCEPT ![w] = @ + 1]
        BY <1>4 DEF WrongPassword, Bump
    <2>3. \A u \in Accounts : wrongs'[u] \in Nat /\ wrongs[u] \in Nat
                              /\ wrongs'[u] >= wrongs[u]
        BY <2>1, <2>2 DEF LoginTypeOK
    <2>4. wrongs'[w] = wrongs[w] + 1
        BY <2>1, <2>2 DEF LoginTypeOK
    <2>5. ent.failedAttempts <= wrongs'[w]
        <3>1. entity[s].failedAttempts <= wrongs[w] /\ entity[s].failedAttempts \in Nat
            BY <2>1 DEF LoginTypeOK, RequestsTypeOK, Backed, Row
        <3>2. ent.failedAttempts = entity[s].failedAttempts + 1
            BY IncrementColumns DEF LoginTypeOK, RequestsTypeOK
        <3> QED
            BY <3>1, <3>2, <2>1, <2>3, <2>4
    <2>6. ent.lockedUntil # Null => wrongs'[w] >= LockThreshold
        <3>1. CASE entity[s].failedAttempts + 1 >= LockThreshold
            <4>1. ent.failedAttempts = entity[s].failedAttempts + 1
                BY IncrementColumns DEF LoginTypeOK, RequestsTypeOK
            <4>2. entity[s].failedAttempts \in Nat
                BY DEF LoginTypeOK, RequestsTypeOK, Row
            <4> QED
                BY <3>1, <4>1, <4>2, <2>1, <2>3, <2>5, ThresholdAssumption
        <3>2. CASE ~ (entity[s].failedAttempts + 1 >= LockThreshold)
            <4>1. ent.lockedUntil = entity[s].lockedUntil
                BY <3>2, IncrementColumns DEF LoginTypeOK, RequestsTypeOK
            <4>2. entity[s].lockedUntil # Null => wrongs[w] >= LockThreshold
                BY <2>1 DEF Backed
            <4> QED
                BY <4>1, <4>2, <2>1, <2>3, ThresholdAssumption
        <3> QED
            BY <3>1, <3>2
    <2>7. LockBacked'
        <3> SUFFICES ASSUME NEW u \in Accounts
                     PROVE  Backed(u, users[u])'
            OBVIOUS
        <3>1. users' = users /\ users[u].failedAttempts \in Nat
            BY <1>4 DEF LoginTypeOK, RequestsTypeOK, WrongPassword, Row
        <3>2. Backed(u, users[u])
            OBVIOUS
        <3> QED
            BY <3>1, <3>2, <2>3, ThresholdAssumption DEF Backed
    <2>8. EntitiesBacked'
        <3> SUFFICES ASSUME NEW r \in Slots, who'[r] \in Accounts
                     PROVE  Backed(who[r], entity[r])'
            OBVIOUS
        <3>1. who' = who /\ entity' = [entity EXCEPT ![s] = ent]
            BY <1>4 DEF WrongPassword
        <3>2. CASE r = s
            BY <3>1, <3>2, <2>5, <2>6 DEF LoginTypeOK, RequestsTypeOK, Backed
        <3>3. CASE r # s
            <4>1. entity'[r] = entity[r] /\ entity[r].failedAttempts \in Nat
                BY <3>1, <3>3 DEF LoginTypeOK, RequestsTypeOK, Row
            <4>2. Backed(who[r], entity[r])
                BY <3>1
            <4> QED
                BY <3>1, <4>1, <4>2, <2>3, ThresholdAssumption DEF Backed
        <3> QED
            BY <3>2, <3>3
    <2> QED
        BY <2>7, <2>8
<1>5. ASSUME NEW s \in Slots, RightPassword(s) PROVE BackedInv'
    <2>1. \A u \in Accounts : Backed(u, ResetFailed(entity[s]))
        BY BackedCleared, ResetColumns
    <2> QED
        BY <1>5, <2>1 DEF LoginTypeOK, RequestsTypeOK, RightPassword, Backed
<1>6. ASSUME NEW s \in Slots, LoginSelect(s) PROVE BackedInv'
    BY <1>6 DEF LoginSelect, SaveSelect, Backed
<1>7. ASSUME NEW s \in Slots, LoginUpdate(s) PROVE BackedInv'
    <2>1. who[s] \in Accounts
        BY <1>7 DEF LoginTypeOK, RequestsTypeOK, LoginUpdate, At
    <2>2. Backed(who[s], Merge(users[who[s]], entity[s], dirty[s]))
        BY <2>1, BackedMerge
    <2> QED
        BY <1>7, <2>1, <2>2
           DEF LoginTypeOK, RequestsTypeOK, LoginUpdate, SaveUpdate, Backed
<1>8. ASSUME NEW s \in Slots, AuditFailed(s) PROVE BackedInv'
    BY <1>8, BackedFinish DEF AuditFailed
<1>9. ASSUME NEW s \in Slots, IssueToken(s) PROVE BackedInv'
    <2> DEFINE row == SetTempToken(users[who[s]], Len(issued) + 1, now + TempTtl)
    <2>1. who[s] \in Accounts
        BY <1>9 DEF LoginTypeOK, RequestsTypeOK, IssueToken, At
    <2>2. Backed(who[s], row)
        BY <2>1, BackedColumns, SetTempTokenColumns
    <2> QED
        BY <1>9, <2>1, <2>2 DEF LoginTypeOK, RequestsTypeOK, IssueToken, UpdateRow, Backed
<1>10. ASSUME NEW s \in Slots, AuditPending(s) PROVE BackedInv'
    BY <1>10, BackedFinish DEF AuditPending
<1>11. ASSUME NEW s \in Slots, CreateSession(s) PROVE BackedInv'
    BY <1>11 DEF CreateSession, Backed
<1>12. ASSUME NEW s \in Slots, AuditSuccess(s) PROVE BackedInv'
    BY <1>12, BackedFinish DEF AuditSuccess
<1>13. ASSUME NEW s \in Slots, LoginFail(s) PROVE BackedInv'
    BY <1>13, BackedFinish DEF LoginFail, Fail
<1>14. ASSUME NEW u \in Accounts, NEW undisturbed \in BOOLEAN,
             undisturbed => Quiet(u), Unlock(u, undisturbed)
      PROVE  BackedInv'
    <2>1. /\ users' = [users EXCEPT ![u] = UnlockUser(users[u])]
          /\ wrongs' = IF undisturbed THEN [wrongs EXCEPT ![u] = 0] ELSE wrongs
          /\ UNCHANGED <<who, entity>>
        BY <1>14 DEF Unlock, AdminUnlock
    <2>2. \A v \in Accounts : users'[v] = users[v] \/ Cleared(users'[v])
        BY <2>1, ResetColumns DEF LoginTypeOK, RequestsTypeOK, Cleared
    <2>3. \A v \in Accounts :
              \/ wrongs'[v] = wrongs[v]
              \/ Quiet(v) /\ Cleared(users'[v]) /\ wrongs'[v] = 0
        BY <1>14, <2>1, ResetColumns DEF LoginTypeOK, RequestsTypeOK, Cleared
    <2> QED
        BY <2>1, <2>2, <2>3, BackedForgotten
<1>15. CASE Tick /\ UNCHANGED loginVars
    BY <1>15 DEF Tick, Backed
<1>16. CASE UNCHANGED vars
    BY <1>16 DEF Backed
<1> QED
    BY <1>1, <1>2, <1>3, <1>4, <1>5, <1>6, <1>7, <1>8, <1>9, <1>10, <1>11,
       <1>12, <1>13, <1>14, <1>15, <1>16 DEF Service, LoginNext, LoginStep

\* However many logins interleave, fail half way and save stale entities, an
\* account is locked only after LockThreshold wrong passwords, and counts no
\* more of them than there were (incrementFailedAttempts, resetFailedAttempts).
THEOREM LockSound == Spec => []LockBacked
<1>1. Init => TypeOK /\ BackedInv
    BY TypeInit, BackedInit DEF TypeOK
<1>2. TypeOK /\ BackedInv /\ [Next]_vars => (TypeOK /\ BackedInv)'
    BY TypeNext, BackedNext, NextService DEF TypeOK
<1>3. TypeOK /\ BackedInv => LockBacked
    BY DEF BackedInv
<1> QED
    BY <1>1, <1>2, <1>3, PTL DEF Spec

-----------------------------------------------------------------------------
(* No lock for ever.                                                       *)

BoundedInv == LockBounded /\ EntitiesBounded

LEMMA BoundedInit == Init => BoundedInv
BY ThresholdAssumption
   DEF Init, RequestsInit, BoundedInv, LockBounded, EntitiesBounded, NewRow,
       Assign, Columns, Null

LEMMA BoundedFinish ==
    ASSUME NEW places, LoginTypeOK(places), BoundedInv, NEW s \in Slots, Finish(s),
           UNCHANGED <<now, users>>
    PROVE  BoundedInv'
BY ThresholdAssumption
   DEF LoginTypeOK, RequestsTypeOK, BoundedInv, LockBounded, EntitiesBounded, Finish,
       NewRow, Null

\* A row written for the user s works for is no longer locked than allowed.
LEMMA BoundedWrite ==
    ASSUME NEW places, LoginTypeOK(places), BoundedInv, NEW u \in Accounts, NEW row,
           row.lockedUntil <= now + LockTicks,
           users' = [users EXCEPT ![u] = row],
           UNCHANGED <<now, entity>>
    PROVE  BoundedInv'
BY DEF LoginTypeOK, RequestsTypeOK, BoundedInv, LockBounded, EntitiesBounded

\* An entity changed in the hands of s is not either.
LEMMA BoundedEntity ==
    ASSUME NEW places, LoginTypeOK(places), BoundedInv, NEW s \in Slots, NEW ent,
           ent.lockedUntil <= now + LockTicks,
           entity' = [entity EXCEPT ![s] = ent],
           UNCHANGED <<now, users>>
    PROVE  BoundedInv'
BY DEF LoginTypeOK, RequestsTypeOK, BoundedInv, LockBounded, EntitiesBounded

LEMMA BoundedSame ==
    ASSUME BoundedInv, UNCHANGED <<now, users, entity>>
    PROVE  BoundedInv'
BY DEF BoundedInv, LockBounded, EntitiesBounded

LEMMA BoundedNext ==
    ASSUME NEW places, LoginTypeOK(places), BoundedInv, [Service]_vars
    PROVE  BoundedInv'
<1>1. ASSUME NEW s \in Slots, NEW u \in Accounts, NEW right \in BOOLEAN,
             Receive(s, u, right)
      PROVE  BoundedInv'
    <2>1. users[u].lockedUntil <= now + LockTicks
        BY DEF BoundedInv, LockBounded
    <2> QED
        BY <1>1, <2>1, BoundedEntity DEF Receive, Find
<1>2. ASSUME NEW s \in Slots, UnknownEmail(s) PROVE BoundedInv'
    BY <1>2, BoundedSame DEF UnknownEmail
<1>3. ASSUME NEW s \in Slots,
             RejectLocked(s) \/ AuditFailed(s) \/ AuditPending(s) \/ AuditSuccess(s)
      PROVE  BoundedInv'
    BY <1>3, BoundedFinish DEF RejectLocked, AuditFailed, AuditPending, AuditSuccess
<1>4. ASSUME NEW s \in Slots, WrongPassword(s) PROVE BoundedInv'
    <2> DEFINE ent == IncrementFailed(entity[s], now)
    <2>1. entity[s] \in Row /\ now \in Nat
        BY DEF LoginTypeOK, RequestsTypeOK
    <2>2. ent.lockedUntil \in {now + LockTicks, entity[s].lockedUntil}
        BY <2>1, IncrementColumns
    <2>3. entity[s].lockedUntil <= now + LockTicks
        BY DEF BoundedInv, EntitiesBounded
    <2>4. ent.lockedUntil <= now + LockTicks
        BY <2>1, <2>2, <2>3, ThresholdAssumption
    <2> QED
        BY <1>4, <2>4, BoundedEntity DEF WrongPassword
<1>5. ASSUME NEW s \in Slots, RightPassword(s) PROVE BoundedInv'
    <2> DEFINE ent == ResetFailed(entity[s])
    <2>1. ent.lockedUntil <= now + LockTicks
        BY ResetColumns, ThresholdAssumption DEF LoginTypeOK, RequestsTypeOK, Null
    <2> QED
        BY <1>5, <2>1, BoundedEntity DEF RightPassword
<1>6. ASSUME NEW s \in Slots, LoginSelect(s) \/ CreateSession(s) PROVE BoundedInv'
    BY <1>6, BoundedSame DEF LoginSelect, SaveSelect, CreateSession
<1>7. ASSUME NEW s \in Slots, LoginUpdate(s) PROVE BoundedInv'
    <2> DEFINE row == Merge(users[who[s]], entity[s], dirty[s])
    <2>1. who[s] \in Accounts
        BY <1>7 DEF LoginTypeOK, RequestsTypeOK, LoginUpdate, At
    <2>2. row.lockedUntil <= now + LockTicks
        BY <2>1, MergeColumns DEF BoundedInv, LockBounded, EntitiesBounded
    <2> QED
        BY <1>7, <2>1, <2>2, BoundedWrite DEF LoginUpdate, SaveUpdate
<1>8. ASSUME NEW s \in Slots, IssueToken(s) PROVE BoundedInv'
    <2> DEFINE row == SetTempToken(users[who[s]], Len(issued) + 1, now + TempTtl)
    <2>1. who[s] \in Accounts
        BY <1>8 DEF LoginTypeOK, RequestsTypeOK, IssueToken, At
    <2>2. row.lockedUntil <= now + LockTicks
        BY <2>1, SetTempTokenColumns DEF BoundedInv, LockBounded
    <2> QED
        BY <1>8, <2>1, <2>2, BoundedWrite DEF IssueToken, UpdateRow
<1>9. ASSUME NEW s \in Slots, LoginFail(s) PROVE BoundedInv'
    BY <1>9, BoundedFinish DEF LoginFail, Fail
<1>10. ASSUME NEW u \in Accounts, NEW undisturbed \in BOOLEAN,
             undisturbed => Quiet(u), Unlock(u, undisturbed)
      PROVE  BoundedInv'
    <2> DEFINE row == UnlockUser(users[u])
    <2>1. row.lockedUntil <= now + LockTicks
        BY ResetColumns, ThresholdAssumption DEF LoginTypeOK, RequestsTypeOK, Null
    <2> QED
        BY <1>10, <2>1, BoundedWrite DEF Unlock, AdminUnlock
<1>11. CASE Tick /\ UNCHANGED loginVars
    <2>1. now' = now + 1 /\ users' = users /\ entity' = entity
        BY <1>11 DEF Tick
    <2>2. \A row \in Row : row.lockedUntil <= now + LockTicks
                           => row.lockedUntil <= now + 1 + LockTicks
        BY ThresholdAssumption DEF LoginTypeOK, RequestsTypeOK, Row
    <2>3. /\ \A u \in Accounts : users[u] \in Row
          /\ \A s \in Slots : entity[s] \in Row
        BY DEF LoginTypeOK, RequestsTypeOK
    <2> QED
        BY <2>1, <2>2, <2>3 DEF BoundedInv, LockBounded, EntitiesBounded
<1>12. CASE UNCHANGED vars
    BY <1>12, BoundedSame
<1> QED
    BY <1>1, <1>2, <1>3, <1>4, <1>5, <1>6, <1>7, <1>8, <1>9, <1>10, <1>11,
       <1>12 DEF Service, LoginNext, LoginStep

\* No save, however late, locks an account for longer than one length of the
\* lock from the moment it is written (incrementFailedAttempts).
THEOREM LockEnds == Spec => []LockBounded
<1>1. Init => TypeOK /\ BoundedInv
    BY TypeInit, BoundedInit DEF TypeOK
<1>2. TypeOK /\ BoundedInv /\ [Next]_vars => (TypeOK /\ BoundedInv)'
    BY TypeNext, BoundedNext, NextService DEF TypeOK
<1>3. TypeOK /\ BoundedInv => LockBounded
    BY DEF BoundedInv
<1> QED
    BY <1>1, <1>2, <1>3, PTL DEF Spec

-----------------------------------------------------------------------------
(* The audit trail.                                                        *)

\* A set of requests changes by one request at most.
LEMMA CountMoves ==
    ASSUME NEW A \in SUBSET Slots, NEW B \in SUBSET Slots, NEW s, A \ {s} = B \ {s}
    PROVE  /\ Cardinality(A) \in Nat /\ Cardinality(B) \in Nat
           /\ s \in A /\ s \notin B => Cardinality(A) = Cardinality(B) + 1
           /\ s \notin A /\ s \in B => Cardinality(B) = Cardinality(A) + 1
           /\ (s \in A <=> s \in B) => Cardinality(A) = Cardinality(B)
<1>1. IsFiniteSet(A) /\ IsFiniteSet(B)
    BY LoginAssumption, FS_Subset
<1>2. Cardinality(A) \in Nat /\ Cardinality(B) \in Nat
    BY <1>1, FS_CardinalityType
<1>3. /\ Cardinality(A \ {s}) = IF s \in A THEN Cardinality(A) - 1 ELSE Cardinality(A)
      /\ Cardinality(B \ {s}) = IF s \in B THEN Cardinality(B) - 1 ELSE Cardinality(B)
    BY <1>1, FS_RemoveElement
<1>4. Cardinality(A \ {s}) = Cardinality(B \ {s})
    OBVIOUS
<1> HIDE DEF LoginAssumption
<1> QED
    BY <1>2, <1>3, <1>4

\* What became of the logins of u that are over.
Ended(u, rows, failures) ==
    rows[u]["LOGIN_LOCKED"] + rows[u]["LOGIN_FAILED"] + rows[u]["MFA_PENDING"]
        + rows[u]["LOGIN_SUCCESS"] + failures[u]

LEMMA EndedType ==
    ASSUME NEW rows \in [Callers -> [LoginEvents -> Nat]], NEW failures \in [Callers -> Nat],
           NEW u \in Callers
    PROVE  /\ Ended(u, rows, failures) \in Nat
           /\ \A e \in LoginEvents : rows[u][e] \in Nat
BY DEF Ended, LoginEvents

LEMMA EndedByAudit ==
    ASSUME NEW places, LoginTypeOK(places), NEW u \in Callers, NEW e \in LoginEvents,
           Audit(u, e)
    PROVE  /\ Ended(u, audit', failed) = Ended(u, audit, failed) + 1
           /\ \A v \in Callers \ {u} : Ended(v, audit', failed) = Ended(v, audit, failed)
<1>1. audit \in [Callers -> [LoginEvents -> Nat]] /\ failed \in [Callers -> Nat]
    BY DEF LoginTypeOK
<1>2. audit' = [audit EXCEPT ![u] = [audit[u] EXCEPT ![e] = audit[u][e] + 1]]
    BY DEF Audit
<1>3. \A f \in LoginEvents : audit'[u][f] = IF f = e THEN audit[u][f] + 1 ELSE audit[u][f]
    BY <1>1, <1>2
<1>4. \A v \in Callers \ {u} : audit'[v] = audit[v]
    BY <1>1, <1>2
<1>5. \A f \in LoginEvents : audit[u][f] \in Nat
    BY <1>1
<1>6. failed[u] \in Nat
    BY <1>1
<1>7. {"LOGIN_LOCKED", "LOGIN_FAILED", "MFA_PENDING", "LOGIN_SUCCESS"} = LoginEvents
    BY DEF LoginEvents
<1>8. Ended(u, audit', failed) = Ended(u, audit, failed) + 1
    <2>1. e \in {"LOGIN_LOCKED", "LOGIN_FAILED", "MFA_PENDING", "LOGIN_SUCCESS"}
        BY <1>7
    <2> QED
        BY <1>3, <1>5, <1>6, <1>7, <2>1 DEF Ended
<1>9. \A v \in Callers \ {u} : Ended(v, audit', failed) = Ended(v, audit, failed)
    BY <1>4 DEF Ended
<1> QED
    BY <1>8, <1>9

LEMMA EndedByFailure ==
    ASSUME NEW places, LoginTypeOK(places), NEW u \in Callers, failed' = Bump(failed, u)
    PROVE  /\ Ended(u, audit, failed') = Ended(u, audit, failed) + 1
           /\ \A v \in Callers \ {u} : Ended(v, audit, failed') = Ended(v, audit, failed)
<1>1. audit \in [Callers -> [LoginEvents -> Nat]] /\ failed \in [Callers -> Nat]
    BY DEF LoginTypeOK
<1>2. failed'[u] = failed[u] + 1 /\ \A v \in Callers \ {u} : failed'[v] = failed[v]
    BY <1>1 DEF Bump
<1>3. failed[u] \in Nat /\ \A f \in LoginEvents : audit[u][f] \in Nat
    BY <1>1
<1>4. Ended(u, audit, failed') = Ended(u, audit, failed) + 1
    BY <1>2, <1>3 DEF Ended, LoginEvents
<1>5. \A v \in Callers \ {u} : Ended(v, audit, failed') = Ended(v, audit, failed)
    BY <1>2 DEF Ended
<1> QED
    BY <1>4, <1>5

\* AuditComplete of one user, of given values of the variables.
CompleteFor(u, begun, rows, failures, running) ==
    begun[u] = Ended(u, rows, failures) + Cardinality(running)

LEMMA CompleteIs ==
    /\ AuditComplete <=> \A u \in Callers : CompleteFor(u, started, audit, failed, Running(u))
    /\ AuditComplete' <=> \A u \in Callers : CompleteFor(u, started', audit', failed', Running(u)')
BY DEF AuditComplete, CompleteFor, Ended

\* A request ends, in one way.
LEMMA CompleteEnds ==
    ASSUME NEW places, LoginTypeOK(places), AuditComplete, NEW s \in Slots,
           ~ At(s, "idle"), Finish(s), started' = started,
           Ended(who[s], audit', failed') = Ended(who[s], audit, failed) + 1,
           \A v \in Callers \ {who[s]} : Ended(v, audit', failed') = Ended(v, audit, failed)
    PROVE  AuditComplete'
<1> DEFINE w == who[s]
<1>1. w \in Callers /\ \A u \in Callers : started[u] \in Nat /\ Ended(u, audit, failed) \in Nat
    BY EndedType DEF LoginTypeOK, RequestsTypeOK, At, Callers
<1>2. \A u \in Callers : Running(u)' = Running(u) \ {s}
    BY RequestAssumption DEF Running, At, Finish, LoginTypeOK, RequestsTypeOK
<1>3. s \in Running(w) /\ \A u \in Callers \ {w} : s \notin Running(u)
    BY DEF Running
<1>4. \A u \in Callers : /\ Running(u) \in SUBSET Slots /\ Running(u)' \in SUBSET Slots
                         /\ Running(u) \ {s} = Running(u)' \ {s} /\ s \notin Running(u)'
    BY <1>2 DEF Running
<1>5. ASSUME NEW u \in Callers
      PROVE  /\ Cardinality(Running(u)') \in Nat
             /\ u = w => Cardinality(Running(u)) = Cardinality(Running(u)') + 1
             /\ u # w => Cardinality(Running(u)) = Cardinality(Running(u)')
    <2> DEFINE A == Running(u)
               B == Running(u)'
    <2>1. A \in SUBSET Slots /\ B \in SUBSET Slots /\ A \ {s} = B \ {s} /\ s \notin B
        BY <1>4
    <2>2. s \in A <=> u = w
        BY <1>3
    <2> HIDE DEF A, B
    <2>3. /\ Cardinality(B) \in Nat
          /\ s \in A => Cardinality(A) = Cardinality(B) + 1
          /\ s \notin A => Cardinality(A) = Cardinality(B)
        BY <2>1, CountMoves
    <2> QED
        BY <2>2, <2>3 DEF A, B
<1>6. \A u \in Callers : started[u] = Ended(u, audit, failed) + Cardinality(Running(u))
    BY CompleteIs DEF CompleteFor
<1>7. ASSUME NEW u \in Callers
      PROVE  started'[u] = Ended(u, audit', failed') + Cardinality(Running(u)')
    <2>1. /\ Ended(u, audit, failed) \in Nat /\ Cardinality(Running(u)') \in Nat
          /\ started[u] = Ended(u, audit, failed) + Cardinality(Running(u))
          /\ started'[u] = started[u]
        BY <1>1, <1>5, <1>6
    <2>2. CASE u = w
        <3>1. Ended(u, audit', failed') = Ended(u, audit, failed) + 1
            BY <2>2
        <3>2. Cardinality(Running(u)) = Cardinality(Running(u)') + 1
            BY <1>5, <2>2
        <3> QED
            BY <2>1, <3>1, <3>2
    <2>3. CASE u # w
        <3>1. Ended(u, audit', failed') = Ended(u, audit, failed)
            BY <2>3
        <3>2. Cardinality(Running(u)) = Cardinality(Running(u)')
            BY <1>5, <2>3
        <3> QED
            BY <2>1, <3>1, <3>2
    <2> QED
        BY <2>2, <2>3
<1> QED
    BY <1>7, CompleteIs DEF CompleteFor

\* A request goes on.
LEMMA CompleteStays ==
    ASSUME AuditComplete, UNCHANGED <<who, started, audit, failed>>,
           \A r \in Slots : pc'[r] = "idle" <=> pc[r] = "idle"
    PROVE  AuditComplete'
<1>1. \A u \in Callers : Running(u)' = Running(u)
    BY DEF Running, At
<1> QED
    BY <1>1, CompleteIs

LEMMA CompleteReceive ==
    ASSUME NEW places, LoginTypeOK(places), AuditComplete,
           NEW s \in Slots, NEW u \in Accounts, NEW right \in BOOLEAN, Receive(s, u, right)
    PROVE  AuditComplete'
<1>1. /\ At(s, "idle") /\ u \in Callers
      /\ pc' = [pc EXCEPT ![s] = "found"] /\ who' = [who EXCEPT ![s] = u]
      /\ started' = [started EXCEPT ![u] = @ + 1] /\ UNCHANGED <<audit, failed>>
    BY DEF Receive, Find, GoTo, Bump, Callers
<1>2. \A v \in Callers : /\ s \notin Running(v)
                         /\ Running(v)' \ {s} = Running(v) \ {s}
                         /\ s \in Running(v)' <=> v = u
                         /\ Running(v) \in SUBSET Slots /\ Running(v)' \in SUBSET Slots
    BY <1>1 DEF Running, At, LoginTypeOK, RequestsTypeOK
<1>3. \A v \in Callers :
          /\ started[v] = Ended(v, audit, failed) + Cardinality(Running(v))
          /\ started'[v] = IF v = u THEN started[v] + 1 ELSE started[v]
          /\ Ended(v, audit, failed) \in Nat
    BY <1>1, CompleteIs, EndedType DEF CompleteFor, LoginTypeOK
<1>4. ASSUME NEW v \in Callers
      PROVE  started'[v] = Ended(v, audit, failed) + Cardinality(Running(v)')
    <2> DEFINE A == Running(v)
               B == Running(v)'
    <2>1. A \in SUBSET Slots /\ B \in SUBSET Slots /\ A \ {s} = B \ {s}
          /\ s \notin A /\ (s \in B <=> v = u)
        BY <1>2
    <2> HIDE DEF A, B
    <2>2. /\ Cardinality(A) \in Nat /\ Cardinality(B) \in Nat
          /\ Cardinality(B) = IF v = u THEN Cardinality(A) + 1 ELSE Cardinality(A)
        BY <2>1, CountMoves
    <2>3. started[v] = Ended(v, audit, failed) + Cardinality(A)
        BY <1>3 DEF A
    <2>4. started'[v] = Ended(v, audit, failed) + Cardinality(B)
        BY <1>3, <2>2, <2>3
    <2> QED
        BY <2>4 DEF B
<1> QED
    BY <1>1, <1>4, CompleteIs DEF CompleteFor

LEMMA CompleteUnknown ==
    ASSUME NEW places, LoginTypeOK(places), AuditComplete, NEW s \in Slots, UnknownEmail(s)
    PROVE  AuditComplete'
<1>1. /\ Audit(NoUser, "LOGIN_FAILED") /\ NoUser \in Callers /\ "LOGIN_FAILED" \in LoginEvents
      /\ started' = [started EXCEPT ![NoUser] = @ + 1] /\ failed' = failed
      /\ UNCHANGED <<pc, who>>
    BY DEF UnknownEmail, Bump, Callers, LoginEvents
<1>2. \A v \in Callers : Running(v)' = Running(v) /\ Running(v) \in SUBSET Slots
    BY <1>1 DEF Running, At
<1>3. ASSUME NEW v \in Callers
      PROVE  started'[v] = Ended(v, audit', failed) + Cardinality(Running(v))
    <2>1. /\ started[v] = Ended(v, audit, failed) + Cardinality(Running(v))
          /\ started'[v] = IF v = NoUser THEN started[v] + 1 ELSE started[v]
          /\ Ended(v, audit, failed) \in Nat
        BY <1>1, CompleteIs, EndedType DEF CompleteFor, LoginTypeOK
    <2>2. Ended(v, audit', failed) = IF v = NoUser THEN Ended(v, audit, failed) + 1
                                                   ELSE Ended(v, audit, failed)
        BY <1>1, EndedByAudit
    <2>3. Cardinality(Running(v)) \in Nat
        BY <1>2, CountMoves
    <2> QED
        BY <2>1, <2>2, <2>3
<1> QED
    BY <1>1, <1>2, <1>3, CompleteIs DEF CompleteFor

LEMMA CompleteNext ==
    ASSUME NEW places, LoginTypeOK(places), AuditComplete, [Service]_vars
    PROVE  AuditComplete'
<1>1. ASSUME NEW s \in Slots, NEW u \in Accounts, NEW right \in BOOLEAN,
             Receive(s, u, right)
      PROVE  AuditComplete'
    BY <1>1, CompleteReceive
<1>2. ASSUME NEW s \in Slots, UnknownEmail(s) PROVE AuditComplete'
    BY <1>2, CompleteUnknown
<1>3. ASSUME NEW s \in Slots, NEW e \in LoginEvents, ~ At(s, "idle"), Audit(who[s], e),
             Finish(s), UNCHANGED ghostVars
      PROVE  AuditComplete'
    <2>1. who[s] \in Callers
        BY <1>3 DEF LoginTypeOK, RequestsTypeOK, At, Callers
    <2> QED
        BY <1>3, <2>1, EndedByAudit, CompleteEnds
<1>4. ASSUME NEW s \in Slots,
             RejectLocked(s) \/ AuditFailed(s) \/ AuditPending(s) \/ AuditSuccess(s)
      PROVE  AuditComplete'
    <2>1. PICK e \in LoginEvents : Audit(who[s], e)
        BY <1>4 DEF RejectLocked, AuditFailed, AuditPending, AuditSuccess, LoginEvents
    <2>2. ~ At(s, "idle") /\ Finish(s) /\ UNCHANGED ghostVars
        BY <1>4 DEF RejectLocked, AuditFailed, AuditPending, AuditSuccess, At
    <2> QED
        BY <1>3, <2>1, <2>2
<1>5. ASSUME NEW s \in Slots,
             \/ WrongPassword(s) \/ RightPassword(s) \/ LoginSelect(s)
             \/ LoginUpdate(s) \/ IssueToken(s) \/ CreateSession(s)
      PROVE  AuditComplete'
    <2>1. PICK place \in LoginPlaces : pc' = [pc EXCEPT ![s] = place]
        BY <1>5 DEF WrongPassword, RightPassword, LoginSelect, SaveSelect, LoginUpdate,
           AfterSave, IssueToken, CreateSession, GoTo, LoginPlaces
    <2>2. pc[s] # "idle" /\ UNCHANGED <<who, started, audit, failed>>
        BY <1>5 DEF WrongPassword, RightPassword, LoginSelect, SaveSelect, LoginUpdate,
           IssueToken, CreateSession, At
    <2>3. \A r \in Slots : pc'[r] = "idle" <=> pc[r] = "idle"
        BY <2>1, <2>2 DEF LoginTypeOK, RequestsTypeOK, LoginPlaces
    <2> QED
        BY <2>2, <2>3, CompleteStays
<1>6. ASSUME NEW s \in Slots, LoginFail(s) PROVE AuditComplete'
    <2>1. /\ ~ At(s, "idle") /\ Finish(s) /\ failed' = Bump(failed, who[s])
          /\ audit' = audit /\ started' = started
        BY <1>6 DEF LoginFail, Fail
    <2>2. who[s] \in Callers
        BY <2>1 DEF LoginTypeOK, RequestsTypeOK, At, Callers
    <2> QED
        BY <2>1, <2>2, EndedByFailure, CompleteEnds
<1>7. ASSUME UNCHANGED <<pc, who, started, audit, failed>> PROVE AuditComplete'
    BY <1>7, CompleteStays
<1> QED
    BY <1>1, <1>2, <1>4, <1>5, <1>6, <1>7
       DEF Service, LoginNext, LoginStep, Unlock, AdminUnlock, Tick

LEMMA CompleteInit == Init => AuditComplete
<1> SUFFICES ASSUME Init PROVE AuditComplete
    OBVIOUS
<1>1. \A u \in Callers : Running(u) = {}
    BY DEF Init, RequestsInit, Running, At
<1>2. \A u \in Callers : Cardinality(Running(u)) = 0
    BY <1>1, FS_EmptySet
<1>3. ASSUME NEW u \in Callers
      PROVE  started[u] = 0 /\ failed[u] = 0 /\ \A e \in LoginEvents : audit[u][e] = 0
    BY DEF Init, LoginInit
<1> QED
    BY <1>2, <1>3 DEF AuditComplete, LoginEvents

\* Every login that has begun is audited once, failed, or in progress, and no two of
\* these: there is no way out of login that writes no audit row or two.
THEOREM EveryLoginAudited == Spec => []AuditComplete
<1>1. Init => TypeOK /\ AuditComplete
    BY TypeInit, CompleteInit DEF TypeOK
<1>2. TypeOK /\ AuditComplete /\ [Next]_vars => (TypeOK /\ AuditComplete)'
    BY TypeNext, CompleteNext, NextService DEF TypeOK
<1> QED
    BY <1>1, <1>2, PTL DEF Spec

\* The requests of u that are about to write an audit row, its effect being written.
Waiting(u, place) == {r \in Slots : pc[r] = place /\ who[r] = u}

\* The strengthening of AuditBacked: there is an effect for each of those rows too.
TrailInv ==
    \A u \in Accounts :
        /\ audit[u]["LOGIN_SUCCESS"] + Cardinality(Waiting(u, "auditSuccess")) <= sessions[u]
        /\ audit[u]["MFA_PENDING"] + Cardinality(Waiting(u, "auditPending"))
               <= Cardinality(Drawn(u, issued))

LEMMA TrailType ==
    ASSUME NEW places, LoginTypeOK(places), NEW u \in Accounts
    PROVE  /\ audit[u]["LOGIN_SUCCESS"] \in Nat /\ audit[u]["MFA_PENDING"] \in Nat
           /\ sessions[u] \in Nat
           /\ IsFiniteSet(Drawn(u, issued)) /\ Cardinality(Drawn(u, issued)) \in Nat
<1>1. audit[u]["LOGIN_SUCCESS"] \in Nat /\ audit[u]["MFA_PENDING"] \in Nat /\ sessions[u] \in Nat
    BY DEF LoginTypeOK, Callers, LoginEvents
<1>2. IsFiniteSet(1 .. Len(issued))
    BY FS_Interval DEF LoginTypeOK
<1>3. Drawn(u, issued) \in SUBSET (1 .. Len(issued))
    BY DEF Drawn
<1> QED
    BY <1>1, <1>2, <1>3, FS_Subset, FS_CardinalityType

\* A set of requests that does not grow does not count more.
LEMMA CountShrinks ==
    ASSUME NEW A \in SUBSET Slots, NEW B \in SUBSET A
    PROVE  /\ Cardinality(A) \in Nat /\ Cardinality(B) \in Nat
           /\ Cardinality(B) <= Cardinality(A)
<1>1. IsFiniteSet(A)
    BY LoginAssumption, FS_Subset
<1>2. IsFiniteSet(B) /\ Cardinality(B) <= Cardinality(A)
    BY <1>1, FS_Subset
<1> QED
    BY <1>1, <1>2, FS_CardinalityType

\* A step that neither writes these rows or effects nor gets a request to where it
\* would write one of the rows.
LEMMA TrailKept ==
    ASSUME NEW places, LoginTypeOK(places), TrailInv, UNCHANGED <<issued, sessions>>,
           \A u \in Accounts : \A e \in {"LOGIN_SUCCESS", "MFA_PENDING"} :
               audit'[u][e] = audit[u][e],
           \A r \in Slots : pc'[r] \in {"auditSuccess", "auditPending"} =>
                                pc'[r] = pc[r] /\ who'[r] = who[r]
    PROVE  TrailInv'
<1> SUFFICES ASSUME NEW u \in Accounts
             PROVE  /\ audit'[u]["LOGIN_SUCCESS"] + Cardinality(Waiting(u, "auditSuccess")')
                           <= sessions[u]
                    /\ audit'[u]["MFA_PENDING"] + Cardinality(Waiting(u, "auditPending")')
                           <= Cardinality(Drawn(u, issued))
    BY DEF TrailInv
<1>1. ASSUME NEW place \in {"auditSuccess", "auditPending"}
      PROVE  /\ Cardinality(Waiting(u, place)) \in Nat /\ Cardinality(Waiting(u, place)') \in Nat
             /\ Cardinality(Waiting(u, place)') <= Cardinality(Waiting(u, place))
    <2> DEFINE A == Waiting(u, place)
               B == Waiting(u, place)'
    <2>1. A \in SUBSET Slots /\ B \in SUBSET A
        BY DEF Waiting
    <2> HIDE DEF A, B
    <2>2. Cardinality(A) \in Nat /\ Cardinality(B) \in Nat /\ Cardinality(B) <= Cardinality(A)
        BY <2>1, CountShrinks
    <2> QED
        BY <2>2 DEF A, B
<1>2. /\ audit[u]["LOGIN_SUCCESS"] + Cardinality(Waiting(u, "auditSuccess")) <= sessions[u]
      /\ audit[u]["MFA_PENDING"] + Cardinality(Waiting(u, "auditPending"))
             <= Cardinality(Drawn(u, issued))
    BY DEF TrailInv
<1> QED
    BY <1>1, <1>2, TrailType

\* A step of slot s to or from one of the places.
LEMMA WaitingMoves ==
    ASSUME NEW places, LoginTypeOK(places), NEW s \in Slots, NEW place, NEW u \in Accounts,
           \A r \in Slots \ {s} : pc'[r] = pc[r] /\ who'[r] = who[r]
    PROVE  /\ Cardinality(Waiting(u, place)) \in Nat /\ Cardinality(Waiting(u, place)') \in Nat
           /\ s \in Waiting(u, place) /\ s \notin Waiting(u, place)' =>
                  Cardinality(Waiting(u, place)) = Cardinality(Waiting(u, place)') + 1
           /\ s \notin Waiting(u, place) /\ s \in Waiting(u, place)' =>
                  Cardinality(Waiting(u, place)') = Cardinality(Waiting(u, place)) + 1
           /\ (s \in Waiting(u, place) <=> s \in Waiting(u, place)') =>
                  Cardinality(Waiting(u, place)') = Cardinality(Waiting(u, place))
<1> DEFINE A == Waiting(u, place)
           B == Waiting(u, place)'
<1>1. A \in SUBSET Slots /\ B \in SUBSET Slots /\ A \ {s} = B \ {s}
    BY DEF Waiting
<1> HIDE DEF A, B
<1>2. /\ Cardinality(A) \in Nat /\ Cardinality(B) \in Nat
      /\ s \in A /\ s \notin B => Cardinality(A) = Cardinality(B) + 1
      /\ s \notin A /\ s \in B => Cardinality(B) = Cardinality(A) + 1
      /\ (s \in A <=> s \in B) => Cardinality(A) = Cardinality(B)
    BY <1>1, CountMoves
<1> QED
    BY <1>2 DEF A, B

LEMMA TrailToken ==
    ASSUME NEW places, LoginTypeOK(places), TrailInv, NEW s \in Slots, IssueToken(s)
    PROVE  TrailInv'
<1> DEFINE w == who[s]
           t == Len(issued) + 1
<1>1. /\ pc[s] = "issueToken" /\ w \in Accounts
      /\ pc' = [pc EXCEPT ![s] = "auditPending"] /\ who' = who
      /\ issued' = Append(issued, w) /\ UNCHANGED <<sessions, audit>>
    BY DEF IssueToken, At, GoTo, LoginTypeOK, RequestsTypeOK
<1>2. /\ \A r \in Slots \ {s} : pc'[r] = pc[r] /\ who'[r] = who[r]
      /\ \A u \in Accounts : /\ s \notin Waiting(u, "auditSuccess")
                             /\ s \notin Waiting(u, "auditSuccess")'
                             /\ s \notin Waiting(u, "auditPending")
                             /\ s \in Waiting(u, "auditPending")' <=> u = w
    BY <1>1 DEF Waiting, LoginTypeOK, RequestsTypeOK
<1>3. \A u \in Accounts : Drawn(u, issued') = IF u = w THEN Drawn(u, issued) \cup {t}
                                                       ELSE Drawn(u, issued)
    <2>1. /\ Len(issued') = t /\ issued'[t] = w /\ Len(issued) \in Nat
          /\ \A i \in 1 .. Len(issued) : issued'[i] = issued[i]
        BY <1>1 DEF LoginTypeOK
    <2>2. 1 .. t = (1 .. Len(issued)) \cup {t}
        BY <2>1
    <2> QED
        BY <2>1, <2>2 DEF Drawn
<1>4. \A u \in Accounts : t \notin Drawn(u, issued)
    BY DEF Drawn, LoginTypeOK
<1> SUFFICES ASSUME NEW u \in Accounts
             PROVE  /\ audit[u]["LOGIN_SUCCESS"] + Cardinality(Waiting(u, "auditSuccess")')
                           <= sessions[u]
                    /\ audit[u]["MFA_PENDING"] + Cardinality(Waiting(u, "auditPending")')
                           <= Cardinality(Drawn(u, issued'))
    BY <1>1 DEF TrailInv
<1>5. Cardinality(Drawn(u, issued')) = IF u = w THEN Cardinality(Drawn(u, issued)) + 1
                                                ELSE Cardinality(Drawn(u, issued))
    BY <1>3, <1>4, TrailType, FS_AddElement
<1>6. /\ Cardinality(Waiting(u, "auditSuccess")') = Cardinality(Waiting(u, "auditSuccess"))
      /\ Cardinality(Waiting(u, "auditPending")') =
             IF u = w THEN Cardinality(Waiting(u, "auditPending")) + 1
                      ELSE Cardinality(Waiting(u, "auditPending"))
      /\ Cardinality(Waiting(u, "auditPending")) \in Nat
    BY <1>2, WaitingMoves
<1>7. /\ audit[u]["LOGIN_SUCCESS"] + Cardinality(Waiting(u, "auditSuccess")) <= sessions[u]
      /\ audit[u]["MFA_PENDING"] + Cardinality(Waiting(u, "auditPending"))
             <= Cardinality(Drawn(u, issued))
    BY DEF TrailInv
<1> QED
    BY <1>5, <1>6, <1>7, TrailType

LEMMA TrailSession ==
    ASSUME NEW places, LoginTypeOK(places), TrailInv, NEW s \in Slots, CreateSession(s)
    PROVE  TrailInv'
<1> DEFINE w == who[s]
<1>1. /\ pc[s] = "createSession" /\ w \in Accounts
      /\ pc' = [pc EXCEPT ![s] = "auditSuccess"] /\ who' = who
      /\ sessions' = [sessions EXCEPT ![w] = @ + 1] /\ UNCHANGED <<issued, audit>>
    BY DEF CreateSession, At, GoTo, Bump, LoginTypeOK, RequestsTypeOK
<1>2. /\ \A r \in Slots \ {s} : pc'[r] = pc[r] /\ who'[r] = who[r]
      /\ \A u \in Accounts : /\ s \notin Waiting(u, "auditPending")
                             /\ s \notin Waiting(u, "auditPending")'
                             /\ s \notin Waiting(u, "auditSuccess")
                             /\ s \in Waiting(u, "auditSuccess")' <=> u = w
    BY <1>1 DEF Waiting, LoginTypeOK, RequestsTypeOK
<1> SUFFICES ASSUME NEW u \in Accounts
             PROVE  /\ audit[u]["LOGIN_SUCCESS"] + Cardinality(Waiting(u, "auditSuccess")')
                           <= sessions'[u]
                    /\ audit[u]["MFA_PENDING"] + Cardinality(Waiting(u, "auditPending")')
                           <= Cardinality(Drawn(u, issued))
    BY <1>1 DEF TrailInv
<1>3. sessions'[u] = IF u = w THEN sessions[u] + 1 ELSE sessions[u]
    BY <1>1 DEF LoginTypeOK
<1>4. /\ Cardinality(Waiting(u, "auditPending")') = Cardinality(Waiting(u, "auditPending"))
      /\ Cardinality(Waiting(u, "auditSuccess")') =
             IF u = w THEN Cardinality(Waiting(u, "auditSuccess")) + 1
                      ELSE Cardinality(Waiting(u, "auditSuccess"))
      /\ Cardinality(Waiting(u, "auditSuccess")) \in Nat
    BY <1>2, WaitingMoves
<1>5. /\ audit[u]["LOGIN_SUCCESS"] + Cardinality(Waiting(u, "auditSuccess")) <= sessions[u]
      /\ audit[u]["MFA_PENDING"] + Cardinality(Waiting(u, "auditPending"))
             <= Cardinality(Drawn(u, issued))
    BY DEF TrailInv
<1> QED
    BY <1>3, <1>4, <1>5, TrailType

\* The audit row is written after its effect, and by the request that wrote it.
LEMMA TrailAudit ==
    ASSUME NEW places, LoginTypeOK(places), TrailInv, NEW s \in Slots,
           AuditPending(s) \/ AuditSuccess(s)
    PROVE  TrailInv'
<1> DEFINE w == who[s]
           e == IF pc[s] = "auditSuccess" THEN "LOGIN_SUCCESS" ELSE "MFA_PENDING"
<1>1. /\ pc[s] \in {"auditSuccess", "auditPending"} /\ w \in Accounts
      /\ pc' = [pc EXCEPT ![s] = "idle"] /\ who' = [who EXCEPT ![s] = NoUser]
      /\ audit' = [audit EXCEPT ![w][e] = @ + 1] /\ UNCHANGED <<issued, sessions>>
    BY DEF AuditPending, AuditSuccess, Audit, Finish, At, LoginTypeOK, RequestsTypeOK
<1>2. /\ \A r \in Slots \ {s} : pc'[r] = pc[r] /\ who'[r] = who[r]
      /\ \A u \in Accounts : /\ s \notin Waiting(u, "auditPending")'
                             /\ s \notin Waiting(u, "auditSuccess")'
                             /\ s \in Waiting(u, pc[s]) <=> u = w
                             /\ \A place \in {"auditSuccess", "auditPending"} \ {pc[s]} :
                                    s \notin Waiting(u, place)
    BY <1>1, RequestAssumption DEF Waiting, LoginTypeOK, RequestsTypeOK
<1> SUFFICES ASSUME NEW u \in Accounts
             PROVE  /\ audit'[u]["LOGIN_SUCCESS"] + Cardinality(Waiting(u, "auditSuccess")')
                           <= sessions[u]
                    /\ audit'[u]["MFA_PENDING"] + Cardinality(Waiting(u, "auditPending")')
                           <= Cardinality(Drawn(u, issued))
    BY <1>1 DEF TrailInv
<1>3. \A f \in {"LOGIN_SUCCESS", "MFA_PENDING"} :
          audit'[u][f] = IF u = w /\ f = e THEN audit[u][f] + 1 ELSE audit[u][f]
    <2>1. audit \in [Callers -> [LoginEvents -> Nat]] /\ w \in Callers /\ u \in Callers
          /\ {"LOGIN_SUCCESS", "MFA_PENDING"} \subseteq LoginEvents /\ e \in LoginEvents
        BY <1>1 DEF LoginTypeOK, Callers, LoginEvents
    <2> HIDE DEF e
    <2> QED
        BY <1>1, <2>1
<1>4. /\ Cardinality(Waiting(u, "auditPending")') =
             IF u = w /\ pc[s] = "auditPending"
             THEN Cardinality(Waiting(u, "auditPending")) - 1
             ELSE Cardinality(Waiting(u, "auditPending"))
      /\ Cardinality(Waiting(u, "auditSuccess")') =
             IF u = w /\ pc[s] = "auditSuccess"
             THEN Cardinality(Waiting(u, "auditSuccess")) - 1
             ELSE Cardinality(Waiting(u, "auditSuccess"))
      /\ Cardinality(Waiting(u, "auditSuccess")) \in Nat
      /\ Cardinality(Waiting(u, "auditPending")) \in Nat
    <2>1. ASSUME NEW place \in {"auditPending", "auditSuccess"}
          PROVE  /\ Cardinality(Waiting(u, place)) \in Nat
                 /\ Cardinality(Waiting(u, place)') \in Nat
                 /\ s \in Waiting(u, place) =>
                        Cardinality(Waiting(u, place)) = Cardinality(Waiting(u, place)') + 1
                 /\ s \notin Waiting(u, place) =>
                        Cardinality(Waiting(u, place)') = Cardinality(Waiting(u, place))
                 /\ s \in Waiting(u, place) <=> u = w /\ pc[s] = place
        BY <1>1, <1>2, WaitingMoves
    <2> QED
        BY <2>1
<1>5. /\ audit[u]["LOGIN_SUCCESS"] + Cardinality(Waiting(u, "auditSuccess")) <= sessions[u]
      /\ audit[u]["MFA_PENDING"] + Cardinality(Waiting(u, "auditPending"))
             <= Cardinality(Drawn(u, issued))
    BY DEF TrailInv
<1> QED
    BY <1>1, <1>3, <1>4, <1>5, TrailType

LEMMA TrailNext ==
    ASSUME NEW places, LoginTypeOK(places), TrailInv, [Service]_vars
    PROVE  TrailInv'
<1> USE DEF LoginTypeOK, RequestsTypeOK
<1>1. ASSUME NEW s \in Slots, UNCHANGED <<issued, sessions>>,
             \/ audit' = audit
             \/ \E u \in Callers, e \in {"LOGIN_LOCKED", "LOGIN_FAILED"} : Audit(u, e),
             \A r \in Slots \ {s} : pc'[r] = pc[r] /\ who'[r] = who[r],
             pc'[s] \notin {"auditSuccess", "auditPending"} \/ (pc' = pc /\ who' = who)
      PROVE  TrailInv'
    <2>1. \A u \in Accounts : \A e \in {"LOGIN_SUCCESS", "MFA_PENDING"} :
               audit'[u][e] = audit[u][e]
        <3>1. ASSUME NEW v \in Callers, NEW f \in {"LOGIN_LOCKED", "LOGIN_FAILED"}, Audit(v, f),
                     NEW u \in Accounts, NEW e \in {"LOGIN_SUCCESS", "MFA_PENDING"}
              PROVE  audit'[u][e] = audit[u][e]
            <4>1. audit' = [audit EXCEPT ![v] = [audit[v] EXCEPT ![f] = audit[v][f] + 1]]
                BY <3>1 DEF Audit
            <4>2. audit \in [Callers -> [LoginEvents -> Nat]] /\ u \in Callers
                  /\ e \in LoginEvents /\ f # e
                BY DEF Callers, LoginEvents
            <4> QED
                BY <4>1, <4>2
        <3> QED
            BY <1>1, <3>1
    <2> QED
        BY <1>1, <2>1, TrailKept
<1>2. ASSUME NEW s \in Slots, NEW u \in Accounts, NEW right \in BOOLEAN,
             Receive(s, u, right)
      PROVE  TrailInv'
    BY <1>1, <1>2 DEF Receive, Find, GoTo
<1>3. ASSUME NEW s \in Slots, UnknownEmail(s) PROVE TrailInv'
    BY <1>1, <1>3 DEF UnknownEmail, Callers
<1>4. ASSUME NEW s \in Slots, RejectLocked(s) \/ AuditFailed(s) PROVE TrailInv'
    BY <1>1, <1>4 DEF RejectLocked, AuditFailed, Finish, At, Callers
<1>5. ASSUME NEW s \in Slots,
             WrongPassword(s) \/ RightPassword(s) \/ LoginSelect(s) \/ LoginUpdate(s)
      PROVE  TrailInv'
    <2>1. CASE WrongPassword(s)
        BY <1>1, <2>1 DEF WrongPassword, GoTo
    <2>2. CASE RightPassword(s)
        BY <1>1, <2>2 DEF RightPassword, GoTo
    <2>3. CASE LoginSelect(s)
        BY <1>1, <2>3 DEF LoginSelect, SaveSelect, AfterSave, GoTo
    <2>4. CASE LoginUpdate(s)
        BY <1>1, <2>4 DEF LoginUpdate, AfterSave, GoTo
    <2> QED
        BY <1>5, <2>1, <2>2, <2>3, <2>4
<1>6. ASSUME NEW s \in Slots, LoginFail(s) PROVE TrailInv'
    BY <1>1, <1>6 DEF LoginFail, Fail, Finish
<1>7. ASSUME UNCHANGED <<issued, sessions, audit, pc, who>> PROVE TrailInv'
    BY <1>7, TrailKept
<1> QED
    BY <1>2, <1>3, <1>4, <1>5, <1>6, <1>7, TrailToken, TrailSession, TrailAudit
       DEF Service, LoginNext, LoginStep, Unlock, AdminUnlock, Tick

LEMMA TrailInit ==
    ASSUME RequestsInit, LoginInit
    PROVE  TrailInv
<1> SUFFICES ASSUME NEW u \in Accounts
             PROVE  /\ audit[u]["LOGIN_SUCCESS"] + Cardinality(Waiting(u, "auditSuccess"))
                           <= sessions[u]
                    /\ audit[u]["MFA_PENDING"] + Cardinality(Waiting(u, "auditPending"))
                           <= Cardinality(Drawn(u, issued))
    BY DEF TrailInv
<1>1. Waiting(u, "auditSuccess") = {} /\ Waiting(u, "auditPending") = {} /\ Drawn(u, issued) = {}
    BY DEF RequestsInit, LoginInit, Waiting, Drawn
<1>2. sessions[u] = 0 /\ audit[u]["LOGIN_SUCCESS"] = 0 /\ audit[u]["MFA_PENDING"] = 0
    BY DEF LoginInit, Callers, LoginEvents
<1> QED
    BY <1>1, <1>2, FS_EmptySet

LEMMA TrailInvBacked ==
    ASSUME NEW places, LoginTypeOK(places), TrailInv
    PROVE  AuditBacked
<1>1. \A u \in Accounts : /\ Cardinality(Waiting(u, "auditSuccess")) \in Nat
                          /\ Cardinality(Waiting(u, "auditPending")) \in Nat
    <2>1. \A u \in Accounts, place \in {"auditSuccess", "auditPending"} :
              Waiting(u, place) \in SUBSET Slots
        BY DEF Waiting
    <2> QED
        BY <2>1, CountShrinks
<1> QED
    BY <1>1, TrailType DEF TrailInv, AuditBacked

\* However requests interleave and wherever they fail, the audit trail has no success
\* without its session and no pending second factor without its temporary token
\* (login, which writes the effect before the audit row).
THEOREM TrailTrue == Spec => []AuditBacked
<1>1. Init => TypeOK /\ TrailInv
    BY TypeInit, TrailInit DEF TypeOK, Init
<1>2. TypeOK /\ TrailInv /\ [Next]_vars => (TypeOK /\ TrailInv)'
    BY TypeNext, TrailNext, NextService DEF TypeOK
<1>3. TypeOK /\ TrailInv => AuditBacked
    BY TrailInvBacked DEF TypeOK
<1> QED
    BY <1>1, <1>2, <1>3, PTL DEF Spec

=============================================================================
