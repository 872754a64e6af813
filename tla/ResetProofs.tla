----------------------------- MODULE ResetProofs -----------------------------
(***************************************************************************)
(* Theorems about the reset script beside a running service, for every set *)
(* of users, every number of concurrent requests, every threshold and      *)
(* bound: what LoginProofs shows of the service survives the script, and   *)
(* the passwords the script sets stay.                                     *)
(***************************************************************************)
EXTENDS Reset, LoginProofs

Places == LoginPlaces \cup {"idle"}

LEMMA ServiceOfStep == ServiceStep => [Service]_vars
<1>1. \A u \in Accounts : (Quiet(u) /\ u \notin todo) \in BOOLEAN
    BY DEF Quiet
<1> QED
    BY <1>1 DEF ServiceStep, Service

-----------------------------------------------------------------------------
(* Types.                                                                  *)

LEMMA ResetTypeInit == ResetInit => ResetTypeOK
BY TypeInit, NewRowType DEF ResetInit, ResetTypeOK, TypeOK, Stages

LEMMA ScriptType ==
    ASSUME ResetTypeOK, ScriptStep
    PROVE  ResetTypeOK'
<1> USE DEF ResetTypeOK, TypeOK, LoginTypeOK, RequestsTypeOK, Stages, slotVars
<1>1. CASE ResetClear
  <2>1. users' \in [Accounts -> Row]
      BY <1>1, ClearUserType DEF ResetClear
  <2>2. wrongs' \in [Accounts -> Nat] /\ streak' \in [Accounts -> Nat]
      BY <1>1 DEF ResetClear
  <2> QED
      BY <1>1, <2>1, <2>2 DEF ResetClear, ServiceUnchanged
<1>2. CASE ResetFind
    BY <1>2 DEF ResetFind, ServiceUnchanged
<1>3. ASSUME NEW u \in Accounts, ResetSelect(u) PROVE ResetTypeOK'
  <2>1. [held[u] EXCEPT !.passwordHash = NewHash] \in Row
      BY RehashType DEF NewHash
  <2>2. held' \in [Accounts -> Row]
      BY <1>3, <2>1 DEF ResetSelect
  <2>3. altered' \subseteq Columns
      BY <1>3 DEF ResetSelect, Changed
  <2> QED
      BY <1>3, <2>2, <2>3 DEF ResetSelect, ServiceUnchanged
<1>4. CASE ResetUpdate
  <2>1. current \in Accounts
      BY <1>4 DEF ResetUpdate
  <2>2. Merge(users[current], held[current], altered) \in Row
      BY <2>1, MergeType
  <2>3. users' \in [Accounts -> Row]
      BY <1>4, <2>1, <2>2 DEF ResetUpdate
  <2> QED
      BY <1>4, <2>1, <2>3, NewRowType DEF ResetUpdate, ServiceUnchanged
<1>5. CASE ResetDie
    BY <1>5, NewRowType DEF ResetDie, ServiceUnchanged
<1> QED
    BY <1>1, <1>2, <1>3, <1>4, <1>5 DEF ScriptStep

LEMMA ResetTypeNext == ResetTypeOK /\ [ResetNext]_resetVars => ResetTypeOK'
<1> SUFFICES ASSUME ResetTypeOK, [ResetNext]_resetVars PROVE ResetTypeOK'
    OBVIOUS
<1>1. CASE ScriptStep
    BY <1>1, ScriptType
<1>2. ASSUME [Service]_vars, UNCHANGED scriptVars PROVE ResetTypeOK'
  <2>1. TypeOK'
      BY <1>2, TypeNext DEF ResetTypeOK, TypeOK
  <2> QED
      BY <1>2, <2>1 DEF ResetTypeOK, scriptVars
<1> QED
    BY <1>1, <1>2, ServiceOfStep DEF ResetNext, resetVars

\* The script and the service together are type correct (resetUsers, login).
THEOREM ResetTypeCorrect == ResetSpec => []ResetTypeOK
<1>1. ResetInit => ResetTypeOK
    BY ResetTypeInit
<1>2. ResetTypeOK /\ [ResetNext]_resetVars => ResetTypeOK'
    BY ResetTypeNext
<1> QED
    BY <1>1, <1>2, PTL DEF ResetSpec

-----------------------------------------------------------------------------
(* The script invents no failures and prolongs no lock.                    *)

\* What the script holds is one more copy of the rows.
ResetBackedInv == BackedInv /\ HeldBacked

LEMMA ResetBackedInit == ResetInit => ResetBackedInv
BY BackedInit DEF ResetInit, ResetBackedInv, HeldBacked

\* The service forgets failures of a user only when nobody holds a copy.
LEMMA HeldService ==
    ASSUME ResetTypeOK, HeldBacked, ServiceStep, UNCHANGED scriptVars
    PROVE  HeldBacked'
<1>1. \A u \in todo : wrongs'[u] >= wrongs[u]
  <2>1. ASSUME NEW s \in Slots, WrongPassword(s) PROVE \A u \in Accounts : wrongs'[u] >= wrongs[u]
      BY <2>1 DEF ResetTypeOK, TypeOK, LoginTypeOK, WrongPassword, Bump
  <2>2. ASSUME NEW u \in Accounts, Unlock(u, Quiet(u) /\ u \notin todo)
        PROVE  \A v \in todo : wrongs'[v] >= wrongs[v]
      BY <2>2 DEF ResetTypeOK, TypeOK, LoginTypeOK, Unlock
  <2>3. wrongs' = wrongs => \A u \in todo : wrongs'[u] >= wrongs[u]
      BY DEF ResetTypeOK, TypeOK, LoginTypeOK
  <2>4. LoginNext => wrongs' = wrongs \/ \E s \in Slots : WrongPassword(s)
      BY DEF LoginNext, LoginStep, Receive, UnknownEmail, RejectLocked, RightPassword,
         LoginSelect, LoginUpdate, AuditFailed, IssueToken, AuditPending,
         CreateSession, AuditSuccess, LoginFail, loginVars, ghostVars
  <2>5. Tick /\ UNCHANGED loginVars => wrongs' = wrongs
      BY DEF loginVars, ghostVars
  <2> QED
      BY <2>1, <2>2, <2>3, <2>4, <2>5 DEF ServiceStep, ResetTypeOK
<1>2. \A u \in todo : wrongs[u] \in Nat /\ wrongs'[u] \in Nat
                      /\ held[u].failedAttempts \in Nat
  <2>1. TypeOK'
      BY TypeNext, ServiceOfStep DEF ResetTypeOK, TypeOK
  <2> QED
      BY <2>1 DEF ResetTypeOK, TypeOK, LoginTypeOK, Row
<1> QED
    BY <1>1, <1>2, ThresholdAssumption DEF HeldBacked, Backed, scriptVars

LEMMA ResetBackedNext ==
    ResetTypeOK /\ ResetBackedInv /\ [ResetNext]_resetVars => ResetBackedInv'
<1> SUFFICES ASSUME ResetTypeOK, ResetBackedInv, [ResetNext]_resetVars
             PROVE  ResetBackedInv'
    OBVIOUS
<1> USE DEF ResetBackedInv
<1>1. LoginTypeOK(Places) /\ todo \subseteq Accounts
    BY DEF ResetTypeOK, TypeOK, Places
<1>2. CASE ResetClear
  <2>1. /\ \A u \in Accounts : Cleared(users'[u])
        /\ \A u \in Accounts : wrongs'[u] = IF Quiet(u) THEN 0 ELSE wrongs[u]
        /\ UNCHANGED <<who, entity>>
      BY <1>2, ClearUserColumns DEF ResetClear, ServiceUnchanged, Cleared, slotVars
  <2>2. BackedInv'
      BY <1>1, <2>1, BackedForgotten
  <2>3. HeldBacked'
      BY <1>2 DEF HeldBacked, ResetClear, ResetTypeOK
  <2> QED
      BY <2>2, <2>3
<1>3. CASE ResetFind
  <2>1. BackedInv'
      BY <1>3 DEF ResetFind, ServiceUnchanged, BackedInv, LockBacked, EntitiesBacked,
         Backed, slotVars
  <2>2. HeldBacked'
      BY <1>3 DEF ResetFind, BackedInv, LockBacked, HeldBacked, Backed
  <2> QED
      BY <2>1, <2>2
<1>4. ASSUME NEW u \in Accounts, ResetSelect(u) PROVE ResetBackedInv'
  <2>1. BackedInv'
      BY <1>4 DEF ResetSelect, ServiceUnchanged, BackedInv, LockBacked, EntitiesBacked,
         Backed, slotVars
  <2>2. held' = [held EXCEPT ![u].passwordHash = NewHash]
        /\ UNCHANGED <<todo, wrongs>>
      BY <1>4 DEF ResetSelect
  <2>3. \A v \in Accounts : held'[v].failedAttempts = held[v].failedAttempts
                            /\ held'[v].lockedUntil = held[v].lockedUntil
      BY <2>2 DEF ResetTypeOK, Row
  <2>4. HeldBacked'
      BY <1>1, <2>2, <2>3 DEF HeldBacked, Backed
  <2> QED
      BY <2>1, <2>4
<1>5. CASE ResetUpdate
  <2>1. current \in todo /\ current \in Accounts
      BY <1>1, <1>5 DEF ResetUpdate, ResetTypeOK
  <2>2. Backed(current, Merge(users[current], held[current], altered))
      BY <2>1, BackedMerge DEF BackedInv, LockBacked, HeldBacked
  <2>3. /\ users' = [users EXCEPT ![current] =
                         Merge(users[current], held[current], altered)]
        /\ held' = [held EXCEPT ![current] = NewRow]
        /\ todo' = todo \ {current}
        /\ UNCHANGED <<wrongs, who, entity>>
      BY <1>5 DEF ResetUpdate, ServiceUnchanged, slotVars
  <2>4. BackedInv'
      BY <1>1, <2>1, <2>2, <2>3
         DEF LoginTypeOK, RequestsTypeOK, BackedInv, LockBacked, EntitiesBacked, Backed
  <2>5. HeldBacked'
      BY <2>3 DEF HeldBacked, Backed, ResetTypeOK
  <2> QED
      BY <2>4, <2>5
<1>6. CASE ResetDie
    BY <1>6 DEF ResetDie, ServiceUnchanged, BackedInv, LockBacked, EntitiesBacked,
       HeldBacked, Backed, slotVars
<1>7. CASE ServiceStep /\ UNCHANGED scriptVars
  <2>1. BackedInv'
      BY <1>1, <1>7, ServiceOfStep, BackedNext
  <2> QED
      BY <1>7, <2>1, HeldService
<1>8. CASE UNCHANGED resetVars
    BY <1>8 DEF resetVars, vars, loginVars, ghostVars, slotVars, scriptVars, BackedInv,
       LockBacked, EntitiesBacked, HeldBacked, Backed
<1> QED
    BY <1>2, <1>3, <1>4, <1>5, <1>6, <1>7, <1>8 DEF ResetNext, ScriptStep

\* The script's stale saves invent no failures either: with it running, an
\* account is still locked only after LockThreshold wrong passwords (resetUsers).
THEOREM ResetLockSound == ResetSpec => []LockBacked
<1>1. ResetInit => ResetTypeOK /\ ResetBackedInv
    BY ResetTypeInit, ResetBackedInit
<1>2. ResetTypeOK /\ ResetBackedInv /\ [ResetNext]_resetVars
      => (ResetTypeOK /\ ResetBackedInv)'
    BY ResetTypeNext, ResetBackedNext
<1>3. ResetBackedInv => LockBacked
    BY DEF ResetBackedInv, BackedInv
<1> QED
    BY <1>1, <1>2, <1>3, PTL DEF ResetSpec

-----------------------------------------------------------------------------
(* No lock for ever.                                                       *)

ResetBoundedInv == BoundedInv /\ HeldBounded

LEMMA ResetBoundedInit == ResetInit => ResetBoundedInv
BY BoundedInit DEF ResetInit, ResetBoundedInv, HeldBounded

LEMMA ResetBoundedNext ==
    ResetTypeOK /\ ResetBoundedInv /\ [ResetNext]_resetVars => ResetBoundedInv'
<1> SUFFICES ASSUME ResetTypeOK, ResetBoundedInv, [ResetNext]_resetVars
             PROVE  ResetBoundedInv'
    OBVIOUS
<1> USE DEF ResetBoundedInv
<1>1. LoginTypeOK(Places) /\ todo \subseteq Accounts
    BY DEF ResetTypeOK, TypeOK, Places
<1>2. CASE ResetClear
  <2>1. /\ \A u \in Accounts : users'[u].lockedUntil = 0
        /\ UNCHANGED <<now, entity>>
      BY <1>2, ClearUserColumns DEF ResetClear, ServiceUnchanged, slotVars, Null
  <2>2. BoundedInv'
      BY <1>1, <2>1, ThresholdAssumption
         DEF LoginTypeOK, RequestsTypeOK, BoundedInv, LockBounded, EntitiesBounded
  <2>3. HeldBounded'
      BY <1>2 DEF HeldBounded, ResetClear, ResetTypeOK
  <2> QED
      BY <2>2, <2>3
<1>3. CASE ResetFind
    BY <1>3, BoundedSame DEF ResetFind, ServiceUnchanged, BoundedInv, LockBounded,
       HeldBounded, slotVars
<1>4. ASSUME NEW u \in Accounts, ResetSelect(u) PROVE ResetBoundedInv'
  <2>1. BoundedInv'
      BY <1>4, BoundedSame DEF ResetSelect, ServiceUnchanged, slotVars
  <2>2. held' = [held EXCEPT ![u].passwordHash = NewHash]
        /\ UNCHANGED <<todo, now>>
      BY <1>4 DEF ResetSelect, ServiceUnchanged
  <2>3. \A v \in Accounts : held'[v].lockedUntil = held[v].lockedUntil
      BY <2>2 DEF ResetTypeOK, Row
  <2> QED
      BY <1>1, <2>1, <2>2, <2>3 DEF HeldBounded
<1>5. CASE ResetUpdate
  <2> DEFINE row == Merge(users[current], held[current], altered)
  <2>1. current \in todo /\ current \in Accounts
      BY <1>1, <1>5 DEF ResetUpdate, ResetTypeOK
  <2>2. row.lockedUntil <= now + LockTicks
      BY <2>1, MergeColumns DEF BoundedInv, LockBounded, HeldBounded
  <2>3. /\ users' = [users EXCEPT ![current] = row]
        /\ held' = [held EXCEPT ![current] = NewRow]
        /\ todo' = todo \ {current}
        /\ UNCHANGED <<now, entity>>
      BY <1>5 DEF ResetUpdate, ServiceUnchanged, slotVars
  <2>4. BoundedInv'
      BY <1>1, <2>1, <2>2, <2>3, BoundedWrite
  <2>5. HeldBounded'
      BY <2>3 DEF HeldBounded, ResetTypeOK
  <2> QED
      BY <2>4, <2>5
<1>6. CASE ResetDie
    BY <1>6, BoundedSame DEF ResetDie, ServiceUnchanged, HeldBounded, slotVars
<1>7. CASE ServiceStep /\ UNCHANGED scriptVars
  <2>1. BoundedInv'
      BY <1>1, <1>7, ServiceOfStep, BoundedNext
  <2>2. now' = now \/ now' = now + 1
      BY <1>7 DEF ServiceStep, LoginNext, LoginStep, Receive, UnknownEmail,
         RejectLocked, WrongPassword, RightPassword, LoginSelect, SaveSelect,
         LoginUpdate, AuditFailed, IssueToken, AuditPending, CreateSession,
         AuditSuccess, LoginFail, Fail, Unlock, AdminUnlock, Tick
  <2>3. \A u \in todo : held[u].lockedUntil \in Nat
      BY DEF ResetTypeOK, Row
  <2>4. now \in Nat
      BY <1>1 DEF LoginTypeOK, RequestsTypeOK
  <2>5. HeldBounded'
      BY <1>7, <2>2, <2>3, <2>4, ThresholdAssumption DEF HeldBounded, scriptVars
  <2> QED
      BY <2>1, <2>5
<1>8. CASE UNCHANGED resetVars
    BY <1>8, BoundedSame DEF resetVars, vars, slotVars, scriptVars, HeldBounded
<1> QED
    BY <1>2, <1>3, <1>4, <1>5, <1>6, <1>7, <1>8 DEF ResetNext, ScriptStep

\* The script's late saves prolong no lock either (resetUsers).
THEOREM ResetLockEnds == ResetSpec => []LockBounded
<1>1. ResetInit => ResetTypeOK /\ ResetBoundedInv
    BY ResetTypeInit, ResetBoundedInit
<1>2. ResetTypeOK /\ ResetBoundedInv /\ [ResetNext]_resetVars
      => (ResetTypeOK /\ ResetBoundedInv)'
    BY ResetTypeNext, ResetBoundedNext
<1>3. ResetBoundedInv => LockBounded
    BY DEF ResetBoundedInv, BoundedInv
<1> QED
    BY <1>1, <1>2, <1>3, PTL DEF ResetSpec

-----------------------------------------------------------------------------
(* The new passwords stay.                                                 *)

\* Every copy of u's row, in the table or in a handler's hands, has a hash of H.
HashIn(u, H) ==
    /\ users[u].passwordHash \in H
    /\ \A s \in Slots : who[s] = u => entity[s].passwordHash \in H

\* The service only moves copies about.
LEMMA HashKept ==
    ASSUME NEW places, LoginTypeOK(places), [Service]_vars,
           NEW u \in Accounts, NEW H, HashIn(u, H)
    PROVE  HashIn(u, H)'
<1> USE DEF HashIn, LoginTypeOK, RequestsTypeOK
<1>1. ASSUME NEW s \in Slots, NEW v \in Accounts, NEW right \in BOOLEAN,
             Receive(s, v, right)
      PROVE  HashIn(u, H)'
    BY <1>1 DEF Receive, Find
<1>2. ASSUME NEW s \in Slots, UnknownEmail(s) \/ CreateSession(s)
      PROVE  HashIn(u, H)'
    BY <1>2 DEF UnknownEmail, CreateSession, slotVars
<1>3. ASSUME NEW s \in Slots,
             RejectLocked(s) \/ AuditFailed(s) \/ AuditPending(s) \/ AuditSuccess(s)
      PROVE  HashIn(u, H)'
    BY <1>3, RequestAssumption
       DEF RejectLocked, AuditFailed, AuditPending, AuditSuccess, Finish
<1>4. ASSUME NEW s \in Slots, WrongPassword(s) \/ RightPassword(s)
      PROVE  HashIn(u, H)'
  <2> DEFINE ent == entity'[s]
  <2>1. ent.passwordHash = entity[s].passwordHash
      BY <1>4, HashColumn DEF WrongPassword, RightPassword
  <2>2. \A r \in Slots \ {s} : entity'[r] = entity[r]
      BY <1>4 DEF WrongPassword, RightPassword
  <2>3. UNCHANGED <<users, who>>
      BY <1>4 DEF WrongPassword, RightPassword
  <2> QED
      BY <2>1, <2>2, <2>3
<1>6. ASSUME NEW s \in Slots, LoginSelect(s) PROVE HashIn(u, H)'
    BY <1>6 DEF LoginSelect, SaveSelect
<1>7. ASSUME NEW s \in Slots, LoginUpdate(s) \/ IssueToken(s) PROVE HashIn(u, H)'
  <2>1. who[s] \in Accounts /\ UNCHANGED <<who, entity>>
      BY <1>7 DEF LoginUpdate, IssueToken, At
  <2>2. \A v \in Accounts \ {who[s]} : users'[v] = users[v]
    <3>1. CASE LoginUpdate(s)
        BY <2>1, <3>1 DEF LoginUpdate, SaveUpdate
    <3>2. CASE IssueToken(s)
        BY <2>1, <3>2 DEF IssueToken, UpdateRow
    <3> QED
        BY <1>7, <3>1, <3>2
  <2>3. users'[who[s]].passwordHash
            \in {users[who[s]].passwordHash, entity[s].passwordHash}
    <3>1. CASE LoginUpdate(s)
        <4>1. users' = [users EXCEPT ![who[s]] =
                            Merge(users[who[s]], entity[s], dirty[s])]
            BY <3>1 DEF LoginUpdate, SaveUpdate
        <4> QED
            BY <2>1, <4>1, HashColumn
    <3>2. CASE IssueToken(s)
        <4>1. users' = [users EXCEPT ![who[s]] =
                    SetTempToken(users[who[s]], Len(issued) + 1, now + TempTtl)]
            BY <3>2 DEF IssueToken, UpdateRow
        <4> QED
            BY <2>1, <4>1, HashColumn
    <3> QED
        BY <1>7, <3>1, <3>2
  <2> QED
      BY <2>1, <2>2, <2>3
<1>9. ASSUME NEW s \in Slots, LoginFail(s) PROVE HashIn(u, H)'
    BY <1>9, RequestAssumption DEF LoginFail, Fail, Finish
<1>10. ASSUME NEW v \in Accounts, NEW undisturbed, Unlock(v, undisturbed)
       PROVE  HashIn(u, H)'
    BY <1>10, HashColumn DEF Unlock, AdminUnlock, slotVars
<1>11. CASE Tick
    BY <1>11 DEF Tick, slotVars
<1>12. CASE UNCHANGED vars
    BY <1>12 DEF vars, slotVars
<1> QED
    BY <1>1, <1>2, <1>3, <1>4, <1>6, <1>7, <1>9, <1>10, <1>11, <1>12
       DEF Service, LoginNext, LoginStep

\* Until the script saves a user nobody has the new hash; therefore its save finds
\* the hash changed, and writes it.
Pending(u) == stage \in {"off", "cleared"} \/ u \in todo

OldHashes == Nat \ {NewHash}

HashInv ==
    /\ \A u \in Accounts : Pending(u) => HashIn(u, OldHashes)
    /\ \A u \in secured : HashIn(u, {NewHash})
    /\ stage = "saving" => /\ held[current].passwordHash = NewHash
                           /\ "passwordHash" \in altered

LEMMA HashInit == ResetInit => HashInv
BY RequestAssumption
   DEF ResetInit, Init, RequestsInit, HashInv, HashIn, Pending, OldHashes, NewHash,
       NewRow, Assign, Columns

LEMMA HashSame ==
    ASSUME UNCHANGED <<users, who, entity>>
    PROVE  \A u, H : HashIn(u, H) => HashIn(u, H)'
BY DEF HashIn

LEMMA HashNext == ResetTypeOK /\ HashInv /\ [ResetNext]_resetVars => HashInv'
<1> SUFFICES ASSUME ResetTypeOK, HashInv, [ResetNext]_resetVars PROVE HashInv'
    OBVIOUS
<1> USE DEF HashInv
<1>1. LoginTypeOK(Places) /\ todo \subseteq Accounts /\ secured \subseteq Accounts
    BY DEF ResetTypeOK, TypeOK, Places
<1>2. CASE ResetClear
  <2>1. \A u \in Accounts : users'[u].passwordHash = users[u].passwordHash
      BY <1>2, HashColumn DEF ResetClear
  <2>2. \A u \in Accounts : \A H : HashIn(u, H) => HashIn(u, H)'
      BY <1>2, <2>1 DEF HashIn, ResetClear, ServiceUnchanged, slotVars
  <2> QED
      BY <1>1, <1>2, <2>2 DEF ResetClear, Pending
<1>3. CASE ResetFind
    BY <1>1, <1>3, HashSame DEF ResetFind, Pending, ServiceUnchanged, slotVars
<1>4. ASSUME NEW u \in Accounts, ResetSelect(u) PROVE HashInv'
  <2>1. held'[u].passwordHash = NewHash
      BY <1>4 DEF ResetSelect, ResetTypeOK, Row
  <2>2. users[u].passwordHash # NewHash
      BY <1>4 DEF ResetSelect, Pending, HashIn, OldHashes
  <2>3. "passwordHash" \in altered'
      BY <1>4, <2>1, <2>2 DEF ResetSelect, Changed, Columns
  <2> QED
      BY <1>1, <1>4, <2>1, <2>3, HashSame
         DEF ResetSelect, Pending, ServiceUnchanged, slotVars
<1>5. CASE ResetUpdate
  <2>1. PICK u \in Accounts : u = current /\ u \in todo
      BY <1>1, <1>5 DEF ResetUpdate, ResetTypeOK
  <2>2. Merge(users[u], held[u], altered).passwordHash = NewHash
      BY <1>5, <2>1 DEF ResetUpdate, Merge, Columns
  <2>3. users'[u].passwordHash = NewHash
        /\ \A v \in Accounts \ {u} : users'[v] = users[v]
      BY <1>1, <1>5, <2>1, <2>2 DEF ResetUpdate, LoginTypeOK, RequestsTypeOK
  <2>4. /\ UNCHANGED <<who, entity>>
        /\ todo' = todo \ {u}
        /\ stage' \in {"over", "hashing"}
        /\ secured' = IF Quiet(u) THEN secured \cup {u} ELSE secured
      BY <1>5, <2>1 DEF ResetUpdate, ServiceUnchanged, slotVars
  <2>5. \A v \in Accounts \ {u} : \A H : HashIn(v, H) => HashIn(v, H)'
      BY <2>3, <2>4 DEF HashIn
  <2>6. Quiet(u) \/ u \in secured => HashIn(u, {NewHash})'
      BY <2>3, <2>4 DEF HashIn, Quiet
  <2> QED
      BY <1>1, <1>5, <2>1, <2>4, <2>5, <2>6 DEF Pending, ResetUpdate
<1>6. CASE ResetDie
    BY <1>1, <1>6, HashSame DEF ResetDie, Pending, ServiceUnchanged, slotVars
<1>7. CASE ServiceStep /\ UNCHANGED scriptVars
  <2>1. \A u \in Accounts : \A H : HashIn(u, H) => HashIn(u, H)'
      BY <1>1, <1>7, ServiceOfStep, HashKept
  <2> QED
      BY <1>1, <1>7, <2>1 DEF scriptVars, Pending
<1>8. CASE UNCHANGED resetVars
    BY <1>1, <1>8, HashSame DEF resetVars, vars, slotVars, scriptVars, Pending
<1> QED
    BY <1>2, <1>3, <1>4, <1>5, <1>6, <1>7, <1>8 DEF ResetNext, ScriptStep

\* A password the script set while nobody worked for the user is the password
\* from then on, whatever whole entities logins and the rest of the script save
\* (resetUsers, AuthService.login).
THEOREM ResetIsFinal == ResetSpec => []ResetHolds
<1>1. ResetInit => ResetTypeOK /\ HashInv
    BY ResetTypeInit, HashInit
<1>2. ResetTypeOK /\ HashInv /\ [ResetNext]_resetVars => (ResetTypeOK /\ HashInv)'
    BY ResetTypeNext, HashNext
<1>3. HashInv => ResetHolds
    BY DEF HashInv, HashIn, ResetHolds
<1> QED
    BY <1>1, <1>2, <1>3, PTL DEF ResetSpec

-----------------------------------------------------------------------------
(* The audit trail.                                                        *)

ResetTrailInv == TypeOK /\ TrailInv /\ AuditComplete

LEMMA ResetTrailNext ==
    ResetTypeOK /\ ResetTrailInv /\ [ResetNext]_resetVars => ResetTrailInv'
<1> SUFFICES ASSUME ResetTypeOK, ResetTrailInv, [ResetNext]_resetVars PROVE ResetTrailInv'
    OBVIOUS
<1> USE DEF ResetTrailInv, TypeOK
<1>0. TypeOK'
    BY ResetTypeNext DEF ResetTypeOK
<1>1. ASSUME UNCHANGED <<issued, sessions, audit, pc, who, started, failed>>
      PROVE  ResetTrailInv'
    <2>1. TrailInv'
        BY <1>1, TrailKept
    <2>2. AuditComplete'
        BY <1>1, CompleteStays
    <2> QED
        BY <1>0, <2>1, <2>2
<1>2. ASSUME [Service]_vars PROVE ResetTrailInv'
    BY <1>0, <1>2, TrailNext, CompleteNext
<1>3. CASE ScriptStep
    <2>1. ServiceUnchanged
        BY <1>3 DEF ScriptStep, ResetClear, ResetFind, ResetSelect, ResetUpdate, ResetDie
    <2> QED
        BY <1>1, <2>1 DEF ServiceUnchanged, slotVars
<1>4. CASE ServiceStep
    BY <1>2, <1>4, ServiceOfStep
<1>5. CASE UNCHANGED resetVars
    BY <1>2, <1>5 DEF resetVars
<1> QED
    BY <1>3, <1>4, <1>5 DEF ResetNext

LEMMA ResetTrailHolds == ResetSpec => []ResetTrailInv
<1>1. ResetInit => ResetTypeOK /\ ResetTrailInv
    BY ResetTypeInit, TrailInit, CompleteInit DEF ResetInit, Init, ResetTrailInv, ResetTypeOK
<1>2. ResetTypeOK /\ ResetTrailInv /\ [ResetNext]_resetVars => (ResetTypeOK /\ ResetTrailInv)'
    BY ResetTypeNext, ResetTrailNext
<1> QED
    BY <1>1, <1>2, PTL DEF ResetSpec

\* The script, which writes no audit row, takes nothing from the truth of the trail
\* of the logins beside it (resetUsers, login).
THEOREM ResetTrailTrue == ResetSpec => []AuditBacked
<1>1. ResetTrailInv => AuditBacked
    BY TrailInvBacked DEF ResetTrailInv, TypeOK
<1> QED
    BY <1>1, ResetTrailHolds, PTL

\* Nor from its completeness.
THEOREM ResetEveryLoginAudited == ResetSpec => []AuditComplete
<1>1. ResetTrailInv => AuditComplete
    BY DEF ResetTrailInv
<1> QED
    BY <1>1, ResetTrailHolds, PTL

=============================================================================
