---------------------------- MODULE SerialProofs ----------------------------
(***************************************************************************)
(* Theorems about the service when it serves one request at a time: what   *)
(* the handlers promise of counters, secrets and tokens when nobody else   *)
(* writes the row between their reading it and their saving it.  None of   *)
(* these holds of two requests at once (see the race runs).                *)
(*                                                                         *)
(* Until it writes, what the one request in progress holds was made of the *)
(* row that is in the table (Serial), so a save writes the entity as it is *)
(* and the columns of each row are related as its last write left them     *)
(* (SerialRow).                                                            *)
(***************************************************************************)
EXTENDS IamProofs

USE DEF vars, slotVars, loginVars, ghostVars, mfaVars, askVars, mfaGhosts, iamVars

OneAtATime == \E s : Slots = {s}

-----------------------------------------------------------------------------
(* The operators, free of state.                                           *)

\* A save of an entity over the row it was compared with writes the entity.
LEMMA MergeChanged ==
    ASSUME NEW row \in Row, NEW ent \in Row
    PROVE  Merge(row, ent, Changed(ent, row)) = ent
<1>1. /\ \A c \in Columns : Merge(row, ent, Changed(ent, row))[c] = ent[c]
      /\ Merge(row, ent, Changed(ent, row))
             = [c \in Columns |-> Merge(row, ent, Changed(ent, row))[c]]
    BY DEF Merge, Changed
<1>2. ent = [c \in Columns |-> ent[c]]
    BY DEF Row, Columns
<1> QED
    BY <1>1, <1>2

\* A row as one request after the other leaves it: n wrong passwords and m wrong
\* second factors were saved since they were last reset, the tokens spent are not in
\* it, the one that is was drawn last, and a row that has an expiry has a token.
SerialRow(row, n, m, spent, drawn) ==
    /\ row.failedAttempts = n
    /\ row.failedAttempts >= LockThreshold => row.lockedUntil # Null
    /\ row.mfaFailedAttempts = m
    /\ row.mfaFailedAttempts >= MfaThreshold => row.mfaLockedUntil # Null
    /\ row.mfaEnabled => row.mfaSecret # Null
    /\ row.mfaTempToken # Null =>
           row.mfaTempToken \notin spent /\ \A t \in drawn : t <= row.mfaTempToken
    /\ row.mfaTempTokenExpires # Null => row.mfaTempToken # Null

LEMMA SerialLoginOps ==
    ASSUME NEW row \in Row, NEW n \in Nat, NEW m \in Nat, NEW spent, NEW drawn,
           SerialRow(row, n, m, spent, drawn), NEW time \in Nat
    PROVE  /\ SerialRow(ResetFailed(row), 0, m, spent, drawn)
           /\ SerialRow(IncrementFailed(row, time), n + 1, m, spent, drawn)
           /\ SerialRow(UnlockUser(row), 0, 0, spent, drawn)
           /\ SerialRow(ResetUser(row), 0, 0, spent, drawn)
BY ThresholdAssumption
   DEF SerialRow, ResetFailed, IncrementFailed, UnlockUser, ResetUser, Assign, Row, Columns, Null

LEMMA SerialMfaOps ==
    ASSUME NEW row \in Row, NEW n \in Nat, NEW m \in Nat, NEW spent, NEW drawn,
           SerialRow(row, n, m, spent, drawn), NEW time \in Nat, NEW k \in Nat, NEW all
    PROVE  /\ k # Null => SerialRow(SetMfaSecret(row, k), n, m, spent, drawn)
           /\ row.mfaSecret # Null => SerialRow(EnableMfa(row, k), n, m, spent, drawn)
           /\ SerialRow(DisableMfa(row), n, 0, spent, drawn)
           /\ SerialRow(EnableBiometric(row, k), n, m, spent, drawn)
           /\ SerialRow(DisableBiometric(row), n, m, spent, drawn)
           /\ SerialRow(IncrementMfaFailed(row, time), n, m + 1, spent, drawn)
           /\ SerialRow(ResetMfaFailed(row), n, 0, spent, drawn)
           /\ SerialRow(ClearMfaTempToken(row), n, m, all, drawn)
BY ThresholdAssumption
   DEF SerialRow, SetMfaSecret, EnableMfa, DisableMfa, EnableBiometric, DisableBiometric,
       IncrementMfaFailed, ResetMfaFailed, ClearMfaTempToken, Assign, Row, Columns, Null

LEMMA SerialToken ==
    ASSUME NEW row \in Row, NEW n \in Nat, NEW m \in Nat, NEW spent, NEW drawn,
           SerialRow(row, n, m, spent, drawn),
           NEW token \in Nat \ {Null}, token \notin spent, NEW expires,
           NEW all, \A t \in all : t <= token
    PROVE  SerialRow(SetTempToken(row, token, expires), n, m, spent, all)
BY DEF SerialRow, SetTempToken, Assign, Row, Columns, Null

-----------------------------------------------------------------------------
(* The invariant.                                                          *)

\* The password was judged when the account was open, not later than now.
Judged(row, ent, right, time) ==
    \E t \in Nat :
        /\ row.lockedUntil <= t /\ t <= time
        /\ ent = IF right THEN ResetFailed(row) ELSE IncrementFailed(row, t)

\* What the request in progress holds, of the row it works on.
Serial(s) ==
    /\ pc[s] \in {"found", "asked", "unlocked", "right"} => entity[s] = users[who[s]]
    /\ pc[s] \in {"select", "update"} => Judged(users[who[s]], entity[s], ok[s], now)
    /\ pc[s] \in {"mfaSelect", "mfaUpdate"} =>
           \E t \in Nat : entity[s] = IncrementMfaFailed(users[who[s]], t)
    /\ pc[s] \in {"update", "mfaUpdate"} => dirty[s] = Changed(entity[s], users[who[s]])
    /\ pc[s] = "clearToken" => entity[s].mfaTempToken = users[who[s]].mfaTempToken
    /\ pc[s] \in {"unlocked", "right", "clearToken"} => entity[s].mfaTempToken # Null
    /\ pc[s] = "enableMfa" => users[who[s]].mfaSecret # Null

Spent(grants) == {grants[i].token : i \in 1 .. Len(grants)}

SerialRows ==
    \A u \in Accounts :
        SerialRow(users[u], streak[u], mfaStreak[u], Spent(granted), Drawn(u, issued))

SerialInv == /\ now # Null
             /\ \A s \in Slots : Serial(s)
             /\ SerialRows
             /\ TokenSpentOnce
             /\ GrantedToIssued

LEMMA SerialInit == IamInit => SerialInv
<1> SUFFICES ASSUME IamInit PROVE SerialInv
    OBVIOUS
<1>1. \A s \in Slots : Serial(s)
    BY DEF IamInit, RequestsInit, Serial
<1>2. granted = <<>> /\ issued = <<>>
    BY DEF IamInit, LoginInit, MfaInit
<1>3. TokenSpentOnce /\ GrantedToIssued
    BY <1>2 DEF TokenSpentOnce, GrantedToIssued
<1>5. now # Null
    BY DEF IamInit, RequestsInit, Null
<1>4. SerialRows
    BY ThresholdAssumption
       DEF SerialRows, SerialRow, IamInit, RequestsInit, LoginInit, MfaInit, NewRow, Assign,
           Columns, Null
<1> QED
    BY <1>1, <1>3, <1>4, <1>5 DEF SerialInv

\* A write of one row, by a step that draws and grants nothing.
LEMMA SerialWrite ==
    ASSUME IamTypes, SerialRows, NEW u \in Accounts, NEW row,
           users' = [users EXCEPT ![u] = row],
           SerialRow(row, streak'[u], mfaStreak'[u], Spent(granted), Drawn(u, issued)),
           \A v \in Accounts \ {u} : streak'[v] = streak[v] /\ mfaStreak'[v] = mfaStreak[v],
           UNCHANGED <<issued, granted>>
    PROVE  SerialRows'
<1>1. \A v \in Accounts : users'[v] = IF v = u THEN row ELSE users[v]
    BY DEF IamTypes, LoginTypeOK, RequestsTypeOK
<1> SUFFICES ASSUME NEW v \in Accounts
             PROVE  SerialRow(users'[v], streak'[v], mfaStreak'[v], Spent(granted'), Drawn(v, issued'))
    BY DEF SerialRows
<1>2. SerialRow(users[v], streak[v], mfaStreak[v], Spent(granted), Drawn(v, issued))
    BY DEF SerialRows
<1> QED
    BY <1>1, <1>2

LEMMA SerialSame ==
    ASSUME SerialRows, UNCHANGED <<users, streak, mfaStreak, issued, granted>>
    PROVE  SerialRows'
<1> SUFFICES ASSUME NEW v \in Accounts
             PROVE  SerialRow(users'[v], streak'[v], mfaStreak'[v], Spent(granted'), Drawn(v, issued'))
    BY DEF SerialRows
<1>1. SerialRow(users[v], streak[v], mfaStreak[v], Spent(granted), Drawn(v, issued))
    BY DEF SerialRows
<1> QED
    BY <1>1

-----------------------------------------------------------------------------
(* The steps: what is held.                                                *)

\* With one slot, what the slot that moves holds is all there is to show.
LEMMA Alone ==
    ASSUME OneAtATime, NEW s \in Slots, Serial(s)'
    PROVE  \A r \in Slots : Serial(r)'
BY DEF OneAtATime

\* An idle slot holds nothing, and with one slot nobody does.
LEMMA AtRest ==
    ASSUME OneAtATime, NEW s \in Slots, pc'[s] = "idle"
    PROVE  \A r \in Slots : Serial(r)'
BY Alone DEF Serial

\* A slot that has written, or has nothing to write.
Light == {"idle", "auditFailed", "issueToken", "auditPending", "createSession",
          "auditSuccess", "disableMfa", "enableBiometric", "wrong"}

LEMMA AtLight ==
    ASSUME OneAtATime, NEW s \in Slots, pc'[s] \in Light
    PROVE  \A r \in Slots : Serial(r)'
BY Alone DEF Serial, Light

LEMMA HeldLogin ==
    ASSUME OneAtATime, IamTypes, \A s \in Slots : Serial(s), LoginNext
    PROVE  \A s \in Slots : Serial(s)'
<1> USE DEF IamTypes, LoginTypeOK, RequestsTypeOK
<1>0. \A s \in Slots : ~ At(s, "idle") => who[s] \in Accounts
    BY DEF At
<1>1. ASSUME NEW s \in Slots, NEW u \in Accounts, NEW right \in BOOLEAN,
             Receive(s, u, right)
      PROVE  Serial(s)'
    BY <1>1 DEF Receive, Find, GoTo, Serial
<1>2. ASSUME NEW s \in Slots, UnknownEmail(s) PROVE Serial(s)'
    BY <1>2 DEF UnknownEmail, At, Serial
<1>3. ASSUME NEW s \in Slots,
             \/ RejectLocked(s) \/ AuditFailed(s) \/ AuditPending(s)
             \/ AuditSuccess(s) \/ LoginFail(s)
      PROVE  pc'[s] \in Light
    BY <1>3 DEF RejectLocked, AuditFailed, AuditPending, AuditSuccess, LoginFail, Fail,
       Finish, Light
<1>4. ASSUME NEW s \in Slots, LoginUpdate(s) \/ CreateSession(s) \/ IssueToken(s)
      PROVE  pc'[s] \in Light
    BY <1>4 DEF LoginUpdate, AfterSave, CreateSession, IssueToken, GoTo, Light
<1>5. ASSUME NEW s \in Slots, WrongPassword(s) \/ RightPassword(s) PROVE Serial(s)'
    <2> DEFINE u == who[s]
    <2>1. At(s, "found") /\ u \in Accounts /\ now \in Nat /\ ok[s] \in BOOLEAN
        BY <1>0, <1>5 DEF WrongPassword, RightPassword, At
    <2>2. entity[s] = users[u] /\ users[u].lockedUntil \in Nat
        BY <2>1 DEF Serial, At, Row
    <2>3. users[u].lockedUntil <= now
        BY <1>5, <2>1, <2>2 DEF WrongPassword, RightPassword, Locked
    <2>4. /\ pc'[s] = "select"
          /\ UNCHANGED <<now, users, who, ok>>
        BY <1>5 DEF WrongPassword, RightPassword, GoTo
    <2>5. entity'[s] = IF ok[s] THEN ResetFailed(users[u]) ELSE IncrementFailed(users[u], now)
        BY <1>5, <2>2 DEF WrongPassword, RightPassword
    <2>6. Judged(users[u], entity'[s], ok[s], now)
        BY <2>1, <2>3, <2>5 DEF Judged
    <2> QED
        BY <2>4, <2>6 DEF Serial
<1>6. ASSUME NEW s \in Slots, LoginSelect(s) PROVE Serial(s)'
    <2>1. /\ pc[s] = "select" /\ pc'[s] = "update"
          /\ UNCHANGED <<now, users, who, entity, ok>>
          /\ dirty'[s] = Changed(entity[s], users[who[s]])
        BY <1>6 DEF LoginSelect, SaveSelect, At, GoTo
    <2>2. Judged(users[who[s]], entity[s], ok[s], now)
        BY <2>1 DEF Serial
    <2> QED
        BY <2>1, <2>2 DEF Serial
<1> QED
    BY <1>1, <1>2, <1>3, <1>4, <1>5, <1>6, Alone, AtLight DEF LoginNext, LoginStep

LEMMA HeldMfa ==
    ASSUME OneAtATime, IamTypes, now # Null, SerialRows, \A s \in Slots : Serial(s),
           MfaNext
    PROVE  \A s \in Slots : Serial(s)'
<1> USE DEF IamTypes, LoginTypeOK, RequestsTypeOK
<1>0. \A s \in Slots : ~ At(s, "idle") => who[s] \in Accounts
    BY DEF At
<1>1. ASSUME NEW s \in Slots, NEW u \in Accounts,
             Setup(s, u) \/ DisableBiometricStep(s, u) \/ Disable(s, u) \/ AskBiometric(s, u)
      PROVE  pc'[s] \in Light
    BY <1>1 DEF Setup, DisableBiometricStep, Disable, AskBiometric, Find, GoTo, At, Light
<1>2. ASSUME NEW s \in Slots, NEW u \in Accounts, VerifySetup(s, u) PROVE Serial(s)'
    BY <1>2 DEF VerifySetup, Find, GoTo, Serial
<1>3. ASSUME NEW s \in Slots, NEW t \in Tokens, NEW m \in Methods, Ask(s, t, m)
      PROVE  Serial(s)'
    BY <1>3 DEF Ask, Find, GoTo, Serial
<1>4. ASSUME NEW s \in Slots,
             \/ EnableMfaStep(s) \/ DisableMfaStep(s) \/ Refuse(s) \/ Throw(s)
             \/ MfaUpdate(s) \/ Grant(s) \/ MfaFail(s)
             \/ \E d \in Devices : EnableBiometricStep(s, d)
      PROVE  pc'[s] \in Light
    BY <1>4 DEF EnableMfaStep, DisableMfaStep, Refuse, Throw, MfaUpdate, Grant, MfaFail,
       Fail, EnableBiometricStep, Done, Finish, Light
<1>5. ASSUME NEW s \in Slots,
             \/ Proceed(s) \/ JudgeTotp(s) \/ JudgeBackup(s)
             \/ \E d \in Devices : JudgeBiometric(s, d)
      PROVE  Serial(s)'
    <2>1. /\ pc[s] \in {"asked", "unlocked"} /\ pc'[s] \in {"unlocked", "right", "wrong"}
          /\ UNCHANGED <<users, who, entity>>
        BY <1>5 DEF Proceed, JudgeTotp, JudgeBackup, JudgeBiometric, Judge, GoTo, At
    <2>2. CASE pc[s] = "unlocked"
        BY <2>1, <2>2 DEF Serial
    <2>3. CASE pc[s] = "asked"
        <3>1. ~ Expired(s)
            BY <1>5, <2>3 DEF Proceed, JudgeTotp, JudgeBackup, JudgeBiometric, At
        <3>2. who[s] \in Accounts /\ entity[s] = users[who[s]] /\ entity[s] \in Row
            BY <1>0, <2>3 DEF Serial, At
        <3>3. entity[s].mfaTempTokenExpires \in Nat /\ now \in Nat
            BY <3>2 DEF Row
        <3>4. entity[s].mfaTempTokenExpires # Null
            BY <3>1, <3>3 DEF Expired, Null
        <3>5. entity[s].mfaTempToken # Null
            BY <3>2, <3>4 DEF SerialRows, SerialRow
        <3> QED
            BY <2>1, <2>3, <3>5 DEF Serial
    <2> QED
        BY <2>1, <2>2, <2>3
<1>6. ASSUME NEW s \in Slots, CountWrong(s) PROVE Serial(s)'
    BY <1>6 DEF CountWrong, GoTo, Serial
<1>7. ASSUME NEW s \in Slots, MfaSelect(s) PROVE Serial(s)'
    <2>1. /\ pc[s] = "mfaSelect" /\ pc'[s] = "mfaUpdate"
          /\ UNCHANGED <<users, who, entity>>
          /\ dirty'[s] = Changed(entity[s], users[who[s]])
        BY <1>7 DEF MfaSelect, SaveSelect, At, GoTo
    <2> QED
        BY <2>1 DEF Serial
<1>8. ASSUME NEW s \in Slots, ResetMfa(s) PROVE Serial(s)'
    <2> DEFINE u == who[s]
    <2>1. pc[s] = "right" /\ u \in Accounts
        BY <1>0, <1>8 DEF ResetMfa, At
    <2>2. /\ pc'[s] = "clearToken" /\ UNCHANGED <<who, entity>>
          /\ users'[u] = ResetMfaFailed(users[u])
        BY <1>8, <2>1 DEF ResetMfa, UpdateRow, GoTo
    <2>3. users'[u].mfaTempToken = users[u].mfaTempToken
        BY <2>2 DEF ResetMfaFailed, Assign, Columns
    <2> QED
        BY <2>1, <2>2, <2>3 DEF Serial
<1> QED
    BY <1>1, <1>2, <1>3, <1>4, <1>5, <1>6, <1>7, <1>8, Alone, AtLight
       DEF MfaNext, MfaRequest, MfaStep

LEMMA HeldNext ==
    ASSUME OneAtATime, IamTypes, now # Null, SerialRows, \A s \in Slots : Serial(s),
           [IamNext]_iamVars
    PROVE  \A s \in Slots : Serial(s)'
<1>1. ASSUME NEW u \in Accounts, IamUnlock(u) \/ IamReset(u)
      PROVE  \A s \in Slots : Serial(s)'
    <2>1. PICK s \in Slots : pc'[s] = "idle"
        BY <1>1 DEF IamUnlock, Unlock, IamReset, AdminUnlock, AdminReset, At
    <2> QED
        BY <2>1, AtRest
<1>2. CASE Tick /\ UNCHANGED <<loginVars, mfaVars>>
    <2> SUFFICES ASSUME NEW s \in Slots PROVE Serial(s)'
        OBVIOUS
    <2>1. /\ now \in Nat /\ now' = now + 1
          /\ UNCHANGED <<users, pc, who, entity, dirty, ok>>
        BY <1>2 DEF Tick, IamTypes, LoginTypeOK, RequestsTypeOK
    <2>2. Judged(users[who[s]], entity[s], ok[s], now)
              => Judged(users[who[s]], entity[s], ok[s], now + 1)
        BY <2>1 DEF Judged
    <2> QED
        BY <2>1, <2>2 DEF Serial
<1>3. CASE UNCHANGED iamVars
    BY <1>3 DEF Serial
<1> QED
    BY <1>1, <1>2, <1>3, HeldLogin, HeldMfa DEF IamNext

\* The clock starts after the date a null is taken for, and never goes back.
LEMMA ClockRuns ==
    ASSUME IamTypes, now # Null, [IamNext]_iamVars
    PROVE  now' # Null
<1>1. CASE LoginNext
    <2>1. UNCHANGED now
        BY <1>1 DEF LoginNext, LoginStep, Receive, UnknownEmail, RejectLocked,
           WrongPassword, RightPassword, LoginSelect, SaveSelect, LoginUpdate, AuditFailed,
           IssueToken, AuditPending, CreateSession, AuditSuccess, LoginFail, Fail
    <2> QED
        BY <2>1
<1>2. CASE MfaNext
    <2>1. UNCHANGED now
        BY <1>2 DEF MfaNext, MfaRequest, MfaStep, MfaFail, Fail, Setup, VerifySetup,
           Disable, AskBiometric, DisableBiometricStep, Ask, EnableMfaStep, DisableMfaStep,
           EnableBiometricStep, Refuse, Proceed, JudgeTotp, JudgeBackup, JudgeBiometric,
           Judge, Throw, CountWrong, MfaSelect, SaveSelect, MfaUpdate, ResetMfa, Grant
    <2> QED
        BY <2>1
<1>3. ASSUME NEW u \in Accounts, IamUnlock(u) \/ IamReset(u) PROVE UNCHANGED now
    BY <1>3 DEF IamUnlock, Unlock, AdminUnlock, IamReset, AdminReset
<1>4. CASE Tick
    BY <1>4 DEF Tick, IamTypes, LoginTypeOK, RequestsTypeOK, Null
<1> QED
    BY <1>1, <1>2, <1>3, <1>4 DEF IamNext

-----------------------------------------------------------------------------
(* The steps: the rows and the tokens spent.                               *)

LEMMA RowsLogin ==
    ASSUME IamTypes, SerialInv, LoginNext, UNCHANGED mfaVars
    PROVE  SerialRows'
<1> USE DEF IamTypes, LoginTypeOK, RequestsTypeOK, MfaTypeOK
<1>0. \A s \in Slots : ~ At(s, "idle") => who[s] \in Accounts
    BY DEF At
<1>1. CASE UNCHANGED <<users, streak, issued>>
    BY <1>1, SerialSame DEF SerialInv
<1>2. ASSUME NEW s \in Slots, LoginUpdate(s) PROVE SerialRows'
    <2> DEFINE u == who[s]
               row == users[u]
    <2>1. pc[s] = "update" /\ u \in Accounts
        BY <1>0, <1>2 DEF LoginUpdate, At
    <2>2. /\ row \in Row /\ entity[s] \in Row /\ now \in Nat /\ ok[s] \in BOOLEAN
          /\ streak[u] \in Nat /\ mfaStreak[u] \in Nat
        BY <2>1
    <2>3. Judged(row, entity[s], ok[s], now) /\ dirty[s] = Changed(entity[s], row)
        BY <2>1 DEF SerialInv, Serial
    <2>4. users' = [users EXCEPT ![u] = entity[s]]
        <3>1. users' = [users EXCEPT ![u] = Merge(row, entity[s], dirty[s])]
            BY <1>2 DEF LoginUpdate, SaveUpdate
        <3>2. Merge(row, entity[s], dirty[s]) = entity[s]
            BY ONLY <2>2, <2>3, MergeChanged
        <3> QED
            BY ONLY <3>1, <3>2
    <2>5. streak' = [streak EXCEPT ![u] = IF ok[s] THEN 0 ELSE @ + 1]
        BY <1>2 DEF LoginUpdate
    <2>6. SerialRow(row, streak[u], mfaStreak[u], Spent(granted), Drawn(u, issued))
        BY <2>1 DEF SerialInv, SerialRows
    <2>7. SerialRow(entity[s], IF ok[s] THEN 0 ELSE streak[u] + 1, mfaStreak[u],
                    Spent(granted), Drawn(u, issued))
        BY <2>2, <2>3, <2>6, SerialLoginOps DEF Judged
    <2>8. streak'[u] = (IF ok[s] THEN 0 ELSE streak[u] + 1) /\ mfaStreak'[u] = mfaStreak[u]
        BY <2>1, <2>5
    <2>9. \A v \in Accounts \ {u} : streak'[v] = streak[v] /\ mfaStreak'[v] = mfaStreak[v]
        BY <2>1, <2>5
    <2>10. UNCHANGED <<issued, granted>>
        BY <1>2 DEF LoginUpdate
    <2> QED
        BY <2>1, <2>4, <2>7, <2>8, <2>9, <2>10, SerialWrite DEF SerialInv
<1>3. ASSUME NEW s \in Slots, IssueToken(s) PROVE SerialRows'
    <2> DEFINE u == who[s]
               token == Len(issued) + 1
               row == SetTempToken(users[u], token, now + TempTtl)
    <2>1. u \in Accounts
        BY <1>0, <1>3 DEF IssueToken, At
    <2>2. /\ issued' = Append(issued, u)
          /\ users' = [users EXCEPT ![u] = row]
          /\ UNCHANGED <<streak, mfaStreak, granted>>
        BY <1>3 DEF IssueToken, UpdateRow
    <2>3. /\ \A v \in Accounts \ {u} : Drawn(v, issued') = Drawn(v, issued)
          /\ Drawn(u, issued') \subseteq 1 .. token
        <3>1. issued \in Seq(Accounts)
            OBVIOUS
        <3>2. /\ Len(issued') = token /\ Len(issued) \in Nat
              /\ \A t \in 1 .. Len(issued) : issued'[t] = issued[t]
              /\ issued'[token] = u
            BY ONLY <2>1, <2>2, <3>1, AppendProperties
        <3> QED
            BY ONLY <3>2 DEF Drawn
    <2>4. token \notin Spent(granted)
        <3>1. \A i \in 1 .. Len(granted) :
                  granted[i].token # Null => granted[i].token <= Len(issued)
            BY DEF SerialInv, GrantedToIssued
        <3>0. issued \in Seq(Accounts) /\ granted \in Seq(Grants)
            OBVIOUS
        <3>2. Len(issued) \in Nat /\ \A i \in 1 .. Len(granted) : granted[i].token \in Nat
            <4>1. \A i \in 1 .. Len(granted) : granted[i] \in Grants
                BY <3>0, ElementOfSeq
            <4> QED
                BY ONLY <3>0, <4>1 DEF Grants
        <3>3. \A i \in 1 .. Len(granted) : granted[i].token # Len(issued) + 1
            BY ONLY <3>1, <3>2 DEF Null
        <3> QED
            BY <3>3 DEF Spent
    <2>5. token \in Nat \ {Null} /\ \A t \in Drawn(u, issued') : t <= token
        BY <2>3 DEF Null
    <2>6. SerialRow(users[u], streak[u], mfaStreak[u], Spent(granted), Drawn(u, issued))
        BY <2>1 DEF SerialInv, SerialRows
    <2>7. users[u] \in Row /\ streak[u] \in Nat /\ mfaStreak[u] \in Nat
        BY <2>1
    <2>8. SerialRow(row, streak[u], mfaStreak[u], Spent(granted), Drawn(u, issued'))
        BY <2>4, <2>5, <2>6, <2>7, SerialToken
    <2> SUFFICES ASSUME NEW v \in Accounts
                 PROVE  SerialRow(users'[v], streak'[v], mfaStreak'[v], Spent(granted'),
                                  Drawn(v, issued'))
        BY DEF SerialRows
    <2>9. CASE v = u
        BY <2>1, <2>2, <2>8, <2>9
    <2>10. CASE v # u
        <3>1. SerialRow(users[v], streak[v], mfaStreak[v], Spent(granted), Drawn(v, issued))
            BY DEF SerialInv, SerialRows
        <3> QED
            BY <2>2, <2>3, <2>10, <3>1
    <2> QED
        BY <2>9, <2>10
<1>4. ASSUME NEW s \in Slots,
             \/ \E u \in Accounts, right \in BOOLEAN : Receive(s, u, right)
             \/ UnknownEmail(s) \/ RejectLocked(s) \/ WrongPassword(s) \/ RightPassword(s)
             \/ LoginSelect(s) \/ AuditFailed(s) \/ AuditPending(s) \/ CreateSession(s)
             \/ AuditSuccess(s) \/ LoginFail(s)
      PROVE  UNCHANGED <<users, streak, issued>>
    BY <1>4 DEF Receive, UnknownEmail, RejectLocked, WrongPassword, RightPassword,
       LoginSelect, SaveSelect, AuditFailed, AuditPending, CreateSession, AuditSuccess,
       LoginFail, Fail
<1> QED
    BY <1>1, <1>2, <1>3, <1>4 DEF LoginNext, LoginStep

\* A row that keeps what it says of its user, as the steps of Mfa and the
\* administrator write it.
LEMMA RowKept ==
    ASSUME IamTypes, SerialInv, NEW u \in Accounts, NEW row, NEW n, NEW m,
           SerialRow(row, n, m, Spent(granted), Drawn(u, issued)),
           users' = [users EXCEPT ![u] = row],
           streak' = [streak EXCEPT ![u] = n],
           mfaStreak' = [mfaStreak EXCEPT ![u] = m],
           UNCHANGED <<issued, granted>>
    PROVE  SerialRows'
<1>1. /\ streak'[u] = n /\ mfaStreak'[u] = m
      /\ \A v \in Accounts \ {u} : streak'[v] = streak[v] /\ mfaStreak'[v] = mfaStreak[v]
    BY DEF IamTypes, LoginTypeOK, MfaTypeOK
<1> QED
    BY <1>1, SerialWrite DEF SerialInv

LEMMA RowColumns ==
    ASSUME IamTypes, SerialInv, NEW u \in Accounts, NEW row,
           SerialRow(row, streak[u], mfaStreak[u], Spent(granted), Drawn(u, issued)),
           users' = [users EXCEPT ![u] = row],
           UNCHANGED <<streak, mfaStreak, issued, granted>>
    PROVE  SerialRows'
BY SerialWrite DEF SerialInv

LEMMA RowsMfa ==
    ASSUME IamTypes, SerialInv, MfaNext, UNCHANGED loginVars,
           ~ \E s \in Slots : Grant(s)
    PROVE  SerialRows'
<1> USE DEF IamTypes, LoginTypeOK, RequestsTypeOK, MfaTypeOK
<1>0. \A s \in Slots : ~ At(s, "idle") => who[s] \in Accounts
    BY DEF At
<1>1. CASE UNCHANGED <<users, mfaStreak, granted>>
    BY <1>1, SerialSame DEF SerialInv
<1>2. ASSUME NEW u \in Accounts
      PROVE  /\ users[u] \in Row /\ streak[u] \in Nat /\ mfaStreak[u] \in Nat
             /\ SerialRow(users[u], streak[u], mfaStreak[u], Spent(granted), Drawn(u, issued))
    BY <1>2 DEF SerialInv, SerialRows
<1>3. ASSUME NEW u \in Accounts, NEW s \in Slots,
             Setup(s, u) \/ DisableBiometricStep(s, u)
      PROVE  SerialRows'
    <2>1. secrets[u] + 1 \in Nat /\ secrets[u] + 1 # Null /\ now \in Nat
        BY DEF Null
    <2>2. \/ users' = [users EXCEPT ![u] = SetMfaSecret(users[u], secrets[u] + 1)]
          \/ users' = [users EXCEPT ![u] = DisableBiometric(users[u])]
        BY <1>3 DEF Setup, DisableBiometricStep
    <2>3. UNCHANGED <<streak, mfaStreak, issued, granted>>
        BY <1>3 DEF Setup, DisableBiometricStep
    <2>4. SerialRow(SetMfaSecret(users[u], secrets[u] + 1), streak[u], mfaStreak[u],
                    Spent(granted), Drawn(u, issued))
        BY <1>2, <2>1, SerialMfaOps
    <2>5. SerialRow(DisableBiometric(users[u]), streak[u], mfaStreak[u],
                    Spent(granted), Drawn(u, issued))
        BY <1>2, <2>1, SerialMfaOps
    <2> QED
        BY <2>2, <2>3, <2>4, <2>5, RowColumns
<1>4. ASSUME NEW s \in Slots,
             EnableMfaStep(s) \/ \E d \in Devices : EnableBiometricStep(s, d)
      PROVE  SerialRows'
    <2> DEFINE u == who[s]
    <2>1. /\ u \in Accounts /\ now \in Nat
          /\ UNCHANGED <<streak, mfaStreak, issued, granted>>
        BY <1>0, <1>4 DEF EnableMfaStep, EnableBiometricStep, At
    <2>2. CASE EnableMfaStep(s)
        <3>1. users[u].mfaSecret # Null
            BY <2>2 DEF EnableMfaStep, At, SerialInv, Serial
        <3>2. users' = [users EXCEPT ![u] = EnableMfa(users[u], 1)]
            BY <2>2 DEF EnableMfaStep, UpdateRow
        <3>3. SerialRow(EnableMfa(users[u], 1), streak[u], mfaStreak[u],
                        Spent(granted), Drawn(u, issued))
            BY <1>2, <2>1, <3>1, SerialMfaOps
        <3> QED
            BY <2>1, <3>2, <3>3, RowColumns
    <2>3. ASSUME NEW d \in Devices, EnableBiometricStep(s, d) PROVE SerialRows'
        <3>1. d \in Nat
            BY MfaAssumption
        <3>2. users' = [users EXCEPT ![u] = EnableBiometric(users[u], d)]
            BY <2>3 DEF EnableBiometricStep, UpdateRow
        <3>3. SerialRow(EnableBiometric(users[u], d), streak[u], mfaStreak[u],
                        Spent(granted), Drawn(u, issued))
            BY <1>2, <2>1, <3>1, SerialMfaOps
        <3> QED
            BY <2>1, <3>2, <3>3, RowColumns
    <2> QED
        BY <1>4, <2>2, <2>3
<1>5. ASSUME NEW s \in Slots, DisableMfaStep(s) \/ ResetMfa(s) PROVE SerialRows'
    <2> DEFINE u == who[s]
    <2>1. /\ u \in Accounts /\ now \in Nat
          /\ mfaStreak' = [mfaStreak EXCEPT ![u] = 0]
          /\ UNCHANGED <<streak, issued, granted>>
        BY <1>0, <1>5 DEF DisableMfaStep, ResetMfa, At
    <2>2. \/ users' = [users EXCEPT ![u] = DisableMfa(users[u])]
          \/ users' = [users EXCEPT ![u] = ResetMfaFailed(users[u])]
        BY <1>5 DEF DisableMfaStep, ResetMfa, UpdateRow
    <2>3. /\ SerialRow(DisableMfa(users[u]), streak[u], 0, Spent(granted), Drawn(u, issued))
          /\ SerialRow(ResetMfaFailed(users[u]), streak[u], 0, Spent(granted), Drawn(u, issued))
        BY <1>2, <2>1, SerialMfaOps
    <2>4. streak' = [streak EXCEPT ![u] = streak[u]]
        BY <2>1
    <2> QED
        BY <2>1, <2>2, <2>3, <2>4, RowKept
<1>6. ASSUME NEW s \in Slots, MfaUpdate(s) PROVE SerialRows'
    <2> DEFINE u == who[s]
    <2>1. /\ pc[s] = "mfaUpdate" /\ u \in Accounts
          /\ entity[s] \in Row /\ users[u] \in Row
        BY <1>0, <1>6 DEF MfaUpdate, At
    <2>2. PICK t \in Nat : entity[s] = IncrementMfaFailed(users[u], t)
        BY <2>1 DEF SerialInv, Serial
    <2>3. dirty[s] = Changed(entity[s], users[u])
        BY <2>1 DEF SerialInv, Serial
    <2>4. users' = [users EXCEPT ![u] = entity[s]]
        <3>1. users' = [users EXCEPT ![u] = Merge(users[u], entity[s], dirty[s])]
            BY <1>6 DEF MfaUpdate, SaveUpdate
        <3>2. Merge(users[u], entity[s], dirty[s]) = entity[s]
            BY ONLY <2>1, <2>3, MergeChanged
        <3> QED
            BY ONLY <3>1, <3>2
    <2>5. SerialRow(IncrementMfaFailed(users[u], t), streak[u], mfaStreak[u] + 1,
                    Spent(granted), Drawn(u, issued))
        BY <1>2, <2>1, SerialMfaOps
    <2>6. /\ mfaStreak' = [mfaStreak EXCEPT ![u] = mfaStreak[u] + 1]
          /\ UNCHANGED <<streak, issued, granted>>
        BY <1>6 DEF MfaUpdate
    <2>7. streak' = [streak EXCEPT ![u] = streak[u]]
        BY <2>6
    <2>8. users' = [users EXCEPT ![u] = IncrementMfaFailed(users[u], t)]
        BY <2>2, <2>4
    <2> DEFINE row == IncrementMfaFailed(users[u], t)
               n == streak[u]
               m == mfaStreak[u] + 1
    <2>9. /\ u \in Accounts
          /\ SerialRow(row, n, m, Spent(granted), Drawn(u, issued))
          /\ users' = [users EXCEPT ![u] = row]
          /\ streak' = [streak EXCEPT ![u] = n]
          /\ mfaStreak' = [mfaStreak EXCEPT ![u] = m]
          /\ UNCHANGED <<issued, granted>>
        BY ONLY <2>1, <2>5, <2>6, <2>7, <2>8
    <2> HIDE DEF u, row, n, m
    <2> QED
        BY ONLY <2>9, IamTypes, SerialInv, RowKept
<1>7. ASSUME NEW s \in Slots,
             \/ \E u \in Accounts : VerifySetup(s, u) \/ Disable(s, u) \/ AskBiometric(s, u)
             \/ \E t \in Tokens, m \in Methods : Ask(s, t, m)
             \/ Refuse(s) \/ Proceed(s) \/ JudgeTotp(s) \/ JudgeBackup(s) \/ Throw(s)
             \/ \E d \in Devices : JudgeBiometric(s, d)
             \/ CountWrong(s) \/ MfaSelect(s) \/ MfaFail(s)
      PROVE  UNCHANGED <<users, mfaStreak, granted>>
    <2>1. CASE \/ \E u \in Accounts : VerifySetup(s, u) \/ Disable(s, u) \/ AskBiometric(s, u)
               \/ \E t \in Tokens, m \in Methods : Ask(s, t, m)
        BY <2>1 DEF VerifySetup, Disable, AskBiometric, Ask
    <2>2. CASE \/ Refuse(s) \/ Proceed(s) \/ JudgeTotp(s) \/ JudgeBackup(s) \/ Throw(s)
               \/ \E d \in Devices : JudgeBiometric(s, d)
        BY <2>2 DEF Refuse, Proceed, JudgeTotp, JudgeBackup, JudgeBiometric, Judge, Throw
    <2>3. CASE CountWrong(s) \/ MfaSelect(s) \/ MfaFail(s)
        BY <2>3 DEF CountWrong, MfaSelect, SaveSelect, MfaFail, Fail
    <2> QED
        BY <1>7, <2>1, <2>2, <2>3
<1> QED
    BY <1>1, <1>3, <1>4, <1>5, <1>6, <1>7 DEF MfaNext, MfaRequest, MfaStep

\* A grant takes the token out of the only row that has it.
LEMMA RowsGrant ==
    ASSUME IamInv, SerialInv, NEW s \in Slots, Grant(s), UNCHANGED loginVars
    PROVE  SerialRows' /\ TokenSpentOnce'
<1> DEFINE u == who[s]
           t == entity[s].mfaTempToken
           g == [token |-> t, presented |-> presented[s], user |-> u]
<1> USE DEF IamTypes, LoginTypeOK, RequestsTypeOK, MfaTypeOK
<1>1. u \in Accounts /\ pc[s] = "clearToken"
    BY DEF Grant, At, IamInv
<1>2. t = users[u].mfaTempToken /\ t # Null
    BY <1>1 DEF SerialInv, Serial
<1>3. /\ granted' = Append(granted, g)
      /\ users' = [users EXCEPT ![u] = ClearMfaTempToken(users[u])]
      /\ UNCHANGED <<streak, mfaStreak, issued>>
    BY DEF Grant, UpdateRow
<1>4. ASSUME NEW v \in Accounts
      PROVE  /\ users[v] \in Row /\ streak[v] \in Nat /\ mfaStreak[v] \in Nat
             /\ SerialRow(users[v], streak[v], mfaStreak[v], Spent(granted), Drawn(v, issued))
    BY <1>4 DEF SerialInv, SerialRows, IamInv
<1>5. Spent(granted') = Spent(granted) \cup {t}
    <2>1. granted \in Seq(Grants)
        BY DEF IamInv
    <2>2. /\ Len(granted') = Len(granted) + 1 /\ Len(granted) \in Nat
          /\ granted'[Len(granted) + 1].token = t
          /\ \A i \in 1 .. Len(granted) : granted'[i] = granted[i]
        BY <1>3, <2>1
    <2>3. 1 .. Len(granted') = (1 .. Len(granted)) \cup {Len(granted) + 1}
        BY <2>2
    <2> QED
        BY <2>2, <2>3 DEF Spent
<1>6. ASSUME NEW v \in Accounts \ {u}, users[v].mfaTempToken # Null
      PROVE  users[v].mfaTempToken # t
    <2>1. users[v].mfaTempToken \in Drawn(v, issued) /\ t \in Drawn(u, issued)
        BY <1>1, <1>2, <1>6 DEF IamInv, GoodInv, Says, Good
    <2> QED
        BY <2>1, <1>6 DEF Drawn
<1>7. SerialRows'
    <2> SUFFICES ASSUME NEW v \in Accounts
                 PROVE  SerialRow(users'[v], streak'[v], mfaStreak'[v], Spent(granted'),
                                  Drawn(v, issued'))
        BY DEF SerialRows
    <2>1. CASE v = u
        <3>1. now \in Nat /\ users'[v] = ClearMfaTempToken(users[v])
            BY <1>3, <2>1 DEF IamInv
        <3>2. SerialRow(ClearMfaTempToken(users[v]), streak[v], mfaStreak[v], Spent(granted'),
                        Drawn(v, issued))
            BY <1>4, <3>1, SerialMfaOps
        <3> QED
            BY <1>3, <3>1, <3>2
    <2>2. CASE v # u
        <3>1. users'[v] = users[v]
            BY <1>3, <2>2 DEF IamInv
        <3>2. SerialRow(users[v], streak[v], mfaStreak[v], Spent(granted'), Drawn(v, issued))
            BY <1>4, <1>5, <1>6, <2>2 DEF SerialRow
        <3> QED
            BY <1>3, <3>1, <3>2
    <2> QED
        BY <2>1, <2>2
<1>8. TokenSpentOnce'
    <2>1. t \notin Spent(granted)
        BY <1>1, <1>2, <1>4 DEF SerialRow
    <2>2. granted \in Seq(Grants)
        BY DEF IamInv
    <2>3. /\ Len(granted') = Len(granted) + 1 /\ Len(granted) \in Nat
          /\ granted'[Len(granted) + 1].token = t
          /\ \A i \in 1 .. Len(granted) : granted'[i] = granted[i]
        BY <1>3, <2>2
    <2>4. \A i \in 1 .. Len(granted) : granted'[i].token # t
        BY <2>1, <2>3 DEF Spent
    <2>5. \A i, j \in 1 .. Len(granted) : granted[i].token = granted[j].token => i = j
        BY DEF SerialInv, TokenSpentOnce
    <2>6. 1 .. Len(granted') = (1 .. Len(granted)) \cup {Len(granted) + 1}
        BY <2>3
    <2> SUFFICES ASSUME NEW i \in 1 .. Len(granted'), NEW j \in 1 .. Len(granted'),
                        granted'[i].token = granted'[j].token
                 PROVE  i = j
        BY DEF TokenSpentOnce
    <2> QED
        BY <2>3, <2>4, <2>5, <2>6
<1> QED
    BY <1>7, <1>8

-----------------------------------------------------------------------------
(* The invariant holds.                                                    *)

LEMMA SerialNext ==
    ASSUME OneAtATime, IamInv, IamInv', SerialInv, [IamNext]_iamVars
    PROVE  SerialInv'
<1>1. \A s \in Slots : Serial(s)'
    BY HeldNext DEF IamInv, SerialInv
<1>2. GrantedToIssued' /\ now' # Null
    BY GrantedNext, ClockRuns DEF IamInv, SerialInv
<1>3. ASSUME UNCHANGED granted PROVE TokenSpentOnce'
    BY <1>3 DEF SerialInv, TokenSpentOnce
<1>4. CASE LoginNext /\ UNCHANGED mfaVars
    BY <1>1, <1>2, <1>3, <1>4, RowsLogin DEF IamInv, SerialInv
<1>5. CASE MfaNext /\ UNCHANGED loginVars
    <2>1. ASSUME NEW s \in Slots, Grant(s) PROVE SerialRows' /\ TokenSpentOnce'
        BY <1>5, <2>1, RowsGrant
    <2>2. ASSUME ~ \E s \in Slots : Grant(s) PROVE SerialRows' /\ TokenSpentOnce'
        <3>1. UNCHANGED granted
            BY <1>5, <2>2 DEF MfaNext, MfaRequest, MfaStep, MfaFail, Setup, VerifySetup,
               Disable, AskBiometric, DisableBiometricStep, Ask, EnableMfaStep,
               DisableMfaStep, EnableBiometricStep, Refuse, Proceed, JudgeTotp, JudgeBackup,
               JudgeBiometric, Judge, Throw, CountWrong, MfaSelect, MfaUpdate, ResetMfa
        <3> QED
            BY <1>3, <1>5, <2>2, <3>1, RowsMfa DEF IamInv
    <2> QED
        BY <1>1, <1>2, <2>1, <2>2 DEF SerialInv
<1>6. ASSUME NEW u \in Accounts, IamUnlock(u) \/ IamReset(u) PROVE SerialInv'
    <2>1. /\ users[u] \in Row /\ streak[u] \in Nat /\ mfaStreak[u] \in Nat /\ now \in Nat
        BY DEF IamInv, IamTypes, LoginTypeOK, RequestsTypeOK, MfaTypeOK
    <2>2. SerialRow(users[u], streak[u], mfaStreak[u], Spent(granted), Drawn(u, issued))
        BY DEF SerialInv, SerialRows
    <2>3. /\ SerialRow(UnlockUser(users[u]), 0, 0, Spent(granted), Drawn(u, issued))
          /\ SerialRow(ResetUser(users[u]), 0, 0, Spent(granted), Drawn(u, issued))
        BY <2>1, <2>2, SerialLoginOps
    <2>4. /\ \/ users' = [users EXCEPT ![u] = UnlockUser(users[u])]
             \/ users' = [users EXCEPT ![u] = ResetUser(users[u])]
          /\ streak' = [streak EXCEPT ![u] = 0]
          /\ mfaStreak' = [mfaStreak EXCEPT ![u] = 0]
          /\ UNCHANGED <<issued, granted>>
        BY <1>6 DEF IamUnlock, Unlock, AdminUnlock, IamReset, AdminReset
    <2>5. SerialRows'
        BY <2>3, <2>4, RowKept DEF IamInv
    <2> QED
        BY <1>1, <1>2, <1>3, <2>4, <2>5 DEF SerialInv
<1>7. CASE UNCHANGED <<users, loginVars, mfaVars>>
    BY <1>1, <1>2, <1>3, <1>7, SerialSame DEF SerialInv
<1> QED
    BY <1>4, <1>5, <1>6, <1>7 DEF IamNext, Tick

LEMMA SerialHolds ==
    ASSUME OneAtATime
    PROVE  IamSpec => [](IamInv /\ SerialInv)
<1>1. IamInit => SerialInv
    BY SerialInit
<1>2. IamInv /\ IamInv' /\ SerialInv /\ [IamNext]_iamVars => SerialInv'
    BY SerialNext
<1> QED
    BY <1>1, <1>2, IamInvHolds, PTL DEF IamSpec

-----------------------------------------------------------------------------
(* What follows.                                                           *)

\* One request at a time, the wrong password that reaches the threshold locks the
\* account: no failure in a row is lost (incrementFailedAttempts and its save).
THEOREM SerialLockout ==
    ASSUME OneAtATime
    PROVE  IamSpec => []LockAfterThreshold
<1>1. SerialInv => LockAfterThreshold
    BY DEF SerialInv, SerialRows, SerialRow, LockAfterThreshold
<1> QED
    BY <1>1, SerialHolds, PTL

\* The same of the wrong second factors (incrementMfaFailedAttempts and its save).
THEOREM SerialMfaLockout ==
    ASSUME OneAtATime
    PROVE  IamSpec => []MfaLockAfterThreshold
<1>1. SerialInv => MfaLockAfterThreshold
    BY DEF SerialInv, SerialRows, SerialRow, MfaLockAfterThreshold
<1> QED
    BY <1>1, SerialHolds, PTL

\* One request at a time, whoever has MFA enabled can pass it: there is a secret
\* (setup, verify-setup, disable, reset-user).
THEOREM SerialSecret ==
    ASSUME OneAtATime
    PROVE  IamSpec => []EnabledHasSecret
<1>1. SerialInv => EnabledHasSecret
    BY DEF SerialInv, SerialRows, SerialRow, EnabledHasSecret
<1> QED
    BY <1>1, SerialHolds, PTL

\* One request at a time, a temporary token buys tokens once (clearMfaTempToken
\* before generateTokens).
THEOREM SerialSpentOnce ==
    ASSUME OneAtATime
    PROVE  IamSpec => []TokenSpentOnce
<1>1. SerialInv => TokenSpentOnce
    BY DEF SerialInv
<1> QED
    BY <1>1, SerialHolds, PTL

LEMMA GrantLatest ==
    ASSUME IamInv, SerialInv, [IamNext]_iamVars, granted' # granted
    PROVE  \A t \in 1 .. Len(issued) :
               issued[t] = granted'[Len(granted')].user
                   => t <= granted'[Len(granted')].token
<1>1. PICK s \in Slots : Grant(s)
    BY DEF IamNext, LoginNext, MfaNext, MfaRequest, MfaStep, MfaFail, Setup, VerifySetup,
       Disable, AskBiometric, DisableBiometricStep, Ask, EnableMfaStep, DisableMfaStep,
       EnableBiometricStep, Refuse, Proceed, JudgeTotp, JudgeBackup, JudgeBiometric, Judge,
       Throw, CountWrong, MfaSelect, MfaUpdate, ResetMfa, IamUnlock, IamReset
<1> DEFINE u == who[s]
           t == entity[s].mfaTempToken
<1>2. u \in Accounts /\ pc[s] = "clearToken"
    BY <1>1 DEF Grant, At, IamInv, IamTypes, LoginTypeOK, RequestsTypeOK
<1>3. t = users[u].mfaTempToken /\ t # Null
    BY <1>2 DEF SerialInv, Serial
<1>4. \A d \in Drawn(u, issued) : d <= t
    BY <1>2, <1>3 DEF SerialInv, SerialRows, SerialRow
<1>5. granted'[Len(granted')] = [token |-> t, presented |-> presented[s], user |-> u]
    <2>1. granted \in Seq(Grants)
        BY DEF IamInv, IamTypes, MfaTypeOK
    <2>2. granted' = Append(granted, [token |-> t, presented |-> presented[s], user |-> u])
        BY <1>1 DEF Grant
    <2> QED
        BY <2>1, <2>2
<1>6. granted'[Len(granted')].user = u /\ granted'[Len(granted')].token = t
    BY <1>5
<1> QED
    BY <1>4, <1>6 DEF Drawn

\* One request at a time, a login revokes the temporary tokens of the logins before
\* it (setMfaTempToken overwrites the only column).
THEOREM SerialLatestToken ==
    ASSUME OneAtATime
    PROVE  IamSpec => LatestTokenOnly
<1>1. IamInv /\ SerialInv /\ [IamNext]_iamVars
          => [granted' # granted =>
                 LET grant == granted'[Len(granted')]
                 IN  \A t \in 1 .. Len(issued) :
                         issued[t] = grant.user => t <= grant.token]_iamVars
    BY GrantLatest
<1> QED
    BY <1>1, SerialHolds, PTL DEF IamSpec, LatestTokenOnly

-----------------------------------------------------------------------------
(* The abstract lockout.                                                   *)

\* A change of the two columns of one row is a change of the two variables.
LEMMA LockoutRow ==
    ASSUME IamTypes, NEW u \in Accounts, NEW row, users' = [users EXCEPT ![u] = row]
    PROVE  /\ [v \in Accounts |-> users'[v].failedAttempts]
                  = [[v \in Accounts |-> users[v].failedAttempts]
                         EXCEPT ![u] = row.failedAttempts]
           /\ [v \in Accounts |-> users'[v].lockedUntil]
                  = [[v \in Accounts |-> users[v].lockedUntil] EXCEPT ![u] = row.lockedUntil]
<1>1. \A v \in Accounts : users'[v] = IF v = u THEN row ELSE users[v]
    BY DEF IamTypes, LoginTypeOK, RequestsTypeOK
<1>2. [v \in Accounts |-> users'[v].failedAttempts]
          = [v \in Accounts |-> IF v = u THEN row.failedAttempts ELSE users[v].failedAttempts]
    BY <1>1
<1>3. [v \in Accounts |-> users'[v].lockedUntil]
          = [v \in Accounts |-> IF v = u THEN row.lockedUntil ELSE users[v].lockedUntil]
    BY <1>1
<1>4. [[v \in Accounts |-> users[v].failedAttempts] EXCEPT ![u] = row.failedAttempts]
          = [v \in Accounts |-> IF v = u THEN row.failedAttempts ELSE users[v].failedAttempts]
    OBVIOUS
<1>5. [[v \in Accounts |-> users[v].lockedUntil] EXCEPT ![u] = row.lockedUntil]
          = [v \in Accounts |-> IF v = u THEN row.lockedUntil ELSE users[v].lockedUntil]
    OBVIOUS
<1> QED
    BY <1>2, <1>3, <1>4, <1>5

\* The columns of the lock in what login saves and the administrator writes.
LEMMA CountColumns ==
    ASSUME NEW row \in Row, NEW t \in Nat
    PROVE  /\ IncrementFailed(row, t).failedAttempts = row.failedAttempts + 1
           /\ row.failedAttempts + 1 >= LockThreshold
                  => IncrementFailed(row, t).lockedUntil = t + LockTicks
           /\ ~ row.failedAttempts + 1 >= LockThreshold
                  => IncrementFailed(row, t).lockedUntil = row.lockedUntil
           /\ ResetFailed(row).failedAttempts = 0 /\ ResetFailed(row).lockedUntil = Null
           /\ UnlockUser(row).failedAttempts = 0 /\ UnlockUser(row).lockedUntil = Null
           /\ ResetUser(row).failedAttempts = 0 /\ ResetUser(row).lockedUntil = Null
BY DEF IncrementFailed, ResetFailed, UnlockUser, ResetUser, Assign, Columns

LEMMA LockoutStays ==
    ASSUME IamTypes, UNCHANGED now,
           \/ UNCHANGED users
           \/ \E u \in Accounts : \E row :
                  /\ users' = [users EXCEPT ![u] = row]
                  /\ row.failedAttempts = users[u].failedAttempts
                  /\ row.lockedUntil = users[u].lockedUntil
    PROVE  UNCHANGED Lockout!accountVars
<1>1. \A v \in Accounts : /\ users'[v].failedAttempts = users[v].failedAttempts
                          /\ users'[v].lockedUntil = users[v].lockedUntil
    BY DEF IamTypes, LoginTypeOK, RequestsTypeOK
<1> QED
    BY <1>1 DEF Lockout!accountVars

LEMMA LockoutClears ==
    ASSUME IamTypes, NEW u \in Accounts, NEW row, users' = [users EXCEPT ![u] = row],
           row.failedAttempts = 0, row.lockedUntil = Null, UNCHANGED now
    PROVE  Lockout!Clear(u)
<1>1. /\ [v \in Accounts |-> users'[v].failedAttempts]
             = [[v \in Accounts |-> users[v].failedAttempts] EXCEPT ![u] = row.failedAttempts]
      /\ [v \in Accounts |-> users'[v].lockedUntil]
             = [[v \in Accounts |-> users[v].lockedUntil] EXCEPT ![u] = row.lockedUntil]
    BY LockoutRow
<1>2. /\ [v \in Accounts |-> users'[v].failedAttempts]
             = [[v \in Accounts |-> users[v].failedAttempts] EXCEPT ![u] = 0]
      /\ [v \in Accounts |-> users'[v].lockedUntil]
             = [[v \in Accounts |-> users[v].lockedUntil] EXCEPT ![u] = 0]
    BY <1>1 DEF Null
<1> QED
    BY <1>2 DEF Lockout!Clear

\* The save that a wrong or a right password ends in.
LEMMA LockoutSaves ==
    ASSUME IamTypes, SerialInv, NEW s \in Slots, LoginUpdate(s),
           NEW u \in Accounts, u = who[s]
    PROVE  Lockout!WrongPassword(u) \/ Lockout!RightPassword(u)
<1> DEFINE row == users[u]
           F == [v \in Accounts |-> users[v].failedAttempts]
           L == [v \in Accounts |-> users[v].lockedUntil]
           Fnext == [v \in Accounts |-> users'[v].failedAttempts]
           Lnext == [v \in Accounts |-> users'[v].lockedUntil]
<1>1. /\ u \in Accounts /\ pc[s] = "update" /\ now \in Nat /\ UNCHANGED now
      /\ row \in Row /\ entity[s] \in Row /\ ok[s] \in BOOLEAN
    BY DEF LoginUpdate, At, IamTypes, LoginTypeOK, RequestsTypeOK
<1>2. Judged(row, entity[s], ok[s], now) /\ dirty[s] = Changed(entity[s], row)
    BY <1>1 DEF SerialInv, Serial
<1>3. users' = [users EXCEPT ![u] = entity[s]]
    <2>1. users' = [users EXCEPT ![u] = Merge(row, entity[s], dirty[s])]
        BY DEF LoginUpdate, SaveUpdate
    <2>2. Merge(row, entity[s], dirty[s]) = entity[s]
        BY ONLY <1>1, <1>2, MergeChanged
    <2> QED
        BY ONLY <2>1, <2>2
<1>4. PICK t \in Nat : /\ row.lockedUntil <= t /\ t <= now
                       /\ entity[s] = IF ok[s] THEN ResetFailed(row) ELSE IncrementFailed(row, t)
    BY <1>2 DEF Judged
<1>5. row.lockedUntil \in Nat /\ row.failedAttempts \in Nat
    BY <1>1 DEF Row
<1>6. F[u] = row.failedAttempts /\ L[u] = row.lockedUntil /\ row.lockedUntil <= now
    BY <1>1, <1>4, <1>5
<1>7. CASE ok[s]
    <2>1. users' = [users EXCEPT ![u] = ResetFailed(row)]
        BY <1>3, <1>4, <1>7
    <2>2. Lockout!Clear(u)
        <3>1. ResetFailed(row).failedAttempts = 0 /\ ResetFailed(row).lockedUntil = Null
            BY <1>1, <1>4, CountColumns
        <3> QED
            BY <1>1, <2>1, <3>1, LockoutClears
    <2>3. Lockout!Open(u)
        BY <1>1, <1>6 DEF Lockout!Open
    <2> QED
        BY <2>2, <2>3 DEF Lockout!RightPassword
<1>8. CASE ~ ok[s]
    <2> DEFINE ent == IncrementFailed(row, t)
    <2>1. users' = [users EXCEPT ![u] = ent]
        BY <1>3, <1>4, <1>8
    <2> HIDE DEF ent
    <2>2. /\ Fnext = [F EXCEPT ![u] = ent.failedAttempts]
          /\ Lnext = [L EXCEPT ![u] = ent.lockedUntil]
        BY <1>1, <2>1, LockoutRow
    <2>3. /\ ent.failedAttempts = row.failedAttempts + 1
          /\ row.failedAttempts + 1 >= LockThreshold => ent.lockedUntil = t + LockTicks
          /\ ~ row.failedAttempts + 1 >= LockThreshold => ent.lockedUntil = row.lockedUntil
        BY <1>1, <1>4, CountColumns DEF ent
    <2> HIDE DEF F, L, Fnext, Lnext
    <2>4. Fnext = [F EXCEPT ![u] = F[u] + 1]
        BY <1>6, <2>2, <2>3
    <2>5. ASSUME F[u] + 1 >= LockThreshold
          PROVE  \E end \in (L[u] + LockTicks) .. (now + LockTicks) : Lnext = [L EXCEPT ![u] = end]
        <3>1. ent.lockedUntil = t + LockTicks
            BY <1>6, <2>3, <2>5
        <3>2. t + LockTicks \in (L[u] + LockTicks) .. (now + LockTicks)
            BY <1>1, <1>4, <1>5, <1>6, ThresholdAssumption
        <3> QED
            BY <2>2, <3>1, <3>2
    <2>6. ASSUME ~ F[u] + 1 >= LockThreshold
          PROVE  Lnext = L
        <3>1. Lnext = [L EXCEPT ![u] = L[u]]
            BY <1>6, <2>2, <2>3, <2>6
        <3> QED
            BY <3>1 DEF L
    <2>7. L[u] <= now
        BY <1>6
    <2>8. /\ L[u] <= now
          /\ Fnext = [F EXCEPT ![u] = F[u] + 1]
          /\ IF F[u] + 1 >= LockThreshold
             THEN \E end \in (L[u] + LockTicks) .. (now + LockTicks) :
                      Lnext = [L EXCEPT ![u] = end]
             ELSE Lnext = L
          /\ now' = now
        BY <1>1, <2>4, <2>5, <2>6, <2>7
    <2> QED
        BY <2>8 DEF Lockout!WrongPassword, Lockout!Open, F, L, Fnext, Lnext
<1> QED
    BY <1>1, <1>7, <1>8

LEMMA LockoutInit == IamInit => Lockout!AccountInit
<1> SUFFICES ASSUME IamInit PROVE Lockout!AccountInit
    OBVIOUS
<1>1. \A v \in Accounts : users[v].failedAttempts = 0 /\ users[v].lockedUntil = 0
    BY DEF IamInit, RequestsInit, NewRow, Assign, Columns, Null
<1>2. now = 1
    BY DEF IamInit, RequestsInit
<1> QED
    BY <1>1, <1>2 DEF Lockout!AccountInit

LEMMA LockoutNext ==
    ASSUME OneAtATime, IamInv, SerialInv, [IamNext]_iamVars
    PROVE  [Lockout!AccountNext]_Lockout!accountVars
<1> SUFFICES Lockout!AccountNext \/ UNCHANGED Lockout!accountVars
    OBVIOUS
<1> USE DEF Lockout!AccountNext
<1>0. /\ IamTypes
      /\ \A s \in Slots : ~ At(s, "idle") => who[s] \in Accounts
      /\ \A u \in Accounts : users[u] \in Row
    BY DEF At, IamInv, IamTypes, LoginTypeOK, RequestsTypeOK
<1>1. CASE UNCHANGED <<now, users>>
    BY <1>0, <1>1, LockoutStays
<1>2. ASSUME UNCHANGED now, NEW u \in Accounts, NEW k, NEW x,
             NEW row \in {SetMfaSecret(users[u], k), EnableMfa(users[u], k),
                          DisableMfa(users[u]), EnableBiometric(users[u], k),
                          DisableBiometric(users[u]), IncrementMfaFailed(users[u], x),
                          ResetMfaFailed(users[u]), ClearMfaTempToken(users[u]),
                          SetTempToken(users[u], k, x)},
             users' = [users EXCEPT ![u] = row]
      PROVE  UNCHANGED Lockout!accountVars
    <2>1. row.failedAttempts = users[u].failedAttempts /\ row.lockedUntil = users[u].lockedUntil
        BY <1>2 DEF SetMfaSecret, EnableMfa, DisableMfa, EnableBiometric, DisableBiometric,
           IncrementMfaFailed, ResetMfaFailed, ClearMfaTempToken, SetTempToken, Assign, Columns
    <2> QED
        BY <1>0, <1>2, <2>1, LockoutStays
<1>3. CASE LoginNext
    <2>1. ASSUME NEW s \in Slots, LoginUpdate(s) PROVE Lockout!AccountNext
        <3>1. PICK u \in Accounts : u = who[s]
            BY <1>0, <2>1 DEF LoginUpdate, At
        <3>2. Lockout!WrongPassword(u) \/ Lockout!RightPassword(u)
            BY <1>0, <2>1, <3>1, LockoutSaves
        <3> QED
            BY <3>1, <3>2
    <2>2. ASSUME NEW s \in Slots, IssueToken(s) PROVE UNCHANGED Lockout!accountVars
        <3>1. who[s] \in Accounts
            BY <1>0, <2>2 DEF IssueToken, At
        <3> QED
            BY <1>2, <2>2, <3>1 DEF IssueToken, UpdateRow
    <2>3. ASSUME NEW s \in Slots,
                 \/ \E u \in Accounts, right \in BOOLEAN : Receive(s, u, right)
                 \/ UnknownEmail(s) \/ RejectLocked(s) \/ WrongPassword(s)
                 \/ RightPassword(s) \/ LoginSelect(s) \/ AuditFailed(s) \/ AuditPending(s)
                 \/ CreateSession(s) \/ AuditSuccess(s) \/ LoginFail(s)
          PROVE  UNCHANGED <<now, users>>
        BY <2>3 DEF Receive, UnknownEmail, RejectLocked, WrongPassword, RightPassword,
           LoginSelect, SaveSelect, AuditFailed, AuditPending, CreateSession, AuditSuccess,
           LoginFail, Fail
    <2> QED
        BY <1>1, <1>3, <2>1, <2>2, <2>3 DEF LoginNext, LoginStep
<1>4. CASE MfaNext
    <2>1. ASSUME NEW s \in Slots, NEW u \in Accounts,
                 Setup(s, u) \/ DisableBiometricStep(s, u)
          PROVE  UNCHANGED Lockout!accountVars
        BY <1>2, <2>1 DEF Setup, DisableBiometricStep
    <2>2. ASSUME NEW s \in Slots,
                 \/ EnableMfaStep(s) \/ DisableMfaStep(s) \/ ResetMfa(s) \/ Grant(s)
                 \/ \E d \in Devices : EnableBiometricStep(s, d)
          PROVE  UNCHANGED Lockout!accountVars
        <3>1. who[s] \in Accounts
            BY <1>0, <2>2 DEF EnableMfaStep, DisableMfaStep, ResetMfa, Grant,
               EnableBiometricStep, At
        <3> QED
            BY <1>2, <2>2, <3>1 DEF EnableMfaStep, DisableMfaStep, ResetMfa, Grant,
               EnableBiometricStep, UpdateRow
    <2>3. ASSUME NEW s \in Slots, MfaUpdate(s) PROVE UNCHANGED Lockout!accountVars
        <3> DEFINE u == who[s]
        <3>1. pc[s] = "mfaUpdate" /\ u \in Accounts /\ entity[s] \in Row
            BY <1>0, <2>3 DEF MfaUpdate, At, IamTypes, LoginTypeOK, RequestsTypeOK
        <3>2. PICK t \in Nat : entity[s] = IncrementMfaFailed(users[u], t)
            BY <3>1 DEF SerialInv, Serial
        <3>3. dirty[s] = Changed(entity[s], users[u]) /\ users[u] \in Row
            BY <1>0, <3>1 DEF SerialInv, Serial
        <3>4. users' = [users EXCEPT ![u] = entity[s]]
            BY <2>3, <3>1, <3>3, MergeChanged DEF MfaUpdate, SaveUpdate
        <3>5. users' = [users EXCEPT ![u] = IncrementMfaFailed(users[u], t)]
            BY <3>2, <3>4
        <3> QED
            BY <1>2, <2>3, <3>1, <3>5 DEF MfaUpdate
    <2>4. ASSUME NEW s \in Slots,
                 \/ \E u \in Accounts :
                        VerifySetup(s, u) \/ Disable(s, u) \/ AskBiometric(s, u)
                 \/ \E t \in Tokens, m \in Methods : Ask(s, t, m)
                 \/ Refuse(s) \/ Proceed(s) \/ JudgeTotp(s) \/ JudgeBackup(s) \/ Throw(s)
                 \/ \E d \in Devices : JudgeBiometric(s, d)
                 \/ CountWrong(s) \/ MfaSelect(s) \/ MfaFail(s)
          PROVE  UNCHANGED <<now, users>>
        <3>1. CASE \/ \E u \in Accounts :
                          VerifySetup(s, u) \/ Disable(s, u) \/ AskBiometric(s, u)
                   \/ \E t \in Tokens, m \in Methods : Ask(s, t, m)
            BY <3>1 DEF VerifySetup, Disable, AskBiometric, Ask
        <3>2. CASE \/ Refuse(s) \/ Proceed(s) \/ JudgeTotp(s) \/ JudgeBackup(s) \/ Throw(s)
                   \/ \E d \in Devices : JudgeBiometric(s, d)
            BY <3>2 DEF Refuse, Proceed, JudgeTotp, JudgeBackup, JudgeBiometric, Judge, Throw
        <3>3. CASE CountWrong(s) \/ MfaSelect(s) \/ MfaFail(s)
            BY <3>3 DEF CountWrong, MfaSelect, SaveSelect, MfaFail, Fail
        <3> QED
            BY <2>4, <3>1, <3>2, <3>3
    <2> QED
        BY <1>1, <1>4, <2>1, <2>2, <2>3, <2>4 DEF MfaNext, MfaRequest, MfaStep
<1>5. ASSUME NEW u \in Accounts, IamUnlock(u) \/ IamReset(u) PROVE Lockout!AccountNext
    <2>1. PICK row \in {UnlockUser(users[u]), ResetUser(users[u])} :
              users' = [users EXCEPT ![u] = row]
        BY <1>5 DEF IamUnlock, Unlock, AdminUnlock, IamReset, AdminReset
    <2>2. row.failedAttempts = 0 /\ row.lockedUntil = Null /\ UNCHANGED now
        BY <1>0, <1>5, <2>1, CountColumns DEF IamUnlock, Unlock, AdminUnlock, IamReset, AdminReset
    <2>3. Lockout!Clear(u)
        BY <1>0, <2>1, <2>2, LockoutClears
    <2> QED
        BY <2>3 DEF Lockout!Unlock
<1>6. CASE Tick
    BY <1>6 DEF Tick, Lockout!Pass
<1>7. CASE UNCHANGED iamVars
    BY <1>1, <1>7
<1> QED
    BY <1>3, <1>4, <1>5, <1>6, <1>7 DEF IamNext

\* One request at a time, the service implements the lockout of Account: reading the
\* row, changing the copy and saving it in two statements comes to one step that
\* checks the lock and counts, and nothing else the handlers write touches it.
THEOREM SerialLockoutRefines ==
    ASSUME OneAtATime
    PROVE  IamSpec => ImplementsAccount
<1>1. IamInit => Lockout!AccountInit
    BY LockoutInit
<1>2. IamInv /\ SerialInv /\ [IamNext]_iamVars => [Lockout!AccountNext]_Lockout!accountVars
    BY LockoutNext
<1> QED
    BY <1>1, <1>2, SerialHolds, PTL DEF IamSpec, ImplementsAccount, Lockout!AccountSpec

=============================================================================
