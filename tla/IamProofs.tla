------------------------------ MODULE IamProofs ------------------------------
(***************************************************************************)
(* Theorems about all handlers over one table, for every set of users,     *)
(* devices and tokens, every number of concurrent requests, every          *)
(* threshold and bound.                                                    *)
(*                                                                         *)
(* What the invariants say of the table they say of every copy of a row,   *)
(* in the table or in a handler's hands (Good), because each is made from  *)
(* copies of the same user's row by one of a few operators.  The operators *)
(* are dealt with first, free of state, then the kinds of step (GoodWrite  *)
(* and its siblings), then the actions.                                    *)
(***************************************************************************)
EXTENDS Iam, LoginProofs

USE DEF vars, slotVars, loginVars, ghostVars, mfaVars, askVars, mfaGhosts, iamVars

Places == LoginPlaces \cup MfaPlaces \cup {"idle"}

\* A request that exchanges a temporary token holds the row it was found in, when
\* it presented one.
Exchanging == {"asked", "unlocked", "right", "clearToken"}

Holds(ent, token) == token # Null => ent.mfaTempToken = token

AskedToken(s) == pc[s] \in Exchanging => Holds(entity[s], presented[s])

IamTypes ==
    /\ LoginTypeOK(Places)
    /\ MfaTypeOK
    /\ \A s \in Slots : AskedToken(s)

-----------------------------------------------------------------------------
(* The operators, column by column.                                        *)

LEMMA MfaOpsType ==
    ASSUME NEW row \in Row, NEW n \in Nat, NEW d \in Nat
    PROVE  /\ SetMfaSecret(row, n) \in Row
           /\ EnableMfa(row, n) \in Row
           /\ DisableMfa(row) \in Row
           /\ ResetUser(row) \in Row
           /\ EnableBiometric(row, d) \in Row
           /\ DisableBiometric(row) \in Row
           /\ ResetMfaFailed(row) \in Row
           /\ ClearMfaTempToken(row) \in Row
BY DEF SetMfaSecret, EnableMfa, DisableMfa, ResetUser, EnableBiometric,
       DisableBiometric, ResetMfaFailed, ClearMfaTempToken, Assign, Row, Columns, Null

LEMMA IncrementMfaType ==
    ASSUME NEW ent \in Row, NEW time \in Nat
    PROVE  IncrementMfaFailed(ent, time) \in Row
BY ThresholdAssumption DEF IncrementMfaFailed, Assign, Row, Columns

-----------------------------------------------------------------------------
(* Types.                                                                  *)

LEMMA IamTypeInit == IamInit => IamTypes
<1> SUFFICES ASSUME IamInit PROVE IamTypes
    OBVIOUS
<1>1. LoginTypeOK(Places)
    BY TypeInit DEF IamInit, Init, Places
<1>2. \A u \in Accounts : users[u].mfaSecret \in Nat
    BY <1>1 DEF LoginTypeOK, RequestsTypeOK, Row
<1>3. MfaTypeOK
    BY <1>2 DEF IamInit, MfaInit, MfaTypeOK, Methods, Null
<1>4. \A s \in Slots : AskedToken(s)
    BY DEF IamInit, RequestsInit, AskedToken, Exchanging
<1> QED
    BY <1>1, <1>3, <1>4 DEF IamTypes

\* A step of slot s leaves the other slots alone.
OthersKept(s) ==
    \A r \in Slots \ {s} : pc'[r] = pc[r] /\ entity'[r] = entity[r] /\ who'[r] = who[r]

\* Logins and administrators leave the requests of the MFA endpoints alone.
LEMMA ServiceKeepsMfa ==
    ASSUME LoginTypeOK(Places), [Service]_vars, NEW r \in Slots, pc'[r] \in MfaPlaces
    PROVE  pc'[r] = pc[r] /\ entity'[r] = entity[r] /\ who'[r] = who[r]
<1> USE DEF LoginTypeOK, RequestsTypeOK, MfaPlaces
<1>1. ASSUME NEW s \in Slots, OthersKept(s), pc'[s] \notin MfaPlaces
      PROVE  pc'[r] = pc[r] /\ entity'[r] = entity[r] /\ who'[r] = who[r]
    BY <1>1 DEF OthersKept
<1>2. ASSUME NEW s \in Slots, NEW u \in Accounts, NEW right \in BOOLEAN,
             Receive(s, u, right)
      PROVE  OthersKept(s) /\ pc'[s] \notin MfaPlaces
    BY <1>2 DEF Receive, Find, GoTo, OthersKept
<1>3. ASSUME NEW s \in Slots,
             WrongPassword(s) \/ RightPassword(s) \/ CreateSession(s) \/ IssueToken(s)
      PROVE  OthersKept(s) /\ pc'[s] \notin MfaPlaces
    BY <1>3 DEF WrongPassword, RightPassword, CreateSession, IssueToken, GoTo, OthersKept
<1>4. ASSUME NEW s \in Slots, LoginSelect(s) \/ LoginUpdate(s)
      PROVE  OthersKept(s) /\ pc'[s] \notin MfaPlaces
    BY <1>4 DEF LoginSelect, SaveSelect, LoginUpdate, AfterSave, GoTo, OthersKept
<1>5. ASSUME NEW s \in Slots,
             \/ RejectLocked(s) \/ AuditFailed(s) \/ AuditPending(s)
             \/ AuditSuccess(s) \/ LoginFail(s)
      PROVE  OthersKept(s) /\ pc'[s] \notin MfaPlaces
    BY <1>5 DEF RejectLocked, AuditFailed, AuditPending, AuditSuccess, LoginFail, Fail,
       Finish, OthersKept
<1>6. ASSUME UNCHANGED slotVars
      PROVE  pc'[r] = pc[r] /\ entity'[r] = entity[r] /\ who'[r] = who[r]
    BY <1>6
<1> QED
    BY <1>1, <1>2, <1>3, <1>4, <1>5, <1>6
       DEF Service, LoginNext, LoginStep, UnknownEmail, Unlock, AdminUnlock, Tick

\* A handler of Mfa that returns.
LEMMA DoneType ==
    ASSUME IamTypes, NEW s \in Slots, Done(s), UNCHANGED now,
           users' \in [Accounts -> Row], UNCHANGED loginVars,
           secrets' = secrets, asks' = asks,
           mfaWrongs' = mfaWrongs, mfaStreak' \in [Accounts -> Nat],
           granted' \in Seq(Grants)
    PROVE  IamTypes'
<1>1. RequestsTypeOK(Places)'
    BY NewRowType DEF IamTypes, LoginTypeOK, RequestsTypeOK, Done, Finish, Places
<1>2. MfaTypeOK'
    BY DEF IamTypes, MfaTypeOK, Done, Forget, Methods, Null
<1>3. \A r \in Slots : AskedToken(r)'
    BY DEF IamTypes, LoginTypeOK, RequestsTypeOK, MfaTypeOK, AskedToken, Exchanging, Done,
       Finish, Forget
<1> QED
    BY <1>1, <1>2, <1>3 DEF IamTypes, LoginTypeOK

\* A handler of Mfa that goes on: its slot alone moves, and to a place of an
\* exchange with the row of the token it presented.
LEMMA GoOnType ==
    ASSUME IamTypes, NEW s \in Slots, NEW place \in MfaPlaces, GoTo(s, place),
           who'[s] \in Accounts, who' \in [Slots -> Accounts \cup {NoUser}],
           entity' \in [Slots -> Row], dirty' \in [Slots -> SUBSET Columns],
           \A r \in Slots \ {s} : entity'[r] = entity[r] /\ who'[r] = who[r],
           place \in Exchanging => Holds(entity'[s], presented'[s]),
           \A r \in Slots \ {s} : presented'[r] = presented[r],
           users' \in [Accounts -> Row],
           UNCHANGED <<now, ok>>, UNCHANGED loginVars, MfaTypeOK'
    PROVE  IamTypes'
<1>1. pc' = [pc EXCEPT ![s] = place]
    BY DEF GoTo
<1>2. RequestsTypeOK(Places)'
    BY <1>1 DEF IamTypes, LoginTypeOK, RequestsTypeOK, Places
<1>3. \A r \in Slots : AskedToken(r)'
    BY <1>1 DEF IamTypes, LoginTypeOK, RequestsTypeOK, AskedToken
<1> QED
    BY <1>2, <1>3 DEF IamTypes, LoginTypeOK

\* A write of one row by a handler that stays where it is.
LEMMA WriteType ==
    ASSUME IamTypes, NEW u \in Accounts, NEW row \in Row,
           users' = [users EXCEPT ![u] = row],
           UNCHANGED <<now, slotVars, presented>>, UNCHANGED loginVars, MfaTypeOK'
    PROVE  IamTypes'
BY DEF IamTypes, LoginTypeOK, RequestsTypeOK, AskedToken

LEMMA MfaRequestType ==
    ASSUME IamTypes, NEW s \in Slots, MfaRequest(s), UNCHANGED loginVars
    PROVE  IamTypes'
<1> USE DEF IamTypes, LoginTypeOK, RequestsTypeOK
<1>1. ASSUME NEW u \in Accounts, Setup(s, u) PROVE IamTypes'
    <2>0. users[u] \in Row /\ secrets[u] + 1 \in Nat
        BY DEF MfaTypeOK
    <2>1. SetMfaSecret(users[u], secrets[u] + 1) \in Row
        BY <2>0, MfaOpsType
    <2>2. MfaTypeOK'
        BY <1>1 DEF Setup, MfaTypeOK
    <2> QED
        BY <1>1, <2>1, <2>2, WriteType DEF Setup
<1>2. ASSUME NEW u \in Accounts, DisableBiometricStep(s, u) PROVE IamTypes'
    <2>1. DisableBiometric(users[u]) \in Row
        BY MfaOpsType
    <2>2. MfaTypeOK'
        BY <1>2 DEF DisableBiometricStep, MfaTypeOK
    <2> QED
        BY <1>2, <2>1, <2>2, WriteType DEF DisableBiometricStep
<1>3. ASSUME NEW u \in Accounts,
             VerifySetup(s, u) \/ Disable(s, u) \/ AskBiometric(s, u)
      PROVE  IamTypes'
    <2>1. /\ who' = [who EXCEPT ![s] = u]
          /\ entity' = [entity EXCEPT ![s] = users[u]]
          /\ UNCHANGED <<now, users, dirty, ok, mfaVars>>
        BY <1>3 DEF VerifySetup, Disable, AskBiometric, Find
    <2>2. PICK place \in MfaPlaces \ Exchanging : GoTo(s, place)
        BY <1>3 DEF VerifySetup, Disable, AskBiometric, Find, MfaPlaces, Exchanging
    <2>3. MfaTypeOK'
        BY <2>1 DEF MfaTypeOK
    <2> QED
        BY <2>1, <2>2, <2>3, GoOnType
<1>4. ASSUME NEW t \in Tokens, NEW m \in Methods, Ask(s, t, m) PROVE IamTypes'
    <2>1. PICK u \in Accounts : Matches(u, t) /\ Find(s, u, "asked")
        BY <1>4 DEF Ask
    <2>2. t \in Nat /\ presented' = [presented EXCEPT ![s] = t]
        BY <1>4, MfaAssumption DEF Ask
    <2>3. /\ who' = [who EXCEPT ![s] = u]
          /\ entity' = [entity EXCEPT ![s] = users[u]]
          /\ GoTo(s, "asked")
          /\ UNCHANGED <<now, users, dirty, ok>>
        BY <1>4, <2>1 DEF Ask, Find
    <2>4. MfaTypeOK'
        <3>1. /\ method' = [method EXCEPT ![s] = m] /\ asks' = asks + 1
              /\ UNCHANGED <<secrets, mfaWrongs, mfaStreak, granted>>
            BY <1>4 DEF Ask
        <3>2. MfaTypeOK
            OBVIOUS
        <3> QED
            BY ONLY <1>4, <2>2, <3>1, <3>2 DEF MfaTypeOK
    <2>5. Holds(entity'[s], presented'[s]) /\ "asked" \in MfaPlaces
        BY <2>1, <2>2, <2>3 DEF Matches, Holds, MfaPlaces, MfaTypeOK
    <2>6. \A r \in Slots \ {s} : presented'[r] = presented[r]
        BY <2>2 DEF MfaTypeOK
    <2> QED
        BY <2>3, <2>4, <2>5, <2>6, GoOnType
<1> QED
    BY <1>1, <1>2, <1>3, <1>4 DEF MfaRequest

LEMMA MfaStepType ==
    ASSUME IamTypes, NEW s \in Slots, MfaStep(s) \/ MfaFail(s), UNCHANGED loginVars
    PROVE  IamTypes'
<1> USE DEF IamTypes, LoginTypeOK, RequestsTypeOK
<1> DEFINE row == users[who[s]]
<1>0. ~ At(s, "idle") => who[s] \in Accounts /\ row \in Row
    BY DEF At
<1>1. ASSUME EnableMfaStep(s) PROVE IamTypes'
    <2>1. EnableMfa(row, 1) \in Row
        BY <1>0, <1>1, MfaOpsType DEF EnableMfaStep, At
    <2> QED
        BY <1>0, <1>1, <2>1, DoneType DEF EnableMfaStep, UpdateRow, At, MfaTypeOK
<1>2. ASSUME DisableMfaStep(s) PROVE IamTypes'
    <2>1. DisableMfa(row) \in Row
        BY <1>0, <1>2, MfaOpsType DEF DisableMfaStep, At
    <2> QED
        BY <1>0, <1>2, <2>1, DoneType DEF DisableMfaStep, UpdateRow, At, MfaTypeOK
<1>3. ASSUME NEW d \in Devices, EnableBiometricStep(s, d) PROVE IamTypes'
    <2>1. EnableBiometric(row, d) \in Row
        BY <1>0, <1>3, MfaOpsType, MfaAssumption DEF EnableBiometricStep, At
    <2> QED
        BY <1>0, <1>3, <2>1, DoneType DEF EnableBiometricStep, UpdateRow, At, MfaTypeOK
<1>4. ASSUME Refuse(s) \/ Throw(s) PROVE IamTypes'
    BY <1>4, DoneType DEF Refuse, Throw, MfaTypeOK
<1>5. ASSUME NEW place \in {"unlocked", "right", "wrong"}, pc[s] \in Exchanging,
             GoTo(s, place), UNCHANGED <<now, users, who, entity, dirty, ok, mfaVars>>
      PROVE  IamTypes'
    <2>1. place \in MfaPlaces
        BY DEF MfaPlaces
    <2>2. Holds(entity'[s], presented'[s]) /\ who'[s] \in Accounts
        BY <1>5 DEF AskedToken, Exchanging
    <2>3. MfaTypeOK'
        BY <1>5 DEF MfaTypeOK
    <2> QED
        BY <1>5, <2>1, <2>2, <2>3, GoOnType
<1>6. ASSUME \/ Proceed(s) \/ JudgeTotp(s) \/ JudgeBackup(s)
             \/ \E d \in Devices : JudgeBiometric(s, d)
      PROVE  IamTypes'
    <2>1. /\ pc[s] \in Exchanging
          /\ \E place \in {"unlocked", "right", "wrong"} : GoTo(s, place)
          /\ UNCHANGED <<now, users, who, entity, dirty, ok, mfaVars>>
        BY <1>6 DEF Proceed, JudgeTotp, JudgeBackup, JudgeBiometric, Judge, At,
           Exchanging
    <2> QED
        BY <1>5, <2>1
<1>7. ASSUME CountWrong(s) PROVE IamTypes'
    <2>1. IncrementMfaFailed(row, now) \in Row
        BY <1>0, <1>7, IncrementMfaType DEF CountWrong, At
    <2>2. MfaTypeOK'
        BY <1>0, <1>7 DEF CountWrong, At, MfaTypeOK
    <2>3. "mfaSelect" \in MfaPlaces \ Exchanging
        BY DEF MfaPlaces, Exchanging
    <2> QED
        BY <1>0, <1>7, <2>1, <2>2, <2>3, GoOnType DEF CountWrong, At
<1>8. ASSUME MfaSelect(s) PROVE IamTypes'
    <2>1. "mfaUpdate" \in MfaPlaces \ Exchanging
        BY DEF MfaPlaces, Exchanging
    <2>2. dirty' \in [Slots -> SUBSET Columns]
        BY <1>8 DEF MfaSelect, SaveSelect, Changed
    <2>3. MfaTypeOK'
        BY <1>8 DEF MfaSelect, MfaTypeOK
    <2> QED
        BY <1>0, <1>8, <2>1, <2>2, <2>3, GoOnType DEF MfaSelect, SaveSelect, At
<1>9. ASSUME MfaUpdate(s) PROVE IamTypes'
    <2>1. Merge(row, entity[s], dirty[s]) \in Row
        BY <1>0, <1>9, MergeType DEF MfaUpdate, At
    <2>2. users' \in [Accounts -> Row]
        BY <1>0, <1>9, <2>1 DEF MfaUpdate, SaveUpdate
    <2>3. mfaStreak' \in [Accounts -> Nat]
        BY <1>0, <1>9 DEF MfaUpdate, At, MfaTypeOK
    <2> QED
        BY <1>9, <2>2, <2>3, DoneType DEF MfaUpdate, MfaTypeOK
<1>10. ASSUME ResetMfa(s) PROVE IamTypes'
    <2>1. ResetMfaFailed(row) \in Row
        BY <1>0, <1>10, MfaOpsType DEF ResetMfa, At
    <2>2. MfaTypeOK'
        BY <1>0, <1>10 DEF ResetMfa, At, MfaTypeOK
    <2>3. "clearToken" \in MfaPlaces /\ Holds(entity[s], presented[s])
        BY <1>10 DEF ResetMfa, At, AskedToken, Exchanging, MfaPlaces
    <2> QED
        BY <1>0, <1>10, <2>1, <2>2, <2>3, GoOnType DEF ResetMfa, UpdateRow, At
<1>11. ASSUME Grant(s) PROVE IamTypes'
    <2>1. ClearMfaTempToken(row) \in Row
        BY <1>0, <1>11, MfaOpsType DEF Grant, At
    <2>2. [token |-> entity[s].mfaTempToken, presented |-> presented[s], user |-> who[s]]
              \in Grants
        BY <1>0, <1>11 DEF Grant, At, Grants, Row, MfaTypeOK
    <2>3. granted' \in Seq(Grants)
        BY <1>11, <2>2 DEF Grant, MfaTypeOK
    <2> QED
        BY <1>0, <1>11, <2>1, <2>3, DoneType DEF Grant, UpdateRow, At, MfaTypeOK
<1>12. ASSUME MfaFail(s) PROVE IamTypes'
    BY <1>12, DoneType DEF MfaFail, Fail, Done, MfaTypeOK
<1> QED
    BY <1>1, <1>2, <1>3, <1>4, <1>6, <1>7, <1>8, <1>9, <1>10, <1>11, <1>12
       DEF MfaStep

LEMMA IamTypeNext ==
    ASSUME IamTypes, [IamNext]_iamVars
    PROVE  IamTypes'
<1> USE DEF IamTypes
<1>0. LoginPlaces \cup {"idle"} \subseteq Places /\ Exchanging \subseteq MfaPlaces
    BY DEF Places, Exchanging, MfaPlaces
<1>1. ASSUME [Service]_vars, MfaTypeOK', UNCHANGED presented PROVE IamTypes'
    <2>1. LoginTypeOK(Places)'
        BY <1>0, <1>1, TypeNext
    <2>2. \A r \in Slots : AskedToken(r)'
        BY <1>0, <1>1, ServiceKeepsMfa DEF AskedToken
    <2> QED
        BY <1>1, <2>1, <2>2
<1>2. CASE LoginNext /\ UNCHANGED mfaVars
    BY <1>1, <1>2 DEF Service, MfaTypeOK
<1>3. CASE MfaNext /\ UNCHANGED loginVars
    BY <1>3, MfaRequestType, MfaStepType DEF MfaNext
<1>4. ASSUME NEW u \in Accounts, IamUnlock(u) PROVE IamTypes'
    <2>1. Quiet(u) \in BOOLEAN
        BY DEF Quiet
    <2>2. [Service]_vars
        BY <1>4, <2>1 DEF IamUnlock, Service
    <2>3. MfaTypeOK' /\ UNCHANGED presented
        BY <1>4 DEF IamUnlock, MfaTypeOK
    <2> QED
        BY <1>1, <2>2, <2>3
<1>5. ASSUME NEW u \in Accounts, IamReset(u) PROVE IamTypes'
    <2>1. ResetUser(users[u]) \in Row
        BY MfaOpsType DEF LoginTypeOK, RequestsTypeOK
    <2>2. MfaTypeOK'
        BY <1>5 DEF IamReset, MfaTypeOK
    <2> QED
        BY <1>5, <2>1, <2>2 DEF IamReset, AdminReset, LoginTypeOK, RequestsTypeOK,
           AskedToken
<1>6. CASE Tick /\ UNCHANGED <<loginVars, mfaVars>>
    BY <1>1, <1>6 DEF Service, MfaTypeOK
<1>7. CASE UNCHANGED iamVars
    BY <1>1, <1>7 DEF MfaTypeOK
<1> QED
    BY <1>2, <1>3, <1>4, <1>5, <1>6, <1>7 DEF IamNext

LEMMA IamTypesHold == IamSpec => []IamTypes
<1>1. IamTypes /\ [IamNext]_iamVars => IamTypes'
    BY IamTypeNext
<1> QED
    BY <1>1, IamTypeInit, PTL DEF IamSpec

\* Every reachable state of the whole service is well typed: what each handler
\* hands to the next is what it expects (MfaController's handlers among those of
\* login).
THEOREM IamTypeCorrect == IamSpec => []IamTypeOK
<1>1. IamTypes => IamTypeOK
    BY DEF IamTypes, IamTypeOK, LoginTypeOK, Places
<1> QED
    BY <1>1, IamTypesHold, PTL

-----------------------------------------------------------------------------
(* Rows.                                                                   *)

\* The strengthening, of one copy of a row: it counts no more than happened, in
\* either counter; its locks end; biometrics are preferred if they are on; and the
\* token in it was drawn for its user.  It says the same of the row in the table
\* and of what a handler read from it: a save mixes the two.
Good(row, w, m, drawn, time) ==
    /\ row.failedAttempts <= w
    /\ row.lockedUntil # Null => w >= LockThreshold
    /\ row.mfaFailedAttempts <= m
    /\ row.mfaLockedUntil # Null => m >= MfaThreshold
    /\ row.lockedUntil <= time + LockTicks
    /\ row.mfaLockedUntil <= time + LockTicks
    /\ CoherentRow(row)
    /\ row.mfaTempToken # Null => row.mfaTempToken \in drawn

\* A save that writes one of the two biometric columns writes both.
Paired(cols) == "biometricEnabled" \in cols <=> "preferredMfaMethod" \in cols

LEMMA GoodOps ==
    ASSUME NEW row \in Row, NEW w \in Nat, NEW m \in Nat, NEW drawn, NEW time \in Nat,
           NEW n, Good(row, w, m, drawn, time)
    PROVE  /\ Good(ResetFailed(row), w, m, drawn, time)
           /\ Good(SetMfaSecret(row, n), w, m, drawn, time)
           /\ Good(EnableMfa(row, n), w, m, drawn, time)
           /\ Good(DisableMfa(row), w, m, drawn, time)
           /\ Good(EnableBiometric(row, n), w, m, drawn, time)
           /\ Good(DisableBiometric(row), w, m, drawn, time)
           /\ Good(ResetMfaFailed(row), w, m, drawn, time)
           /\ Good(ClearMfaTempToken(row), w, m, drawn, time)
BY ThresholdAssumption
   DEF Good, CoherentRow, ResetFailed, SetMfaSecret, EnableMfa, DisableMfa,
       EnableBiometric, DisableBiometric, ResetMfaFailed, ClearMfaTempToken, Assign,
       Row, Columns, Null

\* An administrator's write leaves nothing to be backed.
LEMMA GoodCleared ==
    ASSUME NEW row \in Row, NEW w \in Nat, NEW m \in Nat, NEW drawn, NEW time \in Nat,
           Good(row, w, m, drawn, time), NEW fewer \in Nat, NEW mfaFewer \in Nat
    PROVE  /\ Good(UnlockUser(row), fewer, mfaFewer, drawn, time)
           /\ Good(ResetUser(row), fewer, mfaFewer, drawn, time)
BY ThresholdAssumption
   DEF Good, CoherentRow, UnlockUser, ResetUser, Assign, Row, Columns, Null

LEMMA GoodToken ==
    ASSUME NEW row \in Row, NEW w \in Nat, NEW m \in Nat, NEW drawn, NEW time \in Nat,
           Good(row, w, m, drawn, time), NEW token \in drawn, NEW expires
    PROVE  Good(SetTempToken(row, token, expires), w, m, drawn, time)
BY DEF Good, CoherentRow, SetTempToken, Assign, Row, Columns, Null

LEMMA GoodIncrement ==
    ASSUME NEW row \in Row, NEW w \in Nat, NEW m \in Nat, NEW drawn, NEW time \in Nat,
           Good(row, w, m, drawn, time)
    PROVE  Good(IncrementFailed(row, time), w + 1, m, drawn, time)
BY ThresholdAssumption
   DEF Good, CoherentRow, IncrementFailed, Assign, Row, Columns, Null

LEMMA GoodIncrementMfa ==
    ASSUME NEW row \in Row, NEW w \in Nat, NEW m \in Nat, NEW drawn, NEW time \in Nat,
           Good(row, w, m, drawn, time)
    PROVE  Good(IncrementMfaFailed(row, time), w, m + 1, drawn, time)
BY ThresholdAssumption
   DEF Good, CoherentRow, IncrementMfaFailed, Assign, Row, Columns, Null

LEMMA GoodMerge ==
    ASSUME NEW row \in Row, NEW ent \in Row, NEW cols, Paired(cols),
           NEW w \in Nat, NEW m \in Nat, NEW drawn, NEW time \in Nat,
           Good(row, w, m, drawn, time), Good(ent, w, m, drawn, time)
    PROVE  Good(Merge(row, ent, cols), w, m, drawn, time)
BY DEF Good, CoherentRow, Paired, Merge, Row, Columns

LEMMA ChangedPaired ==
    ASSUME NEW row \in Row, NEW ent \in Row, CoherentRow(row), CoherentRow(ent)
    PROVE  Paired(Changed(ent, row))
BY DEF CoherentRow, Paired, Changed, Row, Columns

LEMMA GoodGrows ==
    ASSUME NEW row \in Row, NEW w \in Nat, NEW m \in Nat, NEW drawn, NEW time \in Nat,
           Good(row, w, m, drawn, time),
           NEW more \in Nat, more >= w, NEW mfaMore \in Nat, mfaMore >= m,
           NEW later \in Nat, later >= time, NEW all, drawn \subseteq all
    PROVE  Good(row, more, mfaMore, all, later)
BY ThresholdAssumption DEF Good, Row, Null

-----------------------------------------------------------------------------
(* Steps.                                                                  *)

\* What a row of u may say now, and after a step.
Says(u, row) == Good(row, wrongs[u], mfaWrongs[u], Drawn(u, issued), now)
WillSay(u, row) == Good(row, wrongs'[u], mfaWrongs'[u], Drawn(u, issued'), now')

GoodInv ==
    /\ \A u \in Accounts : Says(u, users[u])
    /\ \A s \in Slots : who[s] \in Accounts => Says(who[s], entity[s])
    /\ \A s \in Slots : Paired(dirty[s])

LEMMA GoodInit == IamInit => GoodInv
<1> SUFFICES ASSUME IamInit PROVE GoodInv
    OBVIOUS
<1>1. \A u \in Accounts : Says(u, users[u])
    BY ThresholdAssumption
       DEF IamInit, RequestsInit, LoginInit, MfaInit, Says, Good, CoherentRow, NewRow,
           Assign, Columns, Null
<1>2. \A s \in Slots : who[s] \notin Accounts /\ Paired(dirty[s])
    BY RequestAssumption DEF IamInit, RequestsInit, Paired
<1> QED
    BY <1>1, <1>2 DEF GoodInv

\* Nothing is forgotten: the counts, the clock and the tokens drawn grow.
Grow ==
    /\ now' >= now
    /\ \A u \in Accounts : /\ wrongs'[u] >= wrongs[u]
                           /\ mfaWrongs'[u] >= mfaWrongs[u]
                           /\ Drawn(u, issued) \subseteq Drawn(u, issued')

Calm == UNCHANGED <<now, wrongs, mfaWrongs, issued>>

LEMMA CalmGrows == IamTypes /\ Calm => Grow
BY DEF Calm, Grow, Drawn, IamTypes, LoginTypeOK, RequestsTypeOK, MfaTypeOK

LEMMA StaysGood ==
    ASSUME IamTypes, IamTypes', Grow, NEW u \in Accounts, NEW row \in Row, Says(u, row)
    PROVE  WillSay(u, row)
<1>1. /\ wrongs[u] \in Nat /\ mfaWrongs[u] \in Nat /\ now \in Nat
      /\ wrongs'[u] \in Nat /\ mfaWrongs'[u] \in Nat /\ now' \in Nat
    BY DEF IamTypes, LoginTypeOK, RequestsTypeOK, MfaTypeOK
<1> QED
    BY <1>1, GoodGrows DEF Says, WillSay, Grow

\* A slot that keeps what it holds, or lets go of it.
Keeps(r) == who'[r] \in Accounts => who'[r] = who[r] /\ entity'[r] = entity[r]

KeepsDirty(r) == dirty'[r] \in {dirty[r], {}}

\* A step in which nothing is forgotten keeps the invariant if what it writes and
\* what it hands to its slot is good.
LEMMA GoodStep ==
    ASSUME IamTypes, IamTypes', GoodInv, Grow,
           \A u \in Accounts : users'[u] = users[u] \/ WillSay(u, users'[u]),
           \A r \in Slots : \/ Keeps(r)
                            \/ who'[r] \in Accounts /\ WillSay(who'[r], entity'[r]),
           \A r \in Slots : KeepsDirty(r) \/ Paired(dirty'[r])
    PROVE  GoodInv'
<1> USE DEF IamTypes, LoginTypeOK, RequestsTypeOK
<1>1. \A u \in Accounts : WillSay(u, users'[u])
    BY StaysGood DEF GoodInv
<1>2. \A r \in Slots : who'[r] \in Accounts => WillSay(who'[r], entity'[r])
    BY StaysGood DEF GoodInv, Keeps
<1>3. \A r \in Slots : Paired(dirty'[r])
    BY DEF GoodInv, KeepsDirty, Paired
<1> QED
    BY <1>1, <1>2, <1>3 DEF GoodInv, Says, WillSay

LEMMA GoodQuiet ==
    ASSUME IamTypes, IamTypes', GoodInv, Calm, UNCHANGED users,
           \A r \in Slots : Keeps(r) /\ KeepsDirty(r)
    PROVE  GoodInv'
BY CalmGrows, GoodStep

\* One row written, of the user a slot works for or of another.
LEMMA GoodWrite ==
    ASSUME IamTypes, IamTypes', GoodInv, Calm, NEW u \in Accounts, NEW row,
           Says(u, row), users' = [users EXCEPT ![u] = row],
           \A r \in Slots : Keeps(r) /\ KeepsDirty(r)
    PROVE  GoodInv'
<1>1. WillSay(u, row)
    BY DEF Calm, Says, WillSay, Drawn
<1>2. \A v \in Accounts : users'[v] = users[v] \/ WillSay(v, users'[v])
    BY <1>1 DEF IamTypes, LoginTypeOK, RequestsTypeOK
<1> QED
    BY <1>2, CalmGrows, GoodStep

\* A row read.
LEMMA GoodFind ==
    ASSUME IamTypes, IamTypes', GoodInv, Calm, UNCHANGED <<users, dirty>>,
           NEW s \in Slots, NEW u \in Accounts, NEW place, Find(s, u, place)
    PROVE  GoodInv'
<1>1. WillSay(u, users[u])
    BY DEF GoodInv, Calm, Says, WillSay, Drawn
<1>2. \A r \in Slots : \/ Keeps(r)
                       \/ who'[r] \in Accounts /\ WillSay(who'[r], entity'[r])
    BY <1>1 DEF Find, Keeps, IamTypes, LoginTypeOK, RequestsTypeOK
<1> QED
    BY <1>2, CalmGrows, GoodStep DEF KeepsDirty

\* An entity changed in memory.
LEMMA GoodEntity ==
    ASSUME IamTypes, IamTypes', GoodInv, Grow, UNCHANGED <<users, dirty, who>>,
           NEW s \in Slots, who[s] \in Accounts, NEW ent, WillSay(who[s], ent),
           entity' = [entity EXCEPT ![s] = ent]
    PROVE  GoodInv'
<1>1. \A r \in Slots : \/ Keeps(r)
                       \/ who'[r] \in Accounts /\ WillSay(who'[r], entity'[r])
    BY DEF Keeps, IamTypes, LoginTypeOK, RequestsTypeOK
<1> QED
    BY <1>1, GoodStep DEF KeepsDirty

\* The first half of a save.
LEMMA GoodSelect ==
    ASSUME IamTypes, IamTypes', GoodInv, Calm, NEW s \in Slots, NEW from, NEW place,
           from # "idle", SaveSelect(s, from, place)
    PROVE  GoodInv'
<1>1. who[s] \in Accounts
    BY DEF SaveSelect, At, IamTypes, LoginTypeOK, RequestsTypeOK
<1>2. Paired(Changed(entity[s], users[who[s]]))
    BY <1>1, ChangedPaired
       DEF GoodInv, Says, Good, IamTypes, LoginTypeOK, RequestsTypeOK
<1>3. \A r \in Slots : KeepsDirty(r) \/ Paired(dirty'[r])
    BY <1>2 DEF SaveSelect, KeepsDirty, IamTypes, LoginTypeOK, RequestsTypeOK
<1> QED
    BY <1>3, CalmGrows, GoodStep DEF SaveSelect, Keeps

\* The second half.
LEMMA MergeSays ==
    ASSUME IamTypes, GoodInv, NEW s \in Slots, who[s] \in Accounts
    PROVE  Says(who[s], Merge(users[who[s]], entity[s], dirty[s]))
<1>1. /\ wrongs[who[s]] \in Nat /\ mfaWrongs[who[s]] \in Nat /\ now \in Nat
      /\ users[who[s]] \in Row /\ entity[s] \in Row
    BY DEF IamTypes, LoginTypeOK, RequestsTypeOK, MfaTypeOK
<1> QED
    BY <1>1, GoodMerge DEF GoodInv, Says

\* An administrator's write: the counts of a user nobody works for start afresh.
LEMMA GoodForgotten ==
    ASSUME IamTypes, IamTypes', GoodInv, UNCHANGED <<now, issued, slotVars>>,
           NEW u \in Accounts, NEW row, row \in {UnlockUser(users[u]), ResetUser(users[u])},
           users' = [users EXCEPT ![u] = row],
           wrongs' = IF Quiet(u) THEN [wrongs EXCEPT ![u] = 0] ELSE wrongs,
           mfaWrongs' = IF Quiet(u) THEN [mfaWrongs EXCEPT ![u] = 0] ELSE mfaWrongs
    PROVE  GoodInv'
<1> USE DEF IamTypes, LoginTypeOK, RequestsTypeOK, MfaTypeOK
<1>1. \A v \in Accounts : Drawn(v, issued') = Drawn(v, issued)
    BY DEF Drawn
<1>2. WillSay(u, row)
    <2>1. /\ wrongs[u] \in Nat /\ mfaWrongs[u] \in Nat /\ now \in Nat
          /\ wrongs'[u] \in Nat /\ mfaWrongs'[u] \in Nat /\ users[u] \in Row
          /\ now' = now
        OBVIOUS
    <2>2. Good(users[u], wrongs[u], mfaWrongs[u], Drawn(u, issued), now)
        BY DEF GoodInv, Says
    <2> QED
        <3>1. Good(row, wrongs'[u], mfaWrongs'[u], Drawn(u, issued), now)
            BY ONLY <2>1, <2>2, GoodCleared, row \in {UnlockUser(users[u]), ResetUser(users[u])}
        <3> QED
            BY ONLY <1>1, <2>1, <3>1 DEF WillSay
<1>3. \A v \in Accounts \ {u} : wrongs'[v] = wrongs[v] /\ mfaWrongs'[v] = mfaWrongs[v]
    <2>1. wrongs \in [Accounts -> Nat] /\ mfaWrongs \in [Accounts -> Nat]
        OBVIOUS
    <2>2. \A v \in Accounts \ {u} : wrongs'[v] = wrongs[v]
        BY ONLY <2>1, wrongs' = IF Quiet(u) THEN [wrongs EXCEPT ![u] = 0] ELSE wrongs
    <2>3. \A v \in Accounts \ {u} : mfaWrongs'[v] = mfaWrongs[v]
        BY ONLY <2>1, mfaWrongs' = IF Quiet(u) THEN [mfaWrongs EXCEPT ![u] = 0] ELSE mfaWrongs
    <2> QED
        BY <2>2, <2>3
<1>4. \A v \in Accounts : WillSay(v, users'[v])
    BY <1>1, <1>2, <1>3 DEF GoodInv, Says, WillSay
<1>5. \A r \in Slots : who[r] \in Accounts =>
          wrongs'[who[r]] = wrongs[who[r]] /\ mfaWrongs'[who[r]] = mfaWrongs[who[r]]
    BY <1>3 DEF Quiet
<1>6. ASSUME NEW r \in Slots, who'[r] \in Accounts
      PROVE  WillSay(who'[r], entity'[r])
    <2>1. who'[r] = who[r] /\ entity'[r] = entity[r] /\ now' = now /\ issued' = issued
        OBVIOUS
    <2>2. Says(who[r], entity[r])
        BY <1>6, <2>1 DEF GoodInv
    <2> QED
        BY <1>5, <1>6, <2>1, <2>2 DEF Says, WillSay
<1> QED
    BY <1>4, <1>6 DEF GoodInv, Says, WillSay

-----------------------------------------------------------------------------
(* Every action.                                                           *)

\* What a step of slot s does to the slots: the others keep what they hold, and s
\* lets go.
LEMMA FinishKeeps ==
    ASSUME IamTypes, NEW s \in Slots, Finish(s)
    PROVE  \A r \in Slots : Keeps(r) /\ KeepsDirty(r)
BY RequestAssumption DEF Finish, Keeps, KeepsDirty, IamTypes, LoginTypeOK, RequestsTypeOK

LEMMA GoodLogin ==
    ASSUME IamTypes, IamTypes', GoodInv, LoginNext, UNCHANGED mfaVars
    PROVE  GoodInv'
<1>0. \A s \in Slots : /\ ~ At(s, "idle") => who[s] \in Accounts
                       /\ entity[s] \in Row /\ now \in Nat
                       /\ \A u \in Accounts : /\ wrongs[u] \in Nat /\ mfaWrongs[u] \in Nat
                                              /\ users[u] \in Row
    BY DEF At, IamTypes, LoginTypeOK, RequestsTypeOK, MfaTypeOK
<1>1. ASSUME NEW s \in Slots, NEW u \in Accounts, NEW right \in BOOLEAN,
             Receive(s, u, right)
      PROVE  GoodInv'
    BY <1>1, GoodFind DEF Receive, Calm
<1>2. ASSUME NEW s \in Slots, UnknownEmail(s) PROVE GoodInv'
    BY <1>2, GoodQuiet DEF UnknownEmail, Calm, Keeps, KeepsDirty
<1>3. ASSUME NEW s \in Slots,
             \/ RejectLocked(s) \/ AuditFailed(s) \/ AuditPending(s)
             \/ AuditSuccess(s) \/ LoginFail(s)
      PROVE  GoodInv'
    BY <1>3, FinishKeeps, GoodQuiet
       DEF RejectLocked, AuditFailed, AuditPending, AuditSuccess, LoginFail, Fail, Calm
<1>4. ASSUME NEW s \in Slots, WrongPassword(s) PROVE GoodInv'
    <2> DEFINE u == who[s]
               ent == IncrementFailed(entity[s], now)
    <2>1. u \in Accounts
        BY <1>0, <1>4 DEF WrongPassword, At
    <2>2. wrongs' = [wrongs EXCEPT ![u] = @ + 1]
        BY <1>4 DEF WrongPassword, Bump
    <2>3. UNCHANGED <<now, mfaWrongs, issued>>
        BY <1>4 DEF WrongPassword
    <2>4. Grow
        <3>1. \A v \in Accounts : wrongs'[v] >= wrongs[v]
            <4>1. wrongs \in [Accounts -> Nat]
                BY <1>0 DEF IamTypes, LoginTypeOK
            <4> QED
                BY ONLY <2>1, <2>2, <4>1
        <3>2. \A v \in Accounts : mfaWrongs'[v] >= mfaWrongs[v]
            BY <1>0, <2>3
        <3> QED
            BY <1>0, <2>3, <3>1, <3>2 DEF Grow
    <2>5. wrongs'[u] = wrongs[u] + 1
        BY <2>1, <2>2 DEF IamTypes, LoginTypeOK
    <2>6. Good(ent, wrongs[u] + 1, mfaWrongs[u], Drawn(u, issued), now)
        BY <1>0, <2>1, GoodIncrement DEF GoodInv, Says
    <2>7. WillSay(u, ent)
        BY <2>3, <2>5, <2>6 DEF WillSay
    <2> QED
        BY <1>4, <2>1, <2>4, <2>7, GoodEntity DEF WrongPassword
<1>5. ASSUME NEW s \in Slots, RightPassword(s) PROVE GoodInv'
    <2> DEFINE u == who[s]
    <2>1. u \in Accounts
        BY <1>0, <1>5 DEF RightPassword, At
    <2>2. Good(ResetFailed(entity[s]), wrongs[u], mfaWrongs[u], Drawn(u, issued), now)
        BY <1>0, <2>1, GoodOps DEF GoodInv, Says
    <2>3. Calm
        BY <1>5 DEF RightPassword, Calm
    <2>4. WillSay(u, ResetFailed(entity[s]))
        BY <2>2, <2>3 DEF WillSay, Calm
    <2> QED
        BY <1>5, <2>1, <2>3, <2>4, CalmGrows, GoodEntity DEF RightPassword
<1>6. ASSUME NEW s \in Slots, LoginSelect(s) PROVE GoodInv'
    BY <1>6, GoodSelect DEF LoginSelect, Calm, SaveSelect
<1>7. ASSUME NEW s \in Slots, LoginUpdate(s) PROVE GoodInv'
    <2>1. who[s] \in Accounts
        BY <1>0, <1>7 DEF LoginUpdate, At
    <2>2. \A r \in Slots : Keeps(r) /\ KeepsDirty(r)
        BY <1>7 DEF LoginUpdate, Keeps, KeepsDirty, IamTypes, LoginTypeOK, RequestsTypeOK
    <2> QED
        BY <1>7, <2>1, <2>2, MergeSays, GoodWrite DEF LoginUpdate, SaveUpdate, Calm
<1>8. ASSUME NEW s \in Slots, IssueToken(s) PROVE GoodInv'
    <2> DEFINE u == who[s]
               token == Len(issued) + 1
               row == SetTempToken(users[u], token, now + TempTtl)
    <2>1. u \in Accounts
        BY <1>0, <1>8 DEF IssueToken, At
    <2>2. /\ issued' = Append(issued, u)
          /\ users' = [users EXCEPT ![u] = row]
          /\ UNCHANGED <<now, who, entity, dirty, wrongs, mfaWrongs>>
        BY <1>8 DEF IssueToken, UpdateRow
    <2>3. /\ \A v \in Accounts : Drawn(v, issued) \subseteq Drawn(v, issued')
          /\ token \in Drawn(u, issued')
        <3>1. issued \in Seq(Accounts)
            BY <1>0 DEF IamTypes, LoginTypeOK
        <3>2. /\ Len(issued') = token /\ Len(issued) \in Nat
              /\ \A t \in 1 .. Len(issued) : issued'[t] = issued[t]
              /\ issued'[token] = u
            BY ONLY <2>1, <2>2, <3>1, AppendProperties
        <3> QED
            BY ONLY <3>2 DEF Drawn
    <2>4. Grow
        <3>1. /\ wrongs \in [Accounts -> Nat] /\ mfaWrongs \in [Accounts -> Nat] /\ now \in Nat
              /\ UNCHANGED <<now, wrongs, mfaWrongs>>
            BY <1>0, <2>2 DEF IamTypes, LoginTypeOK, RequestsTypeOK, MfaTypeOK
        <3> QED
            BY ONLY <2>3, <3>1 DEF Grow
    <2>5. Good(users[u], wrongs[u], mfaWrongs[u], Drawn(u, issued'), now)
        <3>1. WillSay(u, users[u])
            BY <2>1, <2>4, <1>0, StaysGood DEF GoodInv
        <3> QED
            BY <3>1, <2>2 DEF WillSay
    <2>6. WillSay(u, row)
        BY <1>0, <2>1, <2>2, <2>3, <2>5, GoodToken DEF WillSay
    <2>7. \A v \in Accounts : users'[v] = users[v] \/ WillSay(v, users'[v])
        BY <2>1, <2>2, <2>6 DEF IamTypes, LoginTypeOK, RequestsTypeOK
    <2> QED
        BY <2>2, <2>4, <2>7, GoodStep DEF Keeps, KeepsDirty
<1>9. ASSUME NEW s \in Slots, CreateSession(s) PROVE GoodInv'
    BY <1>9, GoodQuiet DEF CreateSession, Calm, Keeps, KeepsDirty
<1> QED
    BY <1>1, <1>2, <1>3, <1>4, <1>5, <1>6, <1>7, <1>8, <1>9 DEF LoginNext, LoginStep

\* What an update writes is made of the row that is there.
LEMMA WritesSay ==
    ASSUME IamTypes, GoodInv, NEW u \in Accounts, NEW n
    PROVE  /\ Says(u, SetMfaSecret(users[u], n))
           /\ Says(u, EnableMfa(users[u], n))
           /\ Says(u, DisableMfa(users[u]))
           /\ Says(u, EnableBiometric(users[u], n))
           /\ Says(u, DisableBiometric(users[u]))
           /\ Says(u, ResetMfaFailed(users[u]))
           /\ Says(u, ClearMfaTempToken(users[u]))
<1>1. /\ wrongs[u] \in Nat /\ mfaWrongs[u] \in Nat /\ now \in Nat /\ users[u] \in Row
    BY DEF IamTypes, LoginTypeOK, RequestsTypeOK, MfaTypeOK
<1>2. Good(users[u], wrongs[u], mfaWrongs[u], Drawn(u, issued), now)
    BY DEF GoodInv, Says
<1> QED
    BY <1>1, <1>2, GoodOps DEF Says

LEMMA GoodMfa ==
    ASSUME IamTypes, IamTypes', GoodInv, MfaNext, UNCHANGED loginVars
    PROVE  GoodInv'
<1>0. \A s \in Slots : ~ At(s, "idle") => who[s] \in Accounts
    BY DEF At, IamTypes, LoginTypeOK, RequestsTypeOK
<1>1. ASSUME NEW s \in Slots, NEW u \in Accounts,
             VerifySetup(s, u) \/ Disable(s, u) \/ AskBiometric(s, u)
      PROVE  GoodInv'
    BY <1>1, GoodFind DEF VerifySetup, Disable, AskBiometric, Calm
<1>2. ASSUME NEW s \in Slots, NEW t \in Tokens, NEW m \in Methods, Ask(s, t, m)
      PROVE  GoodInv'
    BY <1>2, GoodFind DEF Ask, Calm
<1>3. ASSUME NEW s \in Slots, NEW u \in Accounts, Setup(s, u) \/ DisableBiometricStep(s, u)
      PROVE  GoodInv'
    BY <1>3, WritesSay, GoodWrite
       DEF Setup, DisableBiometricStep, Calm, Keeps, KeepsDirty
<1>4. ASSUME NEW s \in Slots, EnableMfaStep(s) \/ DisableMfaStep(s) \/ Grant(s)
      PROVE  GoodInv'
    <2> DEFINE u == who[s]
    <2>1. u \in Accounts
        BY <1>0, <1>4 DEF EnableMfaStep, DisableMfaStep, Grant, At
    <2>2. PICK row \in {EnableMfa(users[u], 1), DisableMfa(users[u]),
                        ClearMfaTempToken(users[u])} : UpdateRow(s, row)
        BY <1>4 DEF EnableMfaStep, DisableMfaStep, Grant
    <2>3. Says(u, row)
        BY <2>1, <2>2, WritesSay
    <2>4. Finish(s) /\ Calm
        BY <1>4 DEF EnableMfaStep, DisableMfaStep, Grant, Done, Calm
    <2> QED
        BY <2>1, <2>2, <2>3, <2>4, FinishKeeps, GoodWrite DEF UpdateRow
<1>5. ASSUME NEW s \in Slots, NEW d \in Devices, EnableBiometricStep(s, d)
      PROVE  GoodInv'
    BY <1>0, <1>5, WritesSay, FinishKeeps, GoodWrite
       DEF EnableBiometricStep, UpdateRow, Done, Calm, At
<1>6. ASSUME NEW s \in Slots, ResetMfa(s) PROVE GoodInv'
    BY <1>0, <1>6, WritesSay, GoodWrite
       DEF ResetMfa, UpdateRow, Calm, At, Keeps, KeepsDirty
<1>7. ASSUME NEW s \in Slots, Refuse(s) \/ Throw(s) \/ MfaFail(s) PROVE GoodInv'
    BY <1>7, FinishKeeps, GoodQuiet DEF Refuse, Throw, MfaFail, Fail, Done, Calm
<1>8. ASSUME NEW s \in Slots,
             \/ Proceed(s) \/ JudgeTotp(s) \/ JudgeBackup(s)
             \/ \E d \in Devices : JudgeBiometric(s, d)
      PROVE  GoodInv'
    <2>1. UNCHANGED <<now, users, who, entity, dirty, mfaVars>>
        BY <1>8 DEF Proceed, JudgeTotp, JudgeBackup, JudgeBiometric, Judge
    <2> QED
        BY <2>1, GoodQuiet DEF Calm, Keeps, KeepsDirty
<1>9. ASSUME NEW s \in Slots, CountWrong(s) PROVE GoodInv'
    <2> DEFINE u == who[s]
               ent == IncrementMfaFailed(users[u], now)
    <2>1. u \in Accounts
        BY <1>0, <1>9 DEF CountWrong, At
    <2>2. /\ mfaWrongs' = [mfaWrongs EXCEPT ![u] = @ + 1]
          /\ UNCHANGED <<now, wrongs, issued>>
        BY <1>9 DEF CountWrong
    <2>3. /\ \A v \in Accounts : wrongs[v] \in Nat /\ mfaWrongs[v] \in Nat
          /\ users[u] \in Row /\ now \in Nat
        BY <2>1 DEF IamTypes, LoginTypeOK, RequestsTypeOK, MfaTypeOK
    <2>4. Grow
        <3>1. \A v \in Accounts : mfaWrongs'[v] >= mfaWrongs[v]
            <4>1. mfaWrongs \in [Accounts -> Nat]
                BY <2>1 DEF IamTypes, MfaTypeOK
            <4> QED
                BY ONLY <2>1, <2>2, <4>1
        <3>2. \A v \in Accounts : wrongs'[v] >= wrongs[v]
            BY <2>2, <2>3
        <3> QED
            BY <2>2, <2>3, <3>1, <3>2 DEF Grow
    <2>5. mfaWrongs'[u] = mfaWrongs[u] + 1
        BY <2>1, <2>2 DEF IamTypes, MfaTypeOK
    <2>6. Good(ent, wrongs[u], mfaWrongs[u] + 1, Drawn(u, issued), now)
        BY <2>1, <2>3, GoodIncrementMfa DEF GoodInv, Says
    <2>7. WillSay(u, ent)
        BY <2>2, <2>5, <2>6 DEF WillSay
    <2> QED
        BY <1>9, <2>1, <2>4, <2>7, GoodEntity DEF CountWrong
<1>10. ASSUME NEW s \in Slots, MfaSelect(s) PROVE GoodInv'
    BY <1>10, GoodSelect DEF MfaSelect, Calm, SaveSelect
<1>11. ASSUME NEW s \in Slots, MfaUpdate(s) PROVE GoodInv'
    BY <1>0, <1>11, MergeSays, FinishKeeps, GoodWrite
       DEF MfaUpdate, SaveUpdate, Done, Calm, At
<1> QED
    BY <1>1, <1>2, <1>3, <1>4, <1>5, <1>6, <1>7, <1>8, <1>9, <1>10, <1>11
       DEF MfaNext, MfaRequest, MfaStep

LEMMA GoodNext ==
    ASSUME IamTypes, IamTypes', GoodInv, [IamNext]_iamVars
    PROVE  GoodInv'
<1>1. CASE LoginNext /\ UNCHANGED mfaVars
    BY <1>1, GoodLogin
<1>2. CASE MfaNext /\ UNCHANGED loginVars
    BY <1>2, GoodMfa
<1>3. ASSUME NEW u \in Accounts, IamUnlock(u) PROVE GoodInv'
    <2>1. users' = [users EXCEPT ![u] = UnlockUser(users[u])]
        BY <1>3 DEF IamUnlock, Unlock, AdminUnlock
    <2> QED
        BY <1>3, <2>1, GoodForgotten DEF IamUnlock, Unlock, AdminUnlock
<1>4. ASSUME NEW u \in Accounts, IamReset(u) PROVE GoodInv'
    <2>1. users' = [users EXCEPT ![u] = ResetUser(users[u])]
        BY <1>4 DEF IamReset, AdminReset
    <2> QED
        BY <1>4, <2>1, GoodForgotten DEF IamReset, AdminReset
<1>5. CASE Tick /\ UNCHANGED <<loginVars, mfaVars>>
    <2>1. Grow
        BY <1>5 DEF Tick, Grow, IamTypes, LoginTypeOK, RequestsTypeOK, MfaTypeOK
    <2> QED
        BY <1>5, <2>1, GoodStep DEF Tick, Keeps, KeepsDirty
<1>6. CASE UNCHANGED iamVars
    BY <1>6, GoodQuiet DEF Calm, Keeps, KeepsDirty
<1> QED
    BY <1>1, <1>2, <1>3, <1>4, <1>5, <1>6 DEF IamNext

-----------------------------------------------------------------------------
(* What follows of rows.                                                   *)

IamInv == IamTypes /\ GoodInv

LEMMA IamInvHolds == IamSpec => []IamInv
<1>1. IamInit => IamInv
    BY IamTypeInit, GoodInit DEF IamInv
<1>2. IamInv /\ [IamNext]_iamVars => IamInv'
    BY IamTypeNext, GoodNext DEF IamInv
<1> QED
    BY <1>1, <1>2, PTL DEF IamSpec

\* With every handler of the service at work on the same rows, and the
\* administrator's two among them, an account is still locked only after
\* LockThreshold wrong passwords (incrementFailedAttempts; update and save of
\* every other column).
THEOREM IamLockSound == IamSpec => []LockBacked
<1>1. IamInv => LockBacked
    BY DEF IamInv, GoodInv, Says, Good, LockBacked, Backed
<1> QED
    BY <1>1, IamInvHolds, PTL

\* The lock on passwords ends, whoever else writes the row.
THEOREM IamLockEnds == IamSpec => []LockBounded
<1>1. IamInv => LockBounded
    BY DEF IamInv, GoodInv, Says, Good, LockBounded
<1> QED
    BY <1>1, IamInvHolds, PTL

\* The MFA step is locked only after MfaThreshold wrong second factors, although
\* the saves of login write its counter back (incrementMfaFailedAttempts).
THEOREM IamMfaLockSound == IamSpec => []MfaLockBacked
<1>1. IamInv => MfaLockBacked
    BY DEF IamInv, GoodInv, Says, Good, MfaLockBacked, MfaBackedRow
<1> QED
    BY <1>1, IamInvHolds, PTL

\* The lock of the MFA step ends.
THEOREM IamMfaLockEnds == IamSpec => []MfaLockBounded
<1>1. IamInv => MfaLockBounded
    BY DEF IamInv, GoodInv, Says, Good, MfaLockBounded
<1> QED
    BY <1>1, IamInvHolds, PTL

\* No save tears the biometric columns apart (enableBiometric, disableBiometric).
THEOREM IamBiometricCoherent == IamSpec => []BiometricCoherent
<1>1. IamInv => BiometricCoherent
    BY DEF IamInv, GoodInv, Says, Good, BiometricCoherent
<1> QED
    BY <1>1, IamInvHolds, PTL

\* No save moves a temporary token to another account (setMfaTempToken,
\* findByMfaTempToken).
THEOREM IamTokenOfUser == IamSpec => []TokenOfUser
<1>1. ASSUME IamInv, NEW u \in Accounts, users[u].mfaTempToken # Null
      PROVE  /\ users[u].mfaTempToken <= Len(issued)
             /\ issued[users[u].mfaTempToken] = u
    <2>1. users[u].mfaTempToken \in Drawn(u, issued)
        BY <1>1 DEF IamInv, GoodInv, Says, Good
    <2>2. issued \in Seq(Accounts)
        BY <1>1 DEF IamInv, IamTypes, LoginTypeOK
    <2> QED
        BY <2>1, <2>2 DEF Drawn
<1>2. IamInv => TokenOfUser
    BY <1>1 DEF TokenOfUser
<1> QED
    BY <1>2, IamInvHolds, PTL

-----------------------------------------------------------------------------
(* Tokens granted.                                                         *)

\* Only Grant grants, for the token and the user of its slot.
LEMMA GrantedNext ==
    ASSUME IamInv, IamTypes', GrantedToIssued, [IamNext]_iamVars
    PROVE  GrantedToIssued'
<1>1. ASSUME UNCHANGED granted,
             issued' = issued \/ \E u \in Accounts : issued' = Append(issued, u)
      PROVE  GrantedToIssued'
    <2>1. issued \in Seq(Accounts) /\ granted \in Seq(Grants)
        BY DEF IamInv, IamTypes, LoginTypeOK, MfaTypeOK
    <2>2. \A t \in 1 .. Len(issued) : t <= Len(issued') /\ issued'[t] = issued[t]
        <3>1. CASE issued' = issued
            BY ONLY <2>1, <3>1
        <3>2. ASSUME NEW u \in Accounts, issued' = Append(issued, u)
              PROVE  \A t \in 1 .. Len(issued) :
                         t <= Len(issued') /\ issued'[t] = issued[t]
            <4>1. /\ Len(issued') = Len(issued) + 1 /\ Len(issued) \in Nat
                  /\ \A t \in 1 .. Len(issued) : issued'[t] = issued[t]
                BY ONLY <2>1, <3>2, AppendProperties
            <4> QED
                BY ONLY <4>1
        <3> QED
            BY <1>1, <3>1, <3>2
    <2> SUFFICES ASSUME NEW i \in 1 .. Len(granted),
                        NEW t \in {granted[i].presented, granted[i].token} \ {Null}
                 PROVE  t <= Len(issued') /\ issued'[t] = granted[i].user
        BY <1>1 DEF GrantedToIssued
    <2>3. granted[i] \in Grants
        BY <2>1, ElementOfSeq
    <2>4. t \in Nat /\ t # 0
        BY <2>3 DEF Grants, Null
    <2>5. t <= Len(issued) /\ issued[t] = granted[i].user
        BY DEF GrantedToIssued
    <2>6. t \in 1 .. Len(issued)
        BY <2>1, <2>4, <2>5
    <2> QED
        BY <2>2, <2>5, <2>6
<1>2. ASSUME NEW s \in Slots, Grant(s), UNCHANGED loginVars PROVE GrantedToIssued'
    <2> DEFINE t == entity[s].mfaTempToken
    <2> DEFINE g == [token |-> t, presented |-> presented[s], user |-> who[s]]
    <2>1. /\ who[s] \in Accounts /\ pc[s] \in Exchanging
          /\ t \in Nat /\ presented[s] \in Nat
        BY <1>2 DEF Grant, At, Exchanging, IamInv, IamTypes, LoginTypeOK, RequestsTypeOK,
           MfaTypeOK, Row
    <2>2. presented[s] \in {t, Null}
        BY <2>1 DEF IamInv, IamTypes, AskedToken, Holds
    <2>3. t # Null => t \in 1 .. Len(issued) /\ issued[t] = who[s]
        BY <2>1 DEF IamInv, GoodInv, Says, Good, Drawn
    <2>4. granted' = Append(granted, g) /\ issued' = issued
        BY <1>2 DEF Grant
    <2>5. granted \in Seq(Grants) /\ issued \in Seq(Accounts)
        BY DEF IamInv, IamTypes, LoginTypeOK, MfaTypeOK
    <2>6. g \in Grants
        BY <2>1 DEF Grants
    <2>7. /\ Len(granted') = Len(granted) + 1 /\ Len(granted) \in Nat
          /\ \A i \in 1 .. Len(granted) : granted'[i] = granted[i]
          /\ granted'[Len(granted) + 1] = g
        BY ONLY <2>4, <2>5, <2>6, AppendProperties
    <2> SUFFICES ASSUME NEW i \in 1 .. Len(granted'),
                        NEW d \in {granted'[i].presented, granted'[i].token} \ {Null}
                 PROVE  d <= Len(issued) /\ issued[d] = granted'[i].user
        BY <2>4 DEF GrantedToIssued
    <2>8. CASE i \in 1 .. Len(granted)
        BY <2>7, <2>8 DEF GrantedToIssued
    <2>9. CASE i = Len(granted) + 1
        BY <2>2, <2>3, <2>5, <2>7, <2>9
    <2> QED
        BY <2>7, <2>8, <2>9
<1>3. CASE LoginNext /\ UNCHANGED mfaVars
    <2>1. issued' = issued \/ \E u \in Accounts : issued' = Append(issued, u)
        BY <1>3 DEF LoginNext, LoginStep, Receive, UnknownEmail, RejectLocked,
           WrongPassword, RightPassword, LoginSelect, LoginUpdate, AuditFailed, IssueToken,
           AuditPending, CreateSession, AuditSuccess, LoginFail, At, IamInv, IamTypes,
           LoginTypeOK, RequestsTypeOK
    <2> QED
        BY <1>1, <1>3, <2>1
<1>4. CASE MfaNext /\ UNCHANGED loginVars
    <2>1. (\E s \in Slots : Grant(s)) \/ UNCHANGED granted
        BY <1>4 DEF MfaNext, MfaRequest, MfaStep, MfaFail, Setup, VerifySetup, Disable,
           AskBiometric, DisableBiometricStep, Ask, EnableMfaStep, DisableMfaStep,
           EnableBiometricStep, Refuse, Proceed, JudgeTotp, JudgeBackup, JudgeBiometric,
           Judge, Throw, CountWrong, MfaSelect, MfaUpdate, ResetMfa
    <2> QED
        BY <1>1, <1>2, <1>4, <2>1
<1>5. ASSUME NEW u \in Accounts, IamUnlock(u) \/ IamReset(u) PROVE GrantedToIssued'
    BY <1>1, <1>5 DEF IamUnlock, IamReset, Unlock
<1>6. CASE UNCHANGED <<loginVars, mfaVars>>
    BY <1>1, <1>6
<1> QED
    BY <1>3, <1>4, <1>5, <1>6 DEF IamNext

\* Whoever presents a temporary token is granted tokens of the user it was drawn
\* for, whatever other requests write between the row a handler reads and the tokens
\* it grants, and also beside requests that present none (findByMfaTempToken,
\* generateTokens).
THEOREM IamGrantedToIssued == IamSpec => []GrantedToIssued
<1>1. IamInit => GrantedToIssued
    BY DEF IamInit, MfaInit, GrantedToIssued
<1>2. IamInv /\ IamInv' /\ GrantedToIssued /\ [IamNext]_iamVars => GrantedToIssued'
    BY GrantedNext DEF IamInv
<1> QED
    BY <1>1, <1>2, IamInvHolds, PTL DEF IamSpec

-----------------------------------------------------------------------------
(* The audit trail.                                                        *)

\* The handlers of Mfa write no audit row and lead to no place of login.
LEMMA MfaPlaced ==
    ASSUME IamTypes, MfaNext, NEW r \in Slots,
           pc'[r] \in {"auditSuccess", "auditPending"}
    PROVE  pc'[r] = pc[r] /\ who'[r] = who[r]
<1> USE DEF IamTypes, LoginTypeOK, RequestsTypeOK
<1>1. ASSUME NEW s \in Slots, Done(s) \/ Finish(s)
      PROVE  pc'[r] = pc[r] /\ who'[r] = who[r]
    BY <1>1 DEF Done, Finish
<1>2. ASSUME NEW s \in Slots, NEW place, place \notin {"auditSuccess", "auditPending"},
             pc' = [pc EXCEPT ![s] = place],
             who' = who \/ \E u \in Accounts : who' = [who EXCEPT ![s] = u]
      PROVE  pc'[r] = pc[r] /\ who'[r] = who[r]
    BY <1>2
<1>3. PICK s \in Slots : MfaRequest(s) \/ MfaStep(s) \/ MfaFail(s)
    BY DEF MfaNext
<1>4. CASE MfaRequest(s)
    BY <1>1, <1>2, <1>4 DEF MfaRequest, Setup, VerifySetup, Disable, AskBiometric,
       DisableBiometricStep, Ask, Find, GoTo, slotVars
<1>5. CASE MfaStep(s)
    BY <1>1, <1>2, <1>5 DEF MfaStep, EnableMfaStep, DisableMfaStep, EnableBiometricStep,
       Refuse, Proceed, JudgeTotp, JudgeBackup, JudgeBiometric, Judge, Throw, CountWrong,
       MfaSelect, SaveSelect, MfaUpdate, ResetMfa, Grant, GoTo
<1>6. CASE MfaFail(s)
    BY <1>1, <1>6 DEF MfaFail, Fail
<1> QED
    BY <1>3, <1>4, <1>5, <1>6

LEMMA IamTrailNext ==
    ASSUME IamTypes, TrailInv, [IamNext]_iamVars
    PROVE  TrailInv'
<1>0. LoginTypeOK(Places)
    BY DEF IamTypes
<1>1. CASE LoginNext /\ UNCHANGED mfaVars
    BY <1>0, <1>1, TrailNext DEF Service
<1>2. CASE MfaNext /\ UNCHANGED loginVars
    BY <1>0, <1>2, MfaPlaced, TrailKept
<1>3. ASSUME NEW u \in Accounts, IamUnlock(u) \/ IamReset(u) PROVE TrailInv'
    <2>1. UNCHANGED <<issued, sessions, audit, pc, who>>
        BY <1>3 DEF IamUnlock, Unlock, AdminUnlock, IamReset, AdminReset
    <2> QED
        BY <1>0, <2>1, TrailKept
<1>4. CASE UNCHANGED <<pc, who, loginVars>>
    BY <1>0, <1>4, TrailKept
<1> QED
    BY <1>1, <1>2, <1>3, <1>4 DEF IamNext, Tick

\* With the whole service at work the trail still claims no login that has no session,
\* and no pending second factor that had no temporary token: nothing the MFA handlers
\* or the administrator do lets login audit what it has not done (login).
THEOREM IamTrailTrue == IamSpec => []AuditBacked
<1>1. IamInit => IamTypes /\ TrailInv
    BY IamTypeInit, TrailInit DEF IamInit
<1>2. IamTypes /\ TrailInv /\ [IamNext]_iamVars => (IamTypes /\ TrailInv)'
    BY IamTypeNext, IamTrailNext
<1>3. IamTypes /\ TrailInv => AuditBacked
    BY TrailInvBacked DEF IamTypes
<1> QED
    BY <1>1, <1>2, <1>3, PTL DEF IamSpec

=============================================================================
