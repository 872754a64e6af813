-------------------------------- MODULE Mfa --------------------------------
(***************************************************************************)
(* MfaController: setting the second factor up, taking it down, and        *)
(* exchanging a temporary token for tokens by one of three second factors. *)
(*                                                                         *)
(*   idle -> enableMfa -> idle             verify-setup                    *)
(*   idle -> disableMfa -> idle            disable                         *)
(*   idle -> enableBiometric -> idle       enable-biometric                *)
(*   idle -> asked -> unlocked -> right -> clearToken -> idle              *)
(*                             -> wrong -> mfaSelect -> mfaUpdate -> idle  *)
(*                                         verify, verify-backup,          *)
(*                                         verify-biometric                *)
(*                                                                         *)
(* setup and disable-biometric write once and are one step each.  A        *)
(* handler that answers without a write (wrong code, unknown token, MFA    *)
(* not enabled) changes nothing and has no step.  A TOTP code or a         *)
(* password is right or wrong; whether it is, is the client's choice.      *)
(***************************************************************************)
EXTENDS Requests, Sequences

CONSTANTS
    Devices,            \* device_biometric_id values a client may send,
                        \* Null for one that sends a null; when there is
                        \* none, no client has biometrics
    Tokens,             \* temporary tokens a client may send, Null for a
                        \* request without one
    MaxSecrets,         \* bound: TOTP secrets drawn for each user
    MaxAsks             \* bound: exchanges of a temporary token ever asked for

ASSUME MfaAssumption ==
    /\ Devices \subseteq Nat
    /\ Tokens \subseteq Nat
    /\ MaxSecrets \in Nat
    /\ MaxAsks \in Nat

VARIABLES
    method,             \* the second factor a request presents
    presented,          \* the temporary token it presents
    secrets,            \* secrets drawn so far, by user
    asks,               \* exchanges asked for                          (ghost)
    mfaWrongs,          \* wrong second factors presented, by user, since the
                        \* last unlock that met nobody at work          (ghost)
    mfaStreak,          \* those saved since the last reset, by user    (ghost)
    granted             \* every exchange that granted tokens, in order (ghost)

mfaGhosts == <<asks, mfaWrongs, mfaStreak, granted>>
askVars == <<method, presented>>
mfaVars == <<askVars, secrets, mfaGhosts>>

Methods == {"totp", "backup"} \cup {m \in {"biometric"} : Devices # {}}

MfaPlaces == {"enableMfa", "disableMfa", "enableBiometric", "asked", "unlocked",
              "right", "wrong", "mfaSelect", "mfaUpdate", "clearToken"}

\* What an exchange leaves behind: the token in the row it found, the one that was
\* presented, and the user it was for.
Grants == [token : Nat, presented : Nat, user : Accounts]

MfaInit ==
    /\ method = [s \in Slots |-> "totp"]
    /\ presented = [s \in Slots |-> Null]
    /\ secrets = [u \in Accounts |-> users[u].mfaSecret]
    /\ asks = 0
    /\ mfaWrongs = [u \in Accounts |-> 0]
    /\ mfaStreak = [u \in Accounts |-> 0]
    /\ granted = <<>>

MfaTypeOK ==
    /\ method \in [Slots -> Methods]
    /\ presented \in [Slots -> Nat]
    /\ secrets \in [Accounts -> Nat]
    /\ asks \in Nat
    /\ mfaWrongs \in [Accounts -> Nat]
    /\ mfaStreak \in [Accounts -> Nat]
    /\ granted \in Seq(Grants)

-----------------------------------------------------------------------------
Forget(s) ==
    /\ method' = [method EXCEPT ![s] = "totp"]
    /\ presented' = [presented EXCEPT ![s] = Null]

\* The handler returns or throws.
Done(s) == Finish(s) /\ Forget(s)

-----------------------------------------------------------------------------
(* Setting up and taking down.                                             *)

\* setup: a new secret over the old one, whether MFA is enabled or not.
Setup(s, u) ==
    /\ At(s, "idle")
    /\ secrets[u] < MaxSecrets
    /\ secrets' = [secrets EXCEPT ![u] = @ + 1]
    /\ users' = [users EXCEPT ![u] = SetMfaSecret(@, secrets[u] + 1)]
    /\ UNCHANGED <<now, slotVars, askVars, mfaGhosts>>

\* Faulty: enables MFA before setup was ever called.
VerifySetupUnset(s, u) ==
    /\ At(s, "idle")
    /\ Find(s, u, "enableMfa")
    /\ UNCHANGED <<now, users, dirty, ok, mfaVars>>

\* verify-setup with the right code: only the secret that was read is checked.
VerifySetup(s, u) ==
    /\ At(s, "idle")
    /\ users[u].mfaSecret # Null
    /\ Find(s, u, "enableMfa")
    /\ UNCHANGED <<now, users, dirty, ok, mfaVars>>

\* One set of backup codes is not told from another.
EnableMfaStep(s) ==
    /\ At(s, "enableMfa")
    /\ UpdateRow(s, EnableMfa(users[who[s]], 1))
    /\ Done(s)
    /\ UNCHANGED <<now, secrets, mfaGhosts>>

\* disable with the right password and the right code.
Disable(s, u) ==
    /\ At(s, "idle")
    /\ users[u].mfaSecret # Null
    /\ Find(s, u, "disableMfa")
    /\ UNCHANGED <<now, users, dirty, ok, mfaVars>>

DisableMfaStep(s) ==
    /\ At(s, "disableMfa")
    /\ UpdateRow(s, DisableMfa(users[who[s]]))
    /\ mfaStreak' = [mfaStreak EXCEPT ![who[s]] = 0]
    /\ Done(s)
    /\ UNCHANGED <<now, secrets, asks, mfaWrongs, granted>>

AskBiometric(s, u) ==
    /\ At(s, "idle")
    /\ Devices # {}
    /\ users[u].mfaEnabled
    /\ Find(s, u, "enableBiometric")
    /\ UNCHANGED <<now, users, dirty, ok, mfaVars>>

EnableBiometricStep(s, device) ==
    /\ At(s, "enableBiometric")
    /\ UpdateRow(s, EnableBiometric(users[who[s]], device))
    /\ Done(s)
    /\ UNCHANGED <<now, secrets, mfaGhosts>>

DisableBiometricStep(s, u) ==
    /\ At(s, "idle")
    /\ users' = [users EXCEPT ![u] = DisableBiometric(@)]
    /\ UNCHANGED <<now, slotVars, mfaVars>>

-----------------------------------------------------------------------------
(* Exchanging a temporary token.                                           *)

\* findByMfaTempToken.  TypeORM leaves a condition without a value out, so a
\* request without a token (the DTO's decorators are not enforced) matches every
\* row, and the first is whichever the database returns.
Matches(u, token) == token = Null \/ users[u].mfaTempToken = token

\* A row is found.
Ask(s, token, m) ==
    /\ At(s, "idle")
    /\ asks < MaxAsks
    /\ asks' = asks + 1
    /\ \E u \in Accounts : Matches(u, token) /\ Find(s, u, "asked")
    /\ method' = [method EXCEPT ![s] = m]
    /\ presented' = [presented EXCEPT ![s] = token]
    /\ UNCHANGED <<now, users, dirty, ok, secrets, mfaWrongs, mfaStreak, granted>>

\* The expiry is that of the entity read, and a null is before any date; the MFA
\* lock is read again.
Expired(s) == entity[s].mfaTempTokenExpires < now

Refuse(s) ==
    /\ At(s, "asked")
    /\ Expired(s) \/ IsMfaLocked(users[who[s]], now)
    /\ Done(s)
    /\ UNCHANGED <<now, users, secrets, mfaGhosts>>

Proceed(s) ==
    /\ At(s, "asked")
    /\ ~ Expired(s)
    /\ ~ IsMfaLocked(users[who[s]], now)
    /\ GoTo(s, "unlocked")
    /\ UNCHANGED <<now, users, who, entity, dirty, ok, mfaVars>>

Judge(s, valid) ==
    /\ GoTo(s, IF valid THEN "right" ELSE "wrong")
    /\ UNCHANGED <<now, users, who, entity, dirty, ok, mfaVars>>

\* The secret is the one read with the token.
JudgeTotp(s) ==
    /\ At(s, "unlocked")
    /\ method[s] = "totp"
    /\ entity[s].mfaSecret # Null
    /\ \E valid \in BOOLEAN : Judge(s, valid)

\* The device is compared with the row as it is now.
JudgeBiometric(s, device) ==
    /\ At(s, "unlocked")
    /\ method[s] = "biometric"
    /\ Judge(s, ValidateBiometric(users[who[s]], device))

\* Faulty: what JSON.parse throws is not caught, and nobody answers.
JudgeBackupUncaught(s) == At(s, "unlocked") /\ FALSE

\* validateBackupCode is handed the column as it is stored, which is the
\* encrypted text: JSON.parse rejects it, parseBackupCodes answers with no
\* codes, and no code is among them.
JudgeBackup(s) ==
    /\ At(s, "unlocked")
    /\ method[s] = "backup"
    /\ entity[s].mfaBackupCodes # Null
    /\ Judge(s, FALSE)

\* Faulty: the exception is swallowed and the request never answered.
ThrowSwallowed(s) == At(s, "unlocked") /\ FALSE

\* Decrypting a secret that is not there throws, and so does looking for a code
\* in the null that JSON.parse makes of a null.
Throw(s) ==
    /\ At(s, "unlocked")
    /\ \/ method[s] = "totp" /\ entity[s].mfaSecret = Null
       \/ method[s] = "backup" /\ entity[s].mfaBackupCodes = Null
    /\ Done(s)
    /\ UNCHANGED <<now, users, secrets, mfaGhosts>>

\* incrementMfaFailedAttempts reads the row again and changes that copy.
CountWrong(s) ==
    /\ At(s, "wrong")
    /\ entity' = [entity EXCEPT ![s] = IncrementMfaFailed(users[who[s]], now)]
    /\ mfaWrongs' = [mfaWrongs EXCEPT ![who[s]] = @ + 1]
    /\ GoTo(s, "mfaSelect")
    /\ UNCHANGED <<now, users, who, dirty, ok, askVars, secrets, asks,
                   mfaStreak, granted>>

MfaSelect(s) == SaveSelect(s, "mfaSelect", "mfaUpdate") /\ UNCHANGED mfaVars

MfaUpdate(s) ==
    /\ At(s, "mfaUpdate")
    /\ SaveUpdate(s)
    /\ mfaStreak' = [mfaStreak EXCEPT ![who[s]] = @ + 1]
    /\ Done(s)
    /\ UNCHANGED <<now, secrets, asks, mfaWrongs, granted>>

ResetMfa(s) ==
    /\ At(s, "right")
    /\ UpdateRow(s, ResetMfaFailed(users[who[s]]))
    /\ mfaStreak' = [mfaStreak EXCEPT ![who[s]] = 0]
    /\ GoTo(s, "clearToken")
    /\ UNCHANGED <<now, who, entity, dirty, ok, askVars, secrets, asks,
                   mfaWrongs, granted>>

\* clearMfaTempToken, then generateTokens, which awaits nothing.
Grant(s) ==
    /\ At(s, "clearToken")
    /\ UpdateRow(s, ClearMfaTempToken(users[who[s]]))
    /\ granted' = Append(granted, [token     |-> entity[s].mfaTempToken,
                                   presented |-> presented[s],
                                   user      |-> who[s]])
    /\ Done(s)
    /\ UNCHANGED <<now, secrets, asks, mfaWrongs, mfaStreak>>

MfaFail(s) ==
    /\ pc[s] \in MfaPlaces
    /\ Fail(s)
    /\ Forget(s)
    /\ UNCHANGED <<secrets, mfaGhosts>>

MfaStep(s) ==
    \/ EnableMfaStep(s) \/ DisableMfaStep(s)
    \/ \E d \in Devices : EnableBiometricStep(s, d)
    \/ Refuse(s) \/ Proceed(s)
    \/ JudgeTotp(s) \/ JudgeBackup(s) \/ Throw(s)
    \/ \E d \in Devices : JudgeBiometric(s, d)
    \/ CountWrong(s) \/ MfaSelect(s) \/ MfaUpdate(s)
    \/ ResetMfa(s) \/ Grant(s)

MfaRequest(s) ==
    \/ \E u \in Accounts :
           \/ Setup(s, u) \/ VerifySetup(s, u) \/ Disable(s, u)
           \/ AskBiometric(s, u) \/ DisableBiometricStep(s, u)
    \/ \E t \in Tokens, m \in Methods : Ask(s, t, m)

MfaNext == \E s \in Slots : MfaRequest(s) \/ MfaStep(s) \/ MfaFail(s)

-----------------------------------------------------------------------------
MfaBackedRow(u, row) ==
    /\ row.mfaFailedAttempts <= mfaWrongs[u]
    /\ row.mfaLockedUntil # Null => mfaWrongs[u] >= MfaThreshold

\* The MFA lock never invents failures either, although its counter is also
\* written back by the whole-entity saves of login: no row counts more wrong
\* second factors than were presented, and the MFA step of an account is locked
\* only after MfaThreshold of them (incrementMfaFailedAttempts), counted from the
\* last unlock or reset-user that met no request for the user in progress.
MfaLockBacked == \A u \in Accounts : MfaBackedRow(u, users[u])

\* The lock of the MFA step ends as well: no save, of login or of the MFA counter,
\* locks it for longer than one lock length from the moment it is written.
MfaLockBounded == \A u \in Accounts : users[u].mfaLockedUntil <= now + LockTicks

CoherentRow(row) == row.biometricEnabled <=> row.preferredMfaMethod = "biometric"

\* The biometric columns are written by two handlers and written back, some or
\* none of them, by every stale save; still the preferred method is biometric
\* exactly when biometrics are enabled.  The two agree in every entity as well,
\* so a save finds both changed or neither.
BiometricCoherent == \A u \in Accounts : CoherentRow(users[u])

\* The threshold of wrong second factors locks the MFA step.  One request at a
\* time only, as for the password.
MfaLockAfterThreshold ==
    \A u \in Accounts :
        mfaStreak[u] >= MfaThreshold => users[u].mfaLockedUntil # Null

\* An enabled second factor has a secret to check codes with.  One request at
\* a time only: a verify-setup that read the secret before a disable enables
\* MFA after it, and the user can no longer pass it.
EnabledHasSecret ==
    \A u \in Accounts : users[u].mfaEnabled => users[u].mfaSecret # Null

\* A temporary token buys tokens once, whether the request presented it or found
\* it in the row.  One request at a time only: two requests that both read the
\* token both pass, and a login's stale save puts a spent token back.
TokenSpentOnce ==
    \A i, j \in 1 .. Len(granted) : granted[i].token = granted[j].token => i = j

\* enable-biometric insists that MFA is enabled first (mfa.controller.ts:229);
\* disable and reset-user take MFA away and leave biometrics on.
BiometricNeedsMfa ==
    \A u \in Accounts : users[u].biometricEnabled => users[u].mfaEnabled

=============================================================================
