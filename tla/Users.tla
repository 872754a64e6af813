------------------------------- MODULE Users -------------------------------
(***************************************************************************)
(* One row of the table "users" and what UsersService does to it.          *)
(*                                                                         *)
(* A row is a function of its columns.  Dates are ticks of an absolute     *)
(* clock that starts at 1, so 0 stands for the SQL NULL in every nullable  *)
(* column.  A TOTP secret, a temporary token and a set of encrypted backup *)
(* codes are numbers drawn in order, 0 for NULL: only equality is observed;*)
(* a password hash is a number, 1 for the one a user starts with.          *)
(* The columns no handler changes or no property reads (email, is_active,  *)
(* mfa_last_verified and the two timestamps TypeORM keeps) are left out.   *)
(*                                                                         *)
(* TypeORM has two ways to write a row:                                    *)
(*   update(id, cols)  one UPDATE of exactly these columns        (Assign) *)
(*   save(entity)      a SELECT, the columns in which the entity differs   *)
(*                     from what it returned (Changed), then one UPDATE of *)
(*                     those columns with the entity's values     (Merge)  *)
(***************************************************************************)
EXTENDS Naturals

CONSTANTS
    LockThreshold,      \* failed passwords that lock an account (5 in the code)
    MfaThreshold,       \* failed second factors that lock the MFA step (3)
    LockTicks           \* length of either lock (15 minutes)

ASSUME ThresholdAssumption ==
    /\ LockThreshold \in Nat \ {0}
    /\ MfaThreshold \in Nat \ {0}
    /\ LockTicks \in Nat \ {0}

Null == 0

Columns == {"passwordHash", "failedAttempts", "lockedUntil",
            "mfaEnabled", "mfaSecret", "mfaBackupCodes",
            "mfaTempToken", "mfaTempTokenExpires",
            "mfaFailedAttempts", "mfaLockedUntil",
            "biometricEnabled", "deviceBiometricId", "preferredMfaMethod"}

Row == [passwordHash        : Nat,
        failedAttempts      : Nat,
        lockedUntil         : Nat,
        mfaEnabled          : BOOLEAN,
        mfaSecret           : Nat,
        mfaBackupCodes      : Nat,
        mfaTempToken        : Nat,
        mfaTempTokenExpires : Nat,
        mfaFailedAttempts   : Nat,
        mfaLockedUntil      : Nat,
        biometricEnabled    : BOOLEAN,
        deviceBiometricId   : Nat,
        preferredMfaMethod  : {"totp", "biometric"}]

\* The row `create` inserts: every column at its default.
NewRow == [passwordHash        |-> 1,
           failedAttempts      |-> 0,
           lockedUntil         |-> Null,
           mfaEnabled          |-> FALSE,
           mfaSecret           |-> Null,
           mfaBackupCodes      |-> Null,
           mfaTempToken        |-> Null,
           mfaTempTokenExpires |-> Null,
           mfaFailedAttempts   |-> 0,
           mfaLockedUntil      |-> Null,
           biometricEnabled    |-> FALSE,
           deviceBiometricId   |-> Null,
           preferredMfaMethod  |-> "totp"]

-----------------------------------------------------------------------------
(* The two writes of TypeORM.                                              *)

Assign(row, cols) ==
    [c \in Columns |-> IF c \in DOMAIN cols THEN cols[c] ELSE row[c]]

Changed(ent, row) == {c \in Columns : ent[c] # row[c]}

Merge(row, ent, cols) ==
    [c \in Columns |-> IF c \in cols THEN ent[c] ELSE row[c]]

-----------------------------------------------------------------------------
(* The password side.  IncrementFailed and ResetFailed change the entity   *)
(* in memory, before the save.                                             *)

\* Faulty: locks one failure early.
IncrementFailedEarly(ent, time) ==
    LET n == ent.failedAttempts + 1
    IN  Assign(ent, [failedAttempts |-> n,
                     lockedUntil |-> IF n + 1 >= LockThreshold
                                     THEN time + LockTicks
                                     ELSE ent.lockedUntil])

\* Faulty: locks one failure late.
IncrementFailedLate(ent, time) ==
    LET n == ent.failedAttempts + 1
    IN  Assign(ent, [failedAttempts |-> n,
                     lockedUntil |-> IF n > LockThreshold
                                     THEN time + LockTicks
                                     ELSE ent.lockedUntil])

\* Faulty: the lock grows with every failure.
IncrementFailedLonger(ent, time) ==
    LET n == ent.failedAttempts + 1
    IN  Assign(ent, [failedAttempts |-> n,
                     lockedUntil |-> IF n >= LockThreshold
                                     THEN time + n * LockTicks
                                     ELSE ent.lockedUntil])

IncrementFailed(ent, time) ==
    LET n == ent.failedAttempts + 1
    IN  Assign(ent, [failedAttempts |-> n,
                     lockedUntil |-> IF n >= LockThreshold
                                     THEN time + LockTicks
                                     ELSE ent.lockedUntil])

ResetFailed(ent) == Assign(ent, [failedAttempts |-> 0, lockedUntil |-> Null])

Locked(row, time) == row.lockedUntil > time

\* Faulty: a token that is there is left there.
SetTempTokenOnce(row, token, expires) ==
    IF row.mfaTempToken # Null THEN row
    ELSE Assign(row, [mfaTempToken |-> token, mfaTempTokenExpires |-> expires])

SetTempToken(row, token, expires) ==
    Assign(row, [mfaTempToken |-> token, mfaTempTokenExpires |-> expires])

-----------------------------------------------------------------------------
(* The administrator's two writes.                                         *)

UnlockUser(row) ==
    Assign(row, [failedAttempts |-> 0, lockedUntil |-> Null,
                 mfaFailedAttempts |-> 0, mfaLockedUntil |-> Null])

ResetUser(row) ==
    Assign(row, [failedAttempts |-> 0, lockedUntil |-> Null,
                 mfaEnabled |-> FALSE, mfaSecret |-> Null,
                 mfaBackupCodes |-> Null,
                 mfaTempToken |-> Null, mfaTempTokenExpires |-> Null,
                 mfaFailedAttempts |-> 0, mfaLockedUntil |-> Null])

\* The one UPDATE the reset script begins with, of every column but the hash.
ClearUser(row) == [NewRow EXCEPT !.passwordHash = row.passwordHash]

-----------------------------------------------------------------------------
(* The MFA side.                                                           *)

SetMfaSecret(row, secret) == Assign(row, [mfaSecret |-> secret])

EnableMfa(row, codes) ==
    Assign(row, [mfaEnabled |-> TRUE, mfaBackupCodes |-> codes])

DisableMfa(row) ==
    Assign(row, [mfaEnabled |-> FALSE, mfaSecret |-> Null,
                 mfaBackupCodes |-> Null,
                 mfaTempToken |-> Null, mfaTempTokenExpires |-> Null,
                 mfaFailedAttempts |-> 0, mfaLockedUntil |-> Null])

\* Faulty: the token stays redeemable.
ClearMfaTempTokenNot(row) == Assign(row, [mfaFailedAttempts |-> 0])

ClearMfaTempToken(row) ==
    Assign(row, [mfaTempToken |-> Null, mfaTempTokenExpires |-> Null])

\* Faulty: locks the account instead of its MFA step.
IncrementMfaFailedWrongColumn(ent, time) ==
    LET n == ent.mfaFailedAttempts + 1
    IN  Assign(ent, [mfaFailedAttempts |-> n,
                     lockedUntil |-> IF n >= MfaThreshold
                                     THEN time + LockTicks
                                     ELSE ent.lockedUntil])

\* Faulty: locks one failure early.
IncrementMfaFailedEarly(ent, time) ==
    LET n == ent.mfaFailedAttempts + 1
    IN  Assign(ent, [mfaFailedAttempts |-> n,
                     mfaLockedUntil |-> IF n + 1 >= MfaThreshold
                                        THEN time + LockTicks
                                        ELSE ent.mfaLockedUntil])

\* Faulty: locks one failure late.
IncrementMfaFailedLate(ent, time) ==
    LET n == ent.mfaFailedAttempts + 1
    IN  Assign(ent, [mfaFailedAttempts |-> n,
                     mfaLockedUntil |-> IF n > MfaThreshold
                                        THEN time + LockTicks
                                        ELSE ent.mfaLockedUntil])

\* Faulty: the lock grows with every failure.
IncrementMfaFailedLonger(ent, time) ==
    LET n == ent.mfaFailedAttempts + 1
    IN  Assign(ent, [mfaFailedAttempts |-> n,
                     mfaLockedUntil |-> IF n >= MfaThreshold
                                        THEN time + n * LockTicks
                                        ELSE ent.mfaLockedUntil])

\* Changes the entity in memory, before the save.
IncrementMfaFailed(ent, time) ==
    LET n == ent.mfaFailedAttempts + 1
    IN  Assign(ent, [mfaFailedAttempts |-> n,
                     mfaLockedUntil |-> IF n >= MfaThreshold
                                        THEN time + LockTicks
                                        ELSE ent.mfaLockedUntil])

ResetMfaFailed(row) ==
    Assign(row, [mfaFailedAttempts |-> 0, mfaLockedUntil |-> Null])

IsMfaLocked(row, time) == row.mfaLockedUntil > time

EnableBiometric(row, device) ==
    Assign(row, [biometricEnabled |-> TRUE, deviceBiometricId |-> device,
                 preferredMfaMethod |-> "biometric"])

\* Faulty: forgets the preferred method.
DisableBiometricStillPreferred(row) ==
    Assign(row, [biometricEnabled |-> FALSE, deviceBiometricId |-> Null])

DisableBiometric(row) ==
    Assign(row, [biometricEnabled |-> FALSE, deviceBiometricId |-> Null,
                 preferredMfaMethod |-> "totp"])

ValidateBiometric(row, device) ==
    row.biometricEnabled /\ row.deviceBiometricId = device

=============================================================================
