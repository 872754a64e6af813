---------------------------- MODULE UsersProofs ----------------------------
(***************************************************************************)
(* What the writes of Users make of a row: a row again, and columns taken  *)
(* from the rows they were given.                                          *)
(***************************************************************************)
EXTENDS Users, TLAPS

-----------------------------------------------------------------------------
(* Rows.                                                                   *)

\* Every way UsersService builds a row from rows builds a row.
LEMMA NewRowType == NewRow \in Row
BY DEF NewRow, Row, Null

LEMMA MfaRowType ==
    Assign(NewRow, [mfaEnabled |-> TRUE, mfaSecret |-> 1, mfaBackupCodes |-> 1])
        \in Row
BY DEF Assign, NewRow, Row, Columns, Null

LEMMA MergeType ==
    ASSUME NEW row \in Row, NEW ent \in Row, NEW cols \in SUBSET Columns
    PROVE  Merge(row, ent, cols) \in Row
BY DEF Merge, Row, Columns

LEMMA IncrementType ==
    ASSUME NEW ent \in Row, NEW time \in Nat
    PROVE  IncrementFailed(ent, time) \in Row
BY ThresholdAssumption DEF IncrementFailed, Assign, Row, Columns

LEMMA ResetType ==
    ASSUME NEW ent \in Row
    PROVE  ResetFailed(ent) \in Row
BY DEF ResetFailed, Assign, Row, Columns, Null

LEMMA SetTempTokenType ==
    ASSUME NEW row \in Row, NEW token \in Nat, NEW expires \in Nat
    PROVE  SetTempToken(row, token, expires) \in Row
BY DEF SetTempToken, Assign, Row, Columns

LEMMA UnlockType ==
    ASSUME NEW row \in Row
    PROVE  UnlockUser(row) \in Row
BY DEF UnlockUser, Assign, Row, Columns, Null

LEMMA ClearUserType ==
    ASSUME NEW row \in Row
    PROVE  ClearUser(row) \in Row
BY DEF ClearUser, NewRow, Row, Null

LEMMA RehashType ==
    ASSUME NEW row \in Row, NEW hash \in Nat
    PROVE  [row EXCEPT !.passwordHash = hash] \in Row
BY DEF Row

\* What a merged row counts is what one of the two rows counted: a stale save
\* mixes the columns of two rows and invents no value.
LEMMA MergeColumns ==
    ASSUME NEW row, NEW ent, NEW cols
    PROVE  /\ Merge(row, ent, cols).failedAttempts
                  \in {row.failedAttempts, ent.failedAttempts}
           /\ Merge(row, ent, cols).lockedUntil
                  \in {row.lockedUntil, ent.lockedUntil}
BY DEF Merge, Columns

LEMMA IncrementColumns ==
    ASSUME NEW ent \in Row, NEW time \in Nat
    PROVE  /\ IncrementFailed(ent, time).failedAttempts = ent.failedAttempts + 1
           /\ IncrementFailed(ent, time).lockedUntil =
                  IF ent.failedAttempts + 1 >= LockThreshold
                  THEN time + LockTicks ELSE ent.lockedUntil
BY DEF IncrementFailed, Assign, Columns

LEMMA ResetColumns ==
    ASSUME NEW row
    PROVE  /\ ResetFailed(row).failedAttempts = 0
           /\ ResetFailed(row).lockedUntil = Null
           /\ UnlockUser(row).failedAttempts = 0
           /\ UnlockUser(row).lockedUntil = Null
BY DEF ResetFailed, UnlockUser, Assign, Columns

LEMMA SetTempTokenColumns ==
    ASSUME NEW row, NEW token, NEW expires
    PROVE  /\ SetTempToken(row, token, expires).failedAttempts
                  = row.failedAttempts
           /\ SetTempToken(row, token, expires).lockedUntil = row.lockedUntil
BY DEF SetTempToken, Assign, Columns

\* No write of the service makes a password hash of its own.
LEMMA HashColumn ==
    /\ \A row, time : IncrementFailed(row, time).passwordHash = row.passwordHash
    /\ \A row : ResetFailed(row).passwordHash = row.passwordHash
    /\ \A row, token, expires :
           SetTempToken(row, token, expires).passwordHash = row.passwordHash
    /\ \A row : UnlockUser(row).passwordHash = row.passwordHash
    /\ \A row : ClearUser(row).passwordHash = row.passwordHash
    /\ \A row, ent, cols : Merge(row, ent, cols).passwordHash
                               \in {row.passwordHash, ent.passwordHash}
BY DEF Merge, IncrementFailed, ResetFailed, SetTempToken, UnlockUser, ClearUser,
       NewRow, Assign, Columns

LEMMA ClearUserColumns ==
    ASSUME NEW row
    PROVE  ClearUser(row).failedAttempts = 0 /\ ClearUser(row).lockedUntil = Null
BY DEF ClearUser, NewRow

=============================================================================
