--------------------------- MODULE SessionsProofs ---------------------------
(***************************************************************************)
(* Theorems about Sessions for every set of users, every number of         *)
(* concurrent calls, and every bound.                                      *)
(***************************************************************************)
EXTENDS Sessions, TLAPS

USE DEF sessionVars, callVars

-----------------------------------------------------------------------------
(* What the proofs need to know of a call under way.                       *)

\* A session whose token a call carries is among those the call selected, if
\* it is live at all: a token is known to clients only once its row exists.
SeenComplete(c) ==
    step[c] # "idle" =>
        \A i \in Ids : Live(i) /\ rows[i].user = owner[c] /\ Stored(i) = token[c]
                       => i \in seen[c]

\* The sessions a call selected are its user's.
SeenOwned(c) == \A i \in seen[c] : rows[i].user = owner[c]

\* None of them had been closed when the call began.
SeenFresh(c) == closedAtStart[c] \cap seen[c] = {}

\* A save that found the row revoked or gone still finds it dead.
LoadedTrue(c) ==
    step[c] = "save" /\ loaded[c] # "live" => \A i \in Matching(c) : ~ Live(i)

CallInv(c) == SeenComplete(c) /\ SeenOwned(c) /\ SeenFresh(c) /\ LoadedTrue(c)

\* A session nobody closed lives until it expires.
OpenLive == \A i \in Ids : rows[i].expires > now /\ i \notin closed => Live(i)

SessionsInv ==
    /\ SessionsTypeOK
    /\ ClosedNotLive
    /\ OpenLive
    /\ RevocationFinal
    /\ \A c \in Calls : CallInv(c)

-----------------------------------------------------------------------------
(* Tokens and rows.                                                        *)

\* Two sessions never share a token (generateToken).
LEMMA StoredInjective ==
    ASSUME NEW i, NEW j, Stored(i) = Stored(j)
    PROVE  i = j
BY DEF Stored

\* A token a client sends before a session exists is not that session's.
LEMMA NewTokenUnsent ==
    ASSUME SessionsTypeOK, NEW c \in Calls, Len(rows) < MaxSessions
    PROVE  token[c] # Stored(Len(rows) + 1)
<1>1. Len(rows) \in Nat
    BY DEF SessionsTypeOK
<1>2. token[c] \in Foreign \cup {Stored(i) : i \in Ids} \cup {NoToken}
    BY DEF SessionsTypeOK, SentTokens
<1>3. Stored(Len(rows) + 1) \notin Foreign
    BY <1>1, SessionsAssumption DEF Stored
<1>4. ASSUME NEW i \in Ids, token[c] = Stored(i) PROVE token[c] # Stored(Len(rows) + 1)
    BY <1>1, <1>4, StoredInjective DEF Ids
<1>5. CASE token[c] = NoToken
    BY <1>1, <1>5, StoredInjective DEF NoToken
<1> QED
    BY <1>2, <1>3, <1>4, <1>5

\* Rows of which only the state changes.
Restated ==
    /\ Len(rows') = Len(rows)
    /\ rows' \in Seq(SessionRow)
    /\ \A i \in Ids : /\ rows'[i].user = rows[i].user
                      /\ rows'[i].expires = rows[i].expires
    /\ \A i \in Ids : ~ Live(i) => ~ Live(i)'

LEMMA SavedStateType ==
    ASSUME NEW current \in {"live", "revoked", "gone"},
           NEW found \in {"live", "revoked", "gone"}
    PROVE  /\ SavedState(current, found) \in {"live", "revoked", "gone"}
           /\ current # "live" => SavedState(current, found) # "live"
           /\ found = "live" \/ found = "gone" \/ current # "live"
              => SavedState(current, found) # "live"
BY DEF SavedState

LEMMA RestatedBySave ==
    ASSUME SessionsTypeOK, NEW c \in Calls, NEW i \in Ids,
           rows' = [rows EXCEPT ![i] = InState(@, SavedState(@.state, loaded[c]))]
    PROVE  Restated
<1>1. rows[i] \in SessionRow /\ loaded[c] \in {"live", "revoked", "gone"}
    BY DEF SessionsTypeOK, Ids
<1>2. SavedState(rows[i].state, loaded[c]) \in {"live", "revoked", "gone"}
    BY <1>1, SavedStateType DEF SessionRow
<1>3. InState(rows[i], SavedState(rows[i].state, loaded[c])) \in SessionRow
    BY <1>1, <1>2 DEF SessionRow, InState
<1>4. rows' \in Seq(SessionRow) /\ Len(rows') = Len(rows)
    BY <1>3 DEF SessionsTypeOK, Ids
<1>5. \A j \in Ids : j # i => rows'[j] = rows[j]
    BY DEF SessionsTypeOK, Ids
<1>6. rows'[i] = InState(rows[i], SavedState(rows[i].state, loaded[c]))
    BY DEF SessionsTypeOK, Ids
<1>7. rows[i].state # "live" => SavedState(rows[i].state, loaded[c]) # "live"
    BY <1>1, SavedStateType DEF SessionRow
<1> QED
    BY <1>1, <1>4, <1>5, <1>6, <1>7 DEF Restated, Live, SessionRow, InState, Ids

\* A bulk operation gives a state other than live to some of the rows.
LEMMA RestatedByBulk ==
    ASSUME SessionsTypeOK, NEW S, NEW state \in {"revoked", "gone"},
           rows' = [i \in Ids |-> IF i \in S THEN InState(rows[i], state)
                                  ELSE rows[i]]
    PROVE  Restated
<1>1. \A i \in Ids : rows[i] \in SessionRow
    BY DEF SessionsTypeOK, Ids
<1>2. \A i \in Ids : InState(rows[i], state) \in SessionRow
    BY <1>1 DEF SessionRow, InState
<1>3. Len(rows) \in Nat
    BY DEF SessionsTypeOK
<1>4. rows' \in [1 .. Len(rows) -> SessionRow]
    BY <1>1, <1>2 DEF Ids
<1>5. rows' \in Seq(SessionRow) /\ Len(rows') = Len(rows)
    BY <1>3, <1>4
<1>6. \A i \in Ids : rows'[i] = IF i \in S THEN InState(rows[i], state)
                                ELSE rows[i]
    OBVIOUS
<1> QED
    BY <1>1, <1>5, <1>6 DEF Restated, Live, SessionRow, InState, Ids

\* Most steps leave the rows as they are.
LEMMA RestatedSame ==
    ASSUME SessionsTypeOK, rows' = rows
    PROVE  Restated
BY DEF SessionsTypeOK, Restated, Live

-----------------------------------------------------------------------------
(* What a step leaves of the calls.                                        *)

LEMMA KeptCall ==
    ASSUME SessionsTypeOK, Restated, NEW d \in Calls, CallInv(d),
           step'[d] = step[d], token'[d] = token[d], owner'[d] = owner[d],
           seen'[d] = seen[d], loaded'[d] = loaded[d],
           closedAtStart'[d] = closedAtStart[d]
    PROVE  CallInv(d)'
<1>1. Ids' = Ids /\ seen[d] \subseteq Ids
    BY DEF Restated, Ids, SessionsTypeOK
<1>2. SeenComplete(d)'
    BY <1>1 DEF CallInv, SeenComplete, Restated, Stored
<1>3. SeenOwned(d)'
    BY <1>1 DEF CallInv, SeenOwned, Restated
<1>4. SeenFresh(d)'
    BY DEF CallInv, SeenFresh
<1>5. Matching(d)' = Matching(d) /\ Matching(d) \subseteq Ids
    BY <1>1 DEF Matching, Stored
<1>6. LoadedTrue(d)'
    BY <1>5 DEF CallInv, LoadedTrue, Restated
<1> QED
    BY <1>2, <1>3, <1>4, <1>6 DEF CallInv

LEMMA ReturnedCalls ==
    ASSUME SessionsTypeOK, Restated, \A d \in Calls : CallInv(d),
           NEW c \in Calls, Return(c)
    PROVE  \A d \in Calls : CallInv(d)'
<1> SUFFICES ASSUME NEW d \in Calls PROVE CallInv(d)'
    OBVIOUS
<1>1. CASE d = c
    BY <1>1 DEF SessionsTypeOK, Return, CallInv, SeenComplete, SeenOwned, SeenFresh,
       LoadedTrue
<1>2. CASE d # c
    BY <1>2, KeptCall DEF SessionsTypeOK, Return
<1> QED
    BY <1>1, <1>2

\* The types of everything, when a call returns.
LEMMA ReturnedType ==
    ASSUME SessionsTypeOK, Restated, NEW c \in Calls, Return(c), now' \in Nat,
           closed' \subseteq Ids
    PROVE  SessionsTypeOK'
<1>1. Ids' = Ids
    BY DEF Restated, Ids
<1>2. SentTokens' = SentTokens
    BY <1>1 DEF SentTokens, Stored
<1>3. \A d \in Calls : step'[d] = "save" => Matching(d)' # {}
    BY DEF SessionsTypeOK, Return, Matching, Stored
<1> QED
    BY <1>1, <1>2, <1>3 DEF SessionsTypeOK, Restated, Return, NoToken, Stored

LEMMA UnchangedCalls ==
    ASSUME SessionsTypeOK, Restated, \A d \in Calls : CallInv(d), UNCHANGED callVars,
           now' \in Nat, closed' \subseteq Ids
    PROVE  SessionsTypeOK' /\ \A d \in Calls : CallInv(d)'
<1>1. Ids' = Ids
    BY DEF Restated, Ids
<1>2. SentTokens' = SentTokens
    BY <1>1 DEF SentTokens, Stored
<1>3. \A d \in Calls : Matching(d)' = Matching(d)
    BY DEF Matching, Stored
<1>4. SessionsTypeOK'
    BY <1>1, <1>2, <1>3 DEF SessionsTypeOK, Restated, NoToken, Stored
<1> QED
    BY <1>4, KeptCall

-----------------------------------------------------------------------------
(* The actions, one lemma each.                                            *)

LEMMA SessionsInitInv == SessionsInit => SessionsInv
<1> SUFFICES ASSUME SessionsInit PROVE SessionsInv
    OBVIOUS
<1>1. Ids = {}
    BY DEF SessionsInit, Ids
<1>2. SessionsTypeOK
    BY <1>1 DEF SessionsInit, SessionsTypeOK, SentTokens
<1>3. ClosedNotLive /\ OpenLive /\ RevocationFinal
    BY <1>1 DEF SessionsInit, ClosedNotLive, OpenLive, RevocationFinal
<1>4. \A c \in Calls : CallInv(c)
    BY <1>1 DEF SessionsInit, CallInv, SeenComplete, SeenOwned, SeenFresh, LoadedTrue
<1> QED
    BY <1>2, <1>3, <1>4 DEF SessionsInv

LEMMA CreateStep ==
    ASSUME SessionsInv, NEW u \in Accounts, Create(u)
    PROVE  SessionsInv'
<1> DEFINE n == Len(rows) + 1
           row == [user |-> u, state |-> "live", expires |-> now + SessionTtl]
<1> USE DEF SessionsInv
<1>1. row \in SessionRow /\ rows \in Seq(SessionRow)
    BY SessionsAssumption DEF SessionsTypeOK, SessionRow
<1>2. rows' = Append(rows, row) /\ Len(rows) < MaxSessions
    BY DEF Create
<1>3. rows' \in Seq(SessionRow) /\ Len(rows') = n
    BY <1>1, <1>2
<1>4. (\A i \in Ids : rows'[i] = rows[i]) /\ rows'[n] = row
    BY <1>1, <1>2 DEF Ids
<1>5. Ids' = Ids \cup {n} /\ n \notin Ids
    BY <1>1, <1>3 DEF Ids
<1>6. SentTokens \subseteq SentTokens'
    BY <1>5 DEF SentTokens, Stored
<1>7. \A c \in Calls : Matching(c)' = Matching(c) /\ Matching(c) \subseteq Ids
    BY DEF Create, Matching, Stored, SessionsTypeOK
<1>8. SessionsTypeOK'
  <2>1. now' \in Nat /\ rows' \in Seq(SessionRow)
        /\ step' \in [Calls -> {"idle", "validate", "revoke", "save"}]
        /\ owner' \in [Calls -> Accounts \cup {NoUser}]
        /\ loaded' \in [Calls -> {"live", "revoked", "gone"}]
      BY <1>3 DEF Create, SessionsTypeOK
  <2>2. token' \in [Calls -> SentTokens' \cup {NoToken'}]
      BY <1>6 DEF Create, SessionsTypeOK, NoToken, Stored
  <2>3. seen' \in [Calls -> SUBSET Ids'] /\ closed' \in SUBSET Ids'
        /\ closedAtStart' \in [Calls -> SUBSET Ids']
      BY <1>5 DEF Create, SessionsTypeOK
  <2>4. \A c \in Calls : step'[c] = "save" => Matching(c)' # {}
      BY <1>7 DEF Create, SessionsTypeOK
  <2> QED
      BY <2>1, <2>2, <2>3, <2>4 DEF SessionsTypeOK
<1>9. ClosedNotLive'
    BY <1>4 DEF ClosedNotLive, Live, Create, SessionsTypeOK
<1>10. OpenLive'
  <2>1. now' = now /\ closed' = closed
      BY DEF Create
  <2>2. ASSUME NEW i \in Ids, rows'[i].expires > now, i \notin closed
        PROVE  rows'[i].state = "live"
      BY <1>4, <2>2 DEF OpenLive, Live
  <2>3. rows'[n].state = "live"
      BY <1>4
  <2> HIDE DEF n
  <2> QED
      BY <1>5, <2>1, <2>2, <2>3 DEF OpenLive, Live
<1>11. RevocationFinal'
    BY DEF RevocationFinal, Create, Stored
<1>12. ASSUME NEW c \in Calls PROVE CallInv(c)'
  <2>1. SeenComplete(c)'
    <3>1. token[c] # Stored(n)
        BY <1>2, NewTokenUnsent
    <3> QED
        BY <1>4, <1>5, <3>1 DEF CallInv, SeenComplete, Live, Create, Stored
  <2>2. SeenOwned(c)'
    <3>1. seen' = seen /\ owner' = owner
        BY DEF Create
    <3>2. seen[c] \subseteq Ids
        BY DEF SessionsTypeOK
    <3>3. \A i \in seen[c] : rows'[i].user = owner[c]
        BY <1>4, <3>2 DEF CallInv, SeenOwned
    <3> QED
        BY <3>1, <3>3 DEF SeenOwned
  <2>3. SeenFresh(c)'
      BY DEF CallInv, SeenFresh, Create
  <2>4. LoadedTrue(c)'
      BY <1>4, <1>7 DEF CallInv, LoadedTrue, Live, Create
  <2> QED
      BY <2>1, <2>2, <2>3, <2>4 DEF CallInv
<1> QED
    BY <1>8, <1>9, <1>10, <1>11, <1>12

LEMMA StartStep ==
    ASSUME SessionsInv, NEW c \in Calls, NEW u \in Accounts, NEW t \in SentTokens,
           NEW place \in {"validate", "revoke"}, Start(c, u, t, place)
    PROVE  SessionsInv'
<1> USE DEF SessionsInv
<1>1. Restated
    BY RestatedSame DEF Start
<1>2. Ids' = Ids /\ SentTokens' = SentTokens
    BY DEF Start, Ids, SentTokens, Stored
<1>3. Unrevoked(u) \subseteq Ids
    BY DEF Unrevoked
<1>4. SessionsTypeOK'
  <2>1. \A d \in Calls : step'[d] = "save" => Matching(d)' # {}
      BY DEF Start, SessionsTypeOK, Matching, Stored
  <2>2. now' \in Nat /\ rows' \in Seq(SessionRow)
        /\ step' \in [Calls -> {"idle", "validate", "revoke", "save"}]
        /\ owner' \in [Calls -> Accounts \cup {NoUser}]
        /\ loaded' \in [Calls -> {"live", "revoked", "gone"}]
      BY DEF Start, SessionsTypeOK
  <2>3. token' \in [Calls -> SentTokens' \cup {NoToken'}]
      BY <1>2 DEF Start, SessionsTypeOK, NoToken, Stored
  <2>4. seen' \in [Calls -> SUBSET Ids'] /\ closed' \in SUBSET Ids'
        /\ closedAtStart' \in [Calls -> SUBSET Ids']
      BY <1>2, <1>3 DEF Start, SessionsTypeOK
  <2> QED
      BY <2>1, <2>2, <2>3, <2>4 DEF SessionsTypeOK
<1>5. ClosedNotLive' /\ OpenLive' /\ RevocationFinal'
    BY <1>2 DEF Start, ClosedNotLive, OpenLive, RevocationFinal, Live, Stored
<1>6. ASSUME NEW d \in Calls PROVE CallInv(d)'
  <2>1. CASE d # c
      BY <1>1, <2>1, KeptCall DEF Start, SessionsTypeOK
  <2>2. CASE d = c
    <3>1. seen'[c] = Unrevoked(u) /\ owner'[c] = u /\ closedAtStart'[c] = closed
          /\ step'[c] # "save"
        BY DEF Start, SessionsTypeOK
    <3>2. SeenComplete(c)'
        BY <1>2, <3>1 DEF SeenComplete, Unrevoked, Live, Start
    <3>3. SeenOwned(c)'
        BY <3>1 DEF SeenOwned, Unrevoked, Start
    <3>4. SeenFresh(c)'
        BY <3>1 DEF SeenFresh, Unrevoked, ClosedNotLive
    <3> QED
        BY <2>2, <3>1, <3>2, <3>3, <3>4 DEF CallInv, LoadedTrue
  <2> QED
      BY <2>1, <2>2
<1> QED
    BY <1>4, <1>5, <1>6

\* A validation accepts only a session that was open when it began.
LEMMA AnswerStep ==
    ASSUME SessionsInv, NEW c \in Calls, Answer(c)
    PROVE  SessionsInv'
<1> USE DEF SessionsInv
<1>1. Restated /\ Ids' = Ids
    BY RestatedSame DEF Answer, Ids
<1>2. SessionsTypeOK' /\ \A d \in Calls : CallInv(d)'
    BY <1>1, ReturnedType, ReturnedCalls DEF Answer, SessionsTypeOK
<1>3. ClosedNotLive' /\ OpenLive'
    BY <1>1 DEF Answer, ClosedNotLive, OpenLive, Live
<1>4. ASSUME Valid(c), NEW i \in closedAtStart[c], Stored(i) = token[c] PROVE FALSE
  <2>1. PICK j \in seen[c] : Stored(j) = token[c]
      BY <1>4 DEF Valid, Matching
  <2>2. i = j
      BY <1>4, <2>1, StoredInjective
  <2> QED
      BY <2>1, <2>2 DEF CallInv, SeenFresh
<1>5. answer' = [valid |-> Valid(c), token |-> token[c], closed |-> closedAtStart[c]]
    BY DEF Answer
<1>6. RevocationFinal'
    BY <1>4, <1>5 DEF RevocationFinal, Stored
<1> QED
    BY <1>2, <1>3, <1>6

\* What a revocation ends is dead: either it found no session that matches, or
\* it saved the only one.
LEMMA RevokeNothingStep ==
    ASSUME SessionsInv, NEW c \in Calls, RevokeNothing(c)
    PROVE  SessionsInv'
<1> USE DEF SessionsInv
<1>1. Restated /\ Ids' = Ids
    BY RestatedSame DEF RevokeNothing, Ids
<1>2. Ended(owner[c], token[c]) \subseteq Ids
    BY DEF Ended
<1>3. SessionsTypeOK' /\ \A d \in Calls : CallInv(d)'
    BY <1>1, <1>2, ReturnedType, ReturnedCalls DEF RevokeNothing, SessionsTypeOK
<1>4. \A i \in Ended(owner[c], token[c]) : ~ Live(i)
    BY DEF Ended, RevokeNothing, Matching, CallInv, SeenComplete
<1>5. ClosedNotLive'
    BY <1>4 DEF RevokeNothing, ClosedNotLive, Live
<1>6. OpenLive' /\ RevocationFinal'
    BY <1>1 DEF RevokeNothing, OpenLive, Live, RevocationFinal, Stored
<1> QED
    BY <1>3, <1>5, <1>6

LEMMA RevokeSelectStep ==
    ASSUME SessionsInv, NEW c \in Calls, RevokeSelect(c)
    PROVE  SessionsInv'
<1> USE DEF SessionsInv
<1>1. Restated /\ Ids' = Ids /\ SentTokens' = SentTokens
    BY RestatedSame DEF RevokeSelect, Ids, SentTokens, Stored
<1>2. PICK i \in Matching(c) : loaded' = [loaded EXCEPT ![c] = rows[i].state]
    BY DEF RevokeSelect
<1>3. i \in Ids /\ rows[i] \in SessionRow
    BY DEF Matching, SessionsTypeOK, Ids
<1>4. \A d \in Calls : Matching(d)' = Matching(d)
    BY DEF RevokeSelect, Matching, Stored
<1>5. SessionsTypeOK'
  <2>1. loaded' \in [Calls -> {"live", "revoked", "gone"}]
      BY <1>2, <1>3 DEF SessionsTypeOK, SessionRow
  <2>2. \A d \in Calls : step'[d] = "save" => Matching(d)' # {}
      BY <1>2, <1>4 DEF RevokeSelect, SessionsTypeOK
  <2>3. step' \in [Calls -> {"idle", "validate", "revoke", "save"}]
      BY DEF RevokeSelect, SessionsTypeOK
  <2> QED
      BY <1>1, <2>1, <2>2, <2>3 DEF RevokeSelect, SessionsTypeOK, NoToken, Stored
<1>6. ClosedNotLive' /\ OpenLive' /\ RevocationFinal'
    BY <1>1 DEF RevokeSelect, ClosedNotLive, OpenLive, Live, RevocationFinal, Stored
<1>7. ASSUME NEW d \in Calls PROVE CallInv(d)'
  <2>1. CASE d # c
      BY <1>1, <2>1, KeptCall DEF RevokeSelect, SessionsTypeOK
  <2>2. CASE d = c
    <3>1. SeenComplete(c)' /\ SeenOwned(c)' /\ SeenFresh(c)'
        BY <1>1 DEF RevokeSelect, SessionsTypeOK, CallInv, SeenComplete, SeenOwned,
           SeenFresh, Live, Stored
    <3>2. \A j \in Matching(c) : j = i
        BY StoredInjective DEF Matching
    <3>3. loaded'[c] = rows[i].state
        BY <1>2 DEF SessionsTypeOK
    <3>4. LoadedTrue(c)'
        BY <1>4, <3>2, <3>3 DEF LoadedTrue, RevokeSelect, Live
    <3> QED
        BY <2>2, <3>1, <3>4 DEF CallInv
  <2> QED
      BY <2>1, <2>2
<1> QED
    BY <1>5, <1>6, <1>7

LEMMA RevokeSaveStep ==
    ASSUME SessionsInv, NEW c \in Calls, RevokeSave(c)
    PROVE  SessionsInv' /\ Restated
<1> USE DEF SessionsInv
<1>1. PICK i \in Matching(c) :
          rows' = [rows EXCEPT ![i] = InState(@, SavedState(@.state, loaded[c]))]
    BY DEF RevokeSave
<1>2. i \in Ids /\ rows[i] \in SessionRow /\ Stored(i) = token[c] /\ i \in seen[c]
    BY DEF Matching, SessionsTypeOK, Ids
<1>3. Restated /\ Ids' = Ids
    BY <1>1, <1>2, RestatedBySave DEF Restated, Ids
<1>4. Ended(owner[c], token[c]) = {i}
    BY <1>2, StoredInjective DEF Ended, CallInv, SeenOwned
<1>5. SessionsTypeOK' /\ \A d \in Calls : CallInv(d)'
    BY <1>2, <1>3, <1>4, ReturnedType, ReturnedCalls DEF RevokeSave, SessionsTypeOK
<1>6. rows'[i] = InState(rows[i], SavedState(rows[i].state, loaded[c]))
    BY <1>1, <1>2 DEF SessionsTypeOK, Ids
<1>7. ~ Live(i)'
  <2>1. rows[i].state \in {"live", "revoked", "gone"}
        /\ loaded[c] \in {"live", "revoked", "gone"}
      BY <1>2 DEF SessionRow, SessionsTypeOK
  <2>2. loaded[c] = "live" \/ loaded[c] = "gone" \/ rows[i].state # "live"
      BY <1>2, <2>1 DEF CallInv, LoadedTrue, RevokeSave, Live
  <2> QED
      BY <1>6, <2>1, <2>2, SavedStateType DEF Live, InState
<1>8. closed' = closed \cup {i}
    BY <1>4 DEF RevokeSave
<1>9. ClosedNotLive'
    BY <1>3, <1>7, <1>8 DEF ClosedNotLive, Restated, SessionsTypeOK
<1>10. \A j \in Ids : j # i => rows'[j] = rows[j]
    BY <1>1 DEF SessionsTypeOK, Ids
<1>11. OpenLive'
    BY <1>3, <1>8, <1>10 DEF OpenLive, Live, RevokeSave
<1>12. RevocationFinal'
    BY DEF RevocationFinal, RevokeSave, Stored
<1> QED
    BY <1>3, <1>5, <1>9, <1>11, <1>12

LEMMA CallFailStep ==
    ASSUME SessionsInv, NEW c \in Calls, CallFail(c)
    PROVE  SessionsInv'
<1> USE DEF SessionsInv
<1>1. Restated /\ Ids' = Ids
    BY RestatedSame DEF CallFail, Ids
<1>2. SessionsTypeOK' /\ \A d \in Calls : CallInv(d)'
    BY <1>1, ReturnedType, ReturnedCalls DEF CallFail, SessionsTypeOK
<1>3. ClosedNotLive' /\ OpenLive' /\ RevocationFinal'
    BY <1>1 DEF CallFail, ClosedNotLive, OpenLive, Live, RevocationFinal, Stored
<1> QED
    BY <1>2, <1>3

LEMMA RevokeAllStep ==
    ASSUME SessionsInv, NEW u \in Accounts, RevokeAll(u)
    PROVE  SessionsInv' /\ Restated
<1> USE DEF SessionsInv
<1>1. Restated /\ Ids' = Ids
    BY RestatedByBulk DEF RevokeAll, Restated, Ids
<1>2. SessionsTypeOK' /\ \A d \in Calls : CallInv(d)'
    BY <1>1, UnchangedCalls DEF RevokeAll, SessionsTypeOK
<1>3. \A i \in Ids : rows'[i] = IF i \in Unrevoked(u) THEN InState(rows[i], "revoked")
                                ELSE rows[i]
    BY DEF RevokeAll
<1>4. ASSUME NEW i \in Ids, rows[i].user = u PROVE ~ Live(i)'
  <2>1. CASE Live(i)
    <3>1. rows'[i] = InState(rows[i], "revoked")
        BY <1>3, <1>4, <2>1 DEF Unrevoked
    <3> QED
        BY <3>1 DEF Live, InState
  <2>2. CASE ~ Live(i)
      BY <1>1, <2>2 DEF Restated
  <2> QED
      BY <2>1, <2>2
<1>5. \A i \in Ids : rows[i].user # u => rows'[i] = rows[i]
    BY <1>3 DEF Unrevoked
<1>6. ClosedNotLive'
    BY <1>1, <1>4 DEF ClosedNotLive, RevokeAll, Restated, SessionsTypeOK
<1>7. OpenLive'
    BY <1>1, <1>5 DEF OpenLive, RevokeAll, Restated, Live
<1>8. RevocationFinal'
    BY DEF RevocationFinal, RevokeAll, Stored
<1> QED
    BY <1>1, <1>2, <1>6, <1>7, <1>8

LEMMA CleanupStep ==
    ASSUME SessionsInv, Cleanup
    PROVE  SessionsInv' /\ Restated
<1> USE DEF SessionsInv
<1> DEFINE S == {i \in Ids : rows[i].expires < now}
<1>1. rows' = [i \in Ids |-> IF i \in S THEN InState(rows[i], "gone") ELSE rows[i]]
    BY DEF Cleanup
<1>2. Restated /\ Ids' = Ids
    BY <1>1, RestatedByBulk DEF Restated, Ids
<1>3. SessionsTypeOK' /\ \A d \in Calls : CallInv(d)'
    BY <1>2, UnchangedCalls DEF Cleanup, SessionsTypeOK
<1>4. ClosedNotLive'
    BY <1>2 DEF ClosedNotLive, Cleanup, Restated, SessionsTypeOK
<1>5. OpenLive'
  <2>1. \A i \in Ids : rows[i] \in SessionRow
      BY DEF SessionsTypeOK, Ids
  <2>2. \A i \in Ids : rows[i].expires > now => rows'[i] = rows[i]
      BY <1>1, <2>1 DEF SessionRow, SessionsTypeOK
  <2>3. UNCHANGED <<now, closed>>
      BY DEF Cleanup
  <2>4. \A i \in Ids : rows[i].expires > now /\ i \notin closed => Live(i)'
      BY <2>2 DEF OpenLive, Live
  <2>5. \A i \in Ids : rows'[i].expires = rows[i].expires
      BY <1>2 DEF Restated
  <2> QED
      BY ONLY <1>2, <2>3, <2>4, <2>5 DEF OpenLive, Live
<1>6. RevocationFinal'
    BY DEF RevocationFinal, Cleanup, Stored
<1> QED
    BY <1>2, <1>3, <1>4, <1>5, <1>6

LEMMA SessionTickStep ==
    ASSUME SessionsInv, SessionTick
    PROVE  SessionsInv'
<1> USE DEF SessionsInv
<1>1. Restated /\ Ids' = Ids
    BY RestatedSame DEF SessionTick, Ids
<1>2. SessionsTypeOK' /\ \A d \in Calls : CallInv(d)'
    BY <1>1, UnchangedCalls DEF SessionTick, SessionsTypeOK
<1>3. \A i \in Ids : rows[i] \in SessionRow
    BY DEF SessionsTypeOK, Ids
<1>4. OpenLive'
    BY <1>1, <1>3 DEF OpenLive, SessionTick, Live, SessionRow, SessionsTypeOK
<1>5. ClosedNotLive' /\ RevocationFinal'
    BY DEF SessionTick, ClosedNotLive, Live, RevocationFinal, Stored
<1> QED
    BY <1>2, <1>4, <1>5

LEMMA SessionsStutter ==
    ASSUME SessionsInv, UNCHANGED sessionVars
    PROVE  SessionsInv'
<1> USE DEF SessionsInv
<1>1. Restated /\ Ids' = Ids
    BY RestatedSame DEF Ids
<1>2. SessionsTypeOK' /\ \A d \in Calls : CallInv(d)'
    BY <1>1, UnchangedCalls DEF SessionsTypeOK
<1>3. ClosedNotLive' /\ OpenLive' /\ RevocationFinal'
    BY <1>1 DEF ClosedNotLive, OpenLive, Live, RevocationFinal, Stored
<1> QED
    BY <1>2, <1>3

-----------------------------------------------------------------------------
LEMMA SessionsStep == SessionsInv /\ [SessionsNext]_sessionVars => SessionsInv'
<1> SUFFICES ASSUME SessionsInv, [SessionsNext]_sessionVars PROVE SessionsInv'
    OBVIOUS
<1>1. ASSUME NEW u \in Accounts, Create(u) \/ RevokeAll(u) PROVE SessionsInv'
    BY <1>1, CreateStep, RevokeAllStep
<1>2. ASSUME NEW c \in Calls, NEW u \in Accounts, NEW t \in SentTokens,
             Validate(c, u, t) \/ Revoke(c, u, t)
      PROVE  SessionsInv'
    BY <1>2, StartStep DEF Validate, Revoke
<1>3. ASSUME NEW c \in Calls, CallStep(c) \/ CallFail(c) PROVE SessionsInv'
    BY <1>3, AnswerStep, RevokeNothingStep, RevokeSelectStep, RevokeSaveStep,
       CallFailStep DEF CallStep
<1>4. CASE Cleanup \/ SessionTick
    BY <1>4, CleanupStep, SessionTickStep
<1>5. CASE UNCHANGED sessionVars
    BY <1>5, SessionsStutter
<1> QED
    BY <1>1, <1>2, <1>3, <1>4, <1>5 DEF SessionsNext

LEMMA SessionsInvariant == SessionsSpec => []SessionsInv
BY SessionsInitInv, SessionsStep, PTL DEF SessionsSpec

\* The service and its table are type correct, and a revocation that reached
\* its save has found a session to save.
THEOREM SessionsTypeCorrect == SessionsSpec => []SessionsTypeOK
<1>1. SessionsInv => SessionsTypeOK
    BY DEF SessionsInv
<1> QED
    BY <1>1, SessionsInvariant, PTL

\* A session whose revocation was answered is not live, whatever the other
\* calls read before and save after it.
THEOREM ClosedStayDead == SessionsSpec => []ClosedNotLive
<1>1. SessionsInv => ClosedNotLive
    BY DEF SessionsInv
<1> QED
    BY <1>1, SessionsInvariant, PTL

\* validateRefreshToken never accepts a token whose revocation was answered
\* before it was called.
THEOREM RevocationIsFinal == SessionsSpec => []RevocationFinal
<1>1. SessionsInv => RevocationFinal
    BY DEF SessionsInv
<1> QED
    BY <1>1, SessionsInvariant, PTL

\* A session is lost to nothing but its own revocation or time, and a
\* validation under way that carries its token will accept it.
THEOREM SessionsKept == SessionsSpec => []KeptUntilClosed
<1>1. ASSUME SessionsInv, NEW i \in Ids, rows[i].expires > now, i \notin closed
      PROVE  /\ Live(i)
             /\ \A c \in Calls :
                    step[c] = "validate" /\ owner[c] = rows[i].user
                    /\ token[c] = Stored(i) => Valid(c)
  <2>1. Live(i)
      BY <1>1 DEF SessionsInv, OpenLive
  <2>2. ASSUME NEW c \in Calls, step[c] = "validate", owner[c] = rows[i].user,
               token[c] = Stored(i)
        PROVE  Valid(c)
    <3>1. i \in Matching(c)
        BY <1>1, <2>1, <2>2 DEF SessionsInv, CallInv, SeenComplete, Matching
    <3> QED
        BY <1>1, <3>1 DEF Valid
  <2> QED
      BY <2>1, <2>2
<1>2. SessionsInv => KeptUntilClosed
    BY <1>1 DEF KeptUntilClosed
<1> QED
    BY <1>2, SessionsInvariant, PTL

\* No step of any call, bulk operation or failure makes a session live that was
\* revoked or deleted, not even a save that inserts a deleted row anew.
THEOREM NothingRevives == SessionsSpec => NeverLivesAgain
<1> DEFINE Dead == \A i \in Ids : ~ Live(i) => rows'[i].state # "live"
<1>1. Restated => Dead
    BY DEF Restated, Live
<1>2. ASSUME SessionsInv, rows' = rows PROVE Dead
    BY <1>2 DEF Live
<1>3. ASSUME SessionsInv, NEW u \in Accounts, Create(u) \/ RevokeAll(u) PROVE Dead
  <2>1. CASE Create(u)
    <3>1. \A i \in Ids : rows'[i] = rows[i]
        BY <1>3, <2>1 DEF Create, Ids, SessionsInv, SessionsTypeOK
    <3> QED
        BY <3>1 DEF Live
  <2>2. CASE RevokeAll(u)
      BY <1>1, <1>3, <2>2, RevokeAllStep
  <2> QED
      BY <1>3, <2>1, <2>2
<1>4. ASSUME SessionsInv, NEW c \in Calls, CallStep(c) \/ CallFail(c) PROVE Dead
  <2>1. CASE RevokeSave(c)
      BY <1>1, <1>4, <2>1, RevokeSaveStep
  <2>2. CASE ~ RevokeSave(c)
    <3>1. rows' = rows
        BY <1>4, <2>2 DEF CallStep, Answer, RevokeNothing, RevokeSelect, CallFail
    <3> QED
        BY <1>2, <1>4, <3>1
  <2> QED
      BY <2>1, <2>2
<1>5. ASSUME SessionsInv, NEW c \in Calls, NEW u \in Accounts, NEW t \in SentTokens,
             Validate(c, u, t) \/ Revoke(c, u, t)
      PROVE  Dead
  <2>1. rows' = rows
      BY <1>5 DEF Validate, Revoke, Start
  <2> QED
      BY <1>2, <1>5, <2>1
<1>6. ASSUME SessionsInv, Cleanup PROVE Dead
    BY <1>1, <1>6, CleanupStep
<1>7. ASSUME SessionsInv, SessionTick PROVE Dead
  <2>1. rows' = rows
      BY <1>7 DEF SessionTick
  <2> QED
      BY <1>2, <1>7, <2>1
<1>8. SessionsInv /\ [SessionsNext]_sessionVars => [Dead]_sessionVars
    BY <1>3, <1>4, <1>5, <1>6, <1>7 DEF SessionsNext
<1> QED
    BY <1>8, SessionsInvariant, PTL DEF SessionsSpec, NeverLivesAgain

=============================================================================
