---------------------------- MODULE AuditEvents ----------------------------
(***************************************************************************)
(* AuditLogService.log over the Loki transport: each call inserts a row    *)
(* and, when the INSERT has answered, pushes one entry that says what      *)
(* kind of event it was.  Calls overlap, so entries are not pushed in the  *)
(* order of the rows; a call whose INSERT fails has done nothing.          *)
(*                                                                         *)
(* main.ts makes the same logger that of Nest and logs a line of its own   *)
(* when the service has started.  All of these go through the one buffer   *)
(* at any time, and are about no row.                                      *)
(***************************************************************************)
EXTENDS LokiTransport, FiniteSets

CONSTANTS
    Actions,            \* the actions that are logged
    MaxRows,            \* bound: rows ever inserted
    MaxOthers           \* bound: entries pushed that are about no row

\* The words getEventType looks for that are part of the action.
Words == [LOGIN_FAILED  |-> {"login"}, LOGIN_LOCKED  |-> {"login", "lock"},
          LOGIN_SUCCESS |-> {"login"}, MFA_PENDING   |-> {"mfa"},
          TOKEN_REFRESH |-> {"refresh"}, LOGOUT      |-> {"logout"}]

\* success, as the callers pass it: false for these two only.
Success == [action \in DOMAIN Words |-> action \notin {"LOGIN_FAILED", "LOGIN_LOCKED"}]

\* Every row and every other entry may be pushed: the bound on pushes blocks none.
ASSUME AuditAssumption ==
    /\ Actions \subseteq DOMAIN Words
    /\ MaxRows \in Nat
    /\ MaxOthers \in Nat
    /\ MaxRows + MaxOthers <= MaxPushes

NoRow == 0

VARIABLES
    rows,               \* the actions of the rows of table "audit_logs"
    reporting,          \* rows whose call has not pushed its entry yet
    source              \* source[e] is the row entry e reports, or NoRow

auditVars == <<lokiVars, rows, reporting, source>>

AuditInit ==
    /\ LokiInit
    /\ rows = <<>>
    /\ reporting = {}
    /\ source = <<>>

-----------------------------------------------------------------------------
\* Faulty: a login is a failed login, whatever its success.
EventTypeAnySuccess(action) ==
    LET has(word) == word \in Words[action]
    IN  IF has("login") THEN "login_failed"
        ELSE IF has("logout") THEN "logout"
        ELSE IF has("refresh") THEN "token_refresh"
        ELSE "mfa_pending"

\* The first word found decides, in the order of the code.  No action that is
\* logged has the words of the branches left out ("mfa" with "enable", "password").
EventType(action) ==
    LET has(word) == word \in Words[action]
    IN  IF has("login") THEN IF Success[action] THEN "login_success"
                                                ELSE "login_failed"
        ELSE IF has("logout") THEN "logout"
        ELSE IF has("refresh") THEN "token_refresh"
        ELSE IF has("lock") THEN "account_locked"
        ELSE "mfa_pending"

\* The INSERT has answered.
Save(action) ==
    /\ Len(rows) < MaxRows
    /\ rows' = Append(rows, action)
    /\ reporting' = reporting \cup {Len(rows')}
    /\ UNCHANGED <<lokiVars, source>>

\* Faulty: reports the row inserted last, not the one of this call.
ReportLast(r) ==
    /\ r \in reporting
    /\ reporting' = reporting \ {r}
    /\ Push
    /\ source' = Append(source, Len(rows))
    /\ UNCHANGED rows

\* The rest of the call, which awaits nothing.
Report(r) ==
    /\ r \in reporting
    /\ reporting' = reporting \ {r}
    /\ Push
    /\ source' = Append(source, r)
    /\ UNCHANGED rows

\* Nest, or main.ts, logs a line.
Announce ==
    /\ Cardinality({e \in 1 .. Len(source) : source[e] = NoRow}) < MaxOthers
    /\ Push
    /\ source' = Append(source, NoRow)
    /\ UNCHANGED <<rows, reporting>>

Transport ==
    \/ FlushLogs
    \/ \E batch \in posts : Stored(batch) \/ Refused(batch)

\* The calls in progress die with the process; their rows are never reported.
Die == Crash /\ reporting' = {} /\ UNCHANGED <<rows, source>>

AuditNext ==
    \/ \E action \in Actions : Save(action)
    \/ \E r \in reporting : Report(r)
    \/ Announce
    \/ Transport /\ UNCHANGED <<rows, reporting, source>>
    \/ Die

AuditSpec == AuditInit /\ [][AuditNext]_auditVars

\* The event loop resumes every call, and the interval fires for as long as the
\* process lives.
AuditFairSpec ==
    /\ AuditSpec
    /\ \A r \in 1 .. MaxRows : WF_auditVars(Report(r))
    /\ WF_auditVars(FlushLogs /\ UNCHANGED <<rows, reporting, source>>)

-----------------------------------------------------------------------------
AuditTypeOK ==
    /\ LokiTypeOK
    /\ rows \in Seq(Actions)
    /\ reporting \subseteq 1 .. Len(rows)
    /\ source \in Seq({NoRow} \cup 1 .. Len(rows))
    /\ Len(source) = pushed

Sources(batch) == {source[batch[n]] : n \in 1 .. Len(batch)} \ {NoRow}

\* The monitoring hears of every row at most once, whatever calls overlap, Nest and
\* main.ts log by the same way, batches are refused, arrive late or in another
\* order, and processes die (log and the transport under it).
Trail == INSTANCE Delivery WITH
    sent <- Len(rows),
    underWay <- reporting \cup Sources(logBuffer)
                \cup UNION {Sources(batch) : batch \in posts},
    arrived <- [n \in 1 .. Len(loki) |-> source[loki[n]]]

ImplementsDelivery == Trail!DeliverySpec

Refusal(action) == action \in {"LOGIN_FAILED", "LOGIN_LOCKED"}

\* The entries Loki stored that are about a row of one of these actions, and those
\* it stored under this type.
About(actions) ==
    {n \in 1 .. Len(loki) :
         source[loki[n]] # NoRow /\ rows[source[loki[n]]] \in actions}

Typed(type) == About({action \in Actions : EventType(action) = type})

\* The alert for repeated failures counts the entries called login_failed
\* (alert-rules.yml:19).  It never counts more than the logins that were refused,
\* and counts each one refused for its password whose entry has arrived; where the
\* entries of locked accounts belong is LockedReported's matter.
AlertCounts ==
    /\ Cardinality(Typed("login_failed"))
           <= Cardinality({r \in 1 .. Len(rows) : Refusal(rows[r])})
    /\ About({"LOGIN_FAILED"}) \subseteq Typed("login_failed")

\* "An account has been locked due to multiple failed login attempts"
\* (alert-rules.yml:103): a login refused because its account is locked is reported
\* as the account_locked that this alert counts (line 97).
LockedReported == About({"LOGIN_LOCKED"}) \subseteq Typed("account_locked")

\* A row does not stay unreported: its entry leaves the process in the end, or
\* the process dies.
LeavesProcess ==
    \A r \in 1 .. MaxRows :
        r \in reporting ~> r \notin reporting \cup Sources(logBuffer)

=============================================================================
