------------------------------ MODULE Sessions ------------------------------
(***************************************************************************)
(* SessionsService and its table: refresh tokens created, validated and    *)
(* revoked by requests that interleave, the two bulk operations, and time. *)
(*                                                                         *)
(* Session i is the i-th row ever inserted.  The token of session i is     *)
(* random and only its bcrypt hash is stored: Stored(i) is a token that    *)
(* matches session i and no other.  A row is "live" (is_revoked = false,   *)
(* expired or not), "revoked" or "gone" (deleted).                         *)
(***************************************************************************)
EXTENDS Naturals, Sequences

CONSTANTS
    Accounts,           \* the users
    NoUser,             \* who a call that is not running works for
    Calls,              \* validate and revoke calls in progress at once
    Foreign,            \* tokens clients send that the service never made
    SessionTtl,         \* life of a session (7 days)
    MaxSessions,        \* bound: rows ever inserted
    MaxNow              \* bound: the last tick of the clock

ASSUME SessionsAssumption ==
    /\ NoUser \notin Accounts
    /\ Foreign \cap {<<"stored", i>> : i \in 0 .. MaxSessions} = {}
    /\ SessionTtl \in Nat \ {0}
    /\ MaxSessions \in Nat
    /\ MaxNow \in Nat

VARIABLES
    now,
    rows,               \* the table
    step, token, owner, \* of each call: where it is, what it was called with,
    seen,               \* the unrevoked sessions its SELECT returned,
    loaded,             \* and the state save's own SELECT found
    closed,             \* sessions whose revocation was carried out    (ghost)
    closedAtStart,      \* those already closed when the call began     (ghost)
    answer              \* the last answer of validateRefreshToken      (ghost)

callVars == <<step, token, owner, seen, loaded, closedAtStart>>
sessionVars == <<now, rows, callVars, closed, answer>>

Stored(i) == <<"stored", i>>

NoToken == Stored(0)

SessionRow == [user : Accounts, state : {"live", "revoked", "gone"}, expires : Nat]

SessionsInit ==
    /\ now = 1
    /\ rows = <<>>
    /\ step = [c \in Calls |-> "idle"]
    /\ token = [c \in Calls |-> NoToken]
    /\ owner = [c \in Calls |-> NoUser]
    /\ seen = [c \in Calls |-> {}]
    /\ loaded = [c \in Calls |-> "gone"]
    /\ closed = {}
    /\ closedAtStart = [c \in Calls |-> {}]
    /\ answer = [valid |-> FALSE, token |-> NoToken, closed |-> {}]

-----------------------------------------------------------------------------
Ids == 1 .. Len(rows)

\* A client can send a token it was given, or one from elsewhere.
SentTokens == Foreign \cup {Stored(i) : i \in Ids}

Live(i) == rows[i].state = "live"

InState(row, state) == [user |-> row.user, state |-> state, expires |-> row.expires]

Matching(c) == {i \in seen[c] : Stored(i) = token[c]}

\* The call returns: its locals are gone.
Return(c) ==
    /\ step' = [step EXCEPT ![c] = "idle"]
    /\ token' = [token EXCEPT ![c] = NoToken]
    /\ seen' = [seen EXCEPT ![c] = {}]
    /\ loaded' = [loaded EXCEPT ![c] = "gone"]
    /\ closedAtStart' = [closedAtStart EXCEPT ![c] = {}]
    /\ owner' = [owner EXCEPT ![c] = NoUser]

\* createRefreshToken: one INSERT.
Create(u) ==
    /\ Len(rows) < MaxSessions
    /\ rows' = Append(rows, [user |-> u, state |-> "live",
                             expires |-> now + SessionTtl])
    /\ UNCHANGED <<now, callVars, closed, answer>>

\* Faulty: the filter on isRevoked is missing.
UnrevokedAll(u) == {i \in Ids : rows[i].user = u}

\* find({ userId, isRevoked: false }).
Unrevoked(u) == {i \in Ids : rows[i].user = u /\ Live(i)}

Start(c, u, t, place) ==
    /\ step[c] = "idle"
    /\ step' = [step EXCEPT ![c] = place]
    /\ token' = [token EXCEPT ![c] = t]
    /\ owner' = [owner EXCEPT ![c] = u]
    /\ seen' = [seen EXCEPT ![c] = Unrevoked(u)]
    /\ closedAtStart' = [closedAtStart EXCEPT ![c] = closed]
    /\ UNCHANGED <<now, rows, loaded, closed, answer>>

Validate(c, u, t) == Start(c, u, t, "validate")

Revoke(c, u, t) == Start(c, u, t, "revoke")

\* The loop of comparisons, up to the one that decides: expiry is looked at
\* then, and against the clock of that moment.
Valid(c) == \E i \in Matching(c) : rows[i].expires > now

Answer(c) ==
    /\ step[c] = "validate"
    /\ answer' = [valid |-> Valid(c), token |-> token[c],
                  closed |-> closedAtStart[c]]
    /\ Return(c)
    /\ UNCHANGED <<now, rows, closed>>

\* What a revocation of t for u has ended once it is answered.
Ended(u, t) == {i \in Ids : rows[i].user = u /\ Stored(i) = t}

\* No session of the user matches: revokeSession returns all the same.
RevokeNothing(c) ==
    /\ step[c] = "revoke"
    /\ Matching(c) = {}
    /\ closed' = closed \cup Ended(owner[c], token[c])
    /\ Return(c)
    /\ UNCHANGED <<now, rows, answer>>

\* Faulty: saves without having found a session.
RevokeSelectBlind(c) ==
    /\ step[c] = "revoke"
    /\ step' = [step EXCEPT ![c] = "save"]
    /\ UNCHANGED <<now, rows, token, owner, seen, loaded, closed, closedAtStart,
                   answer>>

\* The first match is marked revoked in memory and saved: save reads the row,
RevokeSelect(c) ==
    /\ step[c] = "revoke"
    /\ \E i \in Matching(c) : loaded' = [loaded EXCEPT ![c] = rows[i].state]
    /\ step' = [step EXCEPT ![c] = "save"]
    /\ UNCHANGED <<now, rows, token, owner, seen, closed, closedAtStart, answer>>

\* and then inserts it if it was gone, updates it if it was not revoked, and
\* does nothing if it was.  An INSERT over a row that is back is refused, an
\* UPDATE of a row deleted since finds none.
SavedState(current, found) ==
    IF found = "gone" \/ (found = "live" /\ current # "gone")
    THEN "revoked" ELSE current

\* Faulty: returns without the save.
RevokeSaveNot(c) ==
    /\ step[c] = "save"
    /\ closed' = closed \cup Ended(owner[c], token[c])
    /\ Return(c)
    /\ UNCHANGED <<now, rows, answer>>

\* Faulty: saves without having marked the session revoked.
RevokeSaveUnmarked(c) ==
    /\ step[c] = "save"
    /\ \E i \in Matching(c) :
           rows' = [rows EXCEPT ![i] =
                        InState(@, IF loaded[c] = "gone" THEN "live" ELSE @.state)]
    /\ closed' = closed \cup Ended(owner[c], token[c])
    /\ Return(c)
    /\ UNCHANGED <<now, answer>>

RevokeSave(c) ==
    /\ step[c] = "save"
    /\ \E i \in Matching(c) :
           rows' = [rows EXCEPT ![i] = InState(@, SavedState(@.state, loaded[c]))]
    /\ closed' = closed \cup Ended(owner[c], token[c])
    /\ Return(c)
    /\ UNCHANGED <<now, answer>>

\* A statement fails or the process dies before it.  A process that dies after
\* the last statement and before the answer has done what RevokeSave does.
CallFail(c) ==
    /\ step[c] # "idle"
    /\ Return(c)
    /\ UNCHANGED <<now, rows, closed, answer>>

\* revokeAllUserSessions: one UPDATE.  Nothing under src calls it yet.
RevokeAll(u) ==
    /\ rows' = [i \in Ids |-> IF i \in Unrevoked(u)
                              THEN InState(rows[i], "revoked")
                              ELSE rows[i]]
    /\ closed' = closed \cup {i \in Ids : rows[i].user = u}
    /\ UNCHANGED <<now, callVars, answer>>

\* Faulty: the comparison is the other way round.
CleanupReversed ==
    /\ rows' = [i \in Ids |-> IF rows[i].expires > now
                              THEN InState(rows[i], "gone")
                              ELSE rows[i]]
    /\ UNCHANGED <<now, callVars, closed, answer>>

\* cleanupExpiredSessions: one DELETE.  Nothing under src calls it yet.
Cleanup ==
    /\ rows' = [i \in Ids |-> IF rows[i].expires < now
                              THEN InState(rows[i], "gone")
                              ELSE rows[i]]
    /\ UNCHANGED <<now, callVars, closed, answer>>

SessionTick ==
    /\ now < MaxNow
    /\ now' = now + 1
    /\ UNCHANGED <<rows, callVars, closed, answer>>

CallStep(c) == Answer(c) \/ RevokeNothing(c) \/ RevokeSelect(c) \/ RevokeSave(c)

SessionsNext ==
    \/ \E u \in Accounts : Create(u) \/ RevokeAll(u)
    \/ \E c \in Calls :
           \/ \E u \in Accounts, t \in SentTokens : Validate(c, u, t) \/ Revoke(c, u, t)
           \/ CallStep(c)
           \/ CallFail(c)
    \/ Cleanup
    \/ SessionTick

SessionsSpec == SessionsInit /\ [][SessionsNext]_sessionVars

-----------------------------------------------------------------------------
SessionsTypeOK ==
    /\ now \in Nat
    /\ rows \in Seq(SessionRow)
    /\ step \in [Calls -> {"idle", "validate", "revoke", "save"}]
    /\ token \in [Calls -> SentTokens \cup {NoToken}]
    /\ owner \in [Calls -> Accounts \cup {NoUser}]
    /\ seen \in [Calls -> SUBSET Ids]
    /\ loaded \in [Calls -> {"live", "revoked", "gone"}]
    /\ closed \in SUBSET Ids
    /\ closedAtStart \in [Calls -> SUBSET Ids]
    /\ \A c \in Calls : step[c] = "save" => Matching(c) # {}

\* A session that was revoked or deleted never lives again, although a
\* revocation that lost a race with the cleanup inserts the row anew.
NeverLivesAgain ==
    [][\A i \in Ids : ~ Live(i) => rows'[i].state # "live"]_sessionVars

\* Nobody loses a session but by its own revocation or by time: until one of the
\* two ends it, it is live, and every validation of its token that is under way
\* will accept it, whatever is created, revoked and cleaned up around it.
KeptUntilClosed ==
    \A i \in Ids : rows[i].expires > now /\ i \notin closed =>
        /\ Live(i)
        /\ \A c \in Calls :
               step[c] = "validate" /\ owner[c] = rows[i].user
               /\ token[c] = Stored(i) => Valid(c)

\* A revocation that was answered is final: validateRefreshToken, called after
\* revokeSession of that token (or revokeAllUserSessions) has returned, does
\* not accept it, whatever ran in between and at the same time.
RevocationFinal ==
    answer.valid => \A i \in answer.closed : Stored(i) # answer.token

\* What is closed is not live: the invariant RevocationFinal rests on.
ClosedNotLive == \A i \in closed : ~ Live(i)

=============================================================================
